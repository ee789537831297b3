--------------------------- MODULE ServicesProofs ---------------------------
(***************************************************************************)
(* What holds of the programs around the trading core for every set of     *)
(* jobs, answers and disturbances: the scheduler accounts for each run,    *)
(* the runner orders what an answer justifies, a breakout decision is on   *)
(* record, and the stored state of the bot is that of the first call.  And *)
(* what holds of the rules for every market they judge: summaries, books,  *)
(* bars, histories of calls, accounts, prices; at the end all of them make *)
(* one invariant.                                                          *)
(***************************************************************************)
EXTENDS Services, FiniteSetTheorems, WellFoundedInduction, TLAPS

-----------------------------------------------------------------------------
(* Sets, intervals and sums.                                               *)

LEMMA Least ==
    ASSUME NEW S \in SUBSET Nat, S # {}
    PROVE  \E m \in S : \A n \in S : m <= n
<1> DEFINE LessThan == {p \in Nat \X Nat : p[1] < p[2]}
<1>1. IsWellFoundedOn(LessThan, Nat)
  BY NatLessThanWellFounded DEF OpToRel
<1>2. \A u, v \in Nat : <<u, v>> \in LessThan <=> u < v
  OBVIOUS
<1> HIDE DEF LessThan
<1>3. PICK m \in S : \A d \in S : <<d, m>> \notin LessThan
  BY <1>1, WFMin
<1>4. \A d \in S : m <= d
  <2> TAKE d \in S
  <2>1. d \in Nat /\ m \in Nat /\ <<d, m>> \notin LessThan
    BY <1>3
  <2>2. ~(d < m)
    BY <1>2, <2>1
  <2> QED BY <2>1, <2>2
<1> QED BY <1>4

LEMMA Climb ==
    ASSUME NEW n \in Nat, NEW G, 0 \in G, \A k \in 1 .. n : k - 1 \in G => k \in G
    PROVE  \A k \in 0 .. n : k \in G
<1> DEFINE Bad == {k \in 0 .. n : k \notin G}
<1>1. ASSUME Bad # {} PROVE FALSE
  <2>0. Bad \in SUBSET Nat
    OBVIOUS
  <2> HIDE DEF Bad
  <2>1. PICK k \in Bad : \A l \in Bad : k <= l
    BY <1>1, <2>0, Least
  <2> USE DEF Bad
  <2>2. k \in 1 .. n /\ k - 1 \in 0 .. n /\ k - 1 \notin Bad
    BY <2>1
  <2> QED BY <2>1, <2>2
<1> QED BY <1>1

-----------------------------------------------------------------------------
(* Sums over finite sets.                                                  *)

\* The element of a set that a sum takes first.
One(s) == CHOOSE x \in s : TRUE

\* g sums f over the sets of a collection.
Sums(g, f, D) == g = [s \in D |-> IF s = {} THEN 0 ELSE f[One(s)] + g[s \ {One(s)}]]

LEMMA SumIs ==
    ASSUME NEW f
    PROVE  SumFunction(f) = (CHOOSE g : Sums(g, f, SUBSET DOMAIN f))[DOMAIN f]
BY DEF SumFunction, SumFunctionOnSet, FoldFunctionOnSet, MapThenFoldSet, Sums, One

LEMMA SmallerSet ==
    ASSUME NEW S, IsFiniteSet(S), NEW s \in SUBSET S, NEW x \in s
    PROVE  /\ s \ {x} \in SUBSET S
           /\ Cardinality(s) \in Nat /\ Cardinality(s \ {x}) = Cardinality(s) - 1
           /\ Cardinality(s) > 0
<1>1. IsFiniteSet(s) /\ Cardinality(s) \in Nat
  BY FS_Subset, FS_CardinalityType
<1>2. Cardinality(s \ {x}) = Cardinality(s) - 1 /\ IsFiniteSet(s \ {x})
  BY <1>1, FS_RemoveElement
<1>3. Cardinality(s \ {x}) \in Nat
  BY <1>2, FS_CardinalityType
<1> QED BY <1>1, <1>2, <1>3

LEMMA OneIn ==
    ASSUME NEW s, s # {}
    PROVE  One(s) \in s
BY DEF One

\* What passes from smaller sets to larger ones holds of every subset of a finite set.
LEMMA SetClimb ==
    ASSUME NEW S, IsFiniteSet(S), NEW G,
           \A s \in SUBSET S : (\A x \in s : s \ {x} \in G) => s \in G
    PROVE  \A s \in SUBSET S : s \in G
<1> DEFINE Bad == {n \in Nat : \E s \in SUBSET S : Cardinality(s) = n /\ s \notin G}
<1>1. \A s \in SUBSET S : Cardinality(s) \in Nat
  BY FS_Subset, FS_CardinalityType
<1>2. ASSUME Bad # {} PROVE FALSE
  <2>0. Bad \in SUBSET Nat
    OBVIOUS
  <2>1. PICK n \in Bad : \A k \in Bad : n <= k
    <3> HIDE DEF Bad
    <3> QED BY <1>2, <2>0, Least
  <2>2. PICK s \in SUBSET S : Cardinality(s) = n /\ s \notin G
    BY <2>1
  <2>3. PICK x \in s : s \ {x} \notin G
    BY <2>2
  <2>4. s \ {x} \in SUBSET S /\ Cardinality(s \ {x}) = n - 1 /\ n - 1 \in Nat
    BY <2>2, <1>1, SmallerSet
  <2>5. n - 1 \in Bad
    BY <2>3, <2>4
  <2> QED BY <2>0, <2>1, <2>5
<1> QED BY <1>1, <1>2

AtMost(S, n) == {s \in SUBSET S : Cardinality(s) <= n}

\* Sums over the sets of at most n elements exist, for every n.
LEMMA SumsExist ==
    ASSUME NEW f, IsFiniteSet(DOMAIN f)
    PROVE  \A n \in Nat : \E g : Sums(g, f, AtMost(DOMAIN f, n))
<1> DEFINE S == DOMAIN f
           Bad == {n \in Nat : ~ \E g : Sums(g, f, AtMost(S, n))}
<1> SUFFICES ASSUME Bad # {} PROVE FALSE
  OBVIOUS
<1>1. PICK n \in Bad : \A k \in Bad : n <= k
  BY Least
<1>2. \A s \in SUBSET S : Cardinality(s) \in Nat /\ (Cardinality(s) = 0 <=> s = {})
  BY FS_Subset, FS_CardinalityType, FS_EmptySet
<1>3. CASE n = 0
  <2> DEFINE g == [s \in AtMost(S, 0) |-> 0]
  <2>1. \A s \in AtMost(S, 0) : s = {}
    BY <1>2 DEF AtMost
  <2>2. Sums(g, f, AtMost(S, 0))
    BY <2>1 DEF Sums
  <2> QED BY <1>3, <2>2
<1>4. CASE n # 0
  <2>1. n - 1 \in Nat /\ n - 1 \notin Bad
    BY <1>1, <1>4
  <2>2. PICK g : Sums(g, f, AtMost(S, n - 1))
    BY <2>1
  <2> DEFINE h == [s \in AtMost(S, n) |-> IF s = {} THEN 0 ELSE f[One(s)] + g[s \ {One(s)}]]
  <2>3. \A s \in AtMost(S, n) : s # {} => s \ {One(s)} \in AtMost(S, n - 1) /\ s \ {One(s)} \in AtMost(S, n)
    <3> SUFFICES ASSUME NEW s \in AtMost(S, n), s # {}
                 PROVE  s \ {One(s)} \in AtMost(S, n - 1) /\ s \ {One(s)} \in AtMost(S, n)
      OBVIOUS
    <3>1. s \in SUBSET S /\ Cardinality(s) <= n /\ n \in Nat /\ One(s) \in s
      BY OneIn DEF AtMost
    <3> QED BY <3>1, SmallerSet DEF AtMost
  <2>4. \A s \in AtMost(S, n - 1) : s \in AtMost(S, n) /\ g[s] = h[s]
    <3> TAKE s \in AtMost(S, n - 1)
    <3>1. s \in AtMost(S, n)
      BY <1>2, <2>1 DEF AtMost
    <3>2. g[s] = IF s = {} THEN 0 ELSE f[One(s)] + g[s \ {One(s)}]
      BY <2>2 DEF Sums
    <3> QED BY <3>1, <3>2
  <2>5. \A s \in AtMost(S, n) : h[s] = IF s = {} THEN 0 ELSE f[One(s)] + h[s \ {One(s)}]
    BY <2>3, <2>4
  <2>6. h = [s \in AtMost(S, n) |-> IF s = {} THEN 0 ELSE f[One(s)] + h[s \ {One(s)}]]
    <3>1. h = [s \in AtMost(S, n) |-> h[s]]
      OBVIOUS
    <3> HIDE DEF h
    <3> QED BY <2>5, <3>1
  <2> HIDE DEF h
  <2>7. Sums(h, f, AtMost(S, n))
    BY <2>6 DEF Sums
  <2> QED BY <2>7
<1> QED BY <1>3, <1>4

\* g sums f over the subsets of S.
Adds(g, f, S) == Sums(g, f, SUBSET S)

\* The sum of a finite function is a recursion over the sets of its domain.
LEMMA SumDef ==
    ASSUME NEW f, IsFiniteSet(DOMAIN f)
    PROVE  \E g : SumFunction(f) = g[DOMAIN f] /\ Adds(g, f, DOMAIN f)
<1> DEFINE S == DOMAIN f
           g == CHOOSE g : Sums(g, f, SUBSET S)
<1>1. AtMost(S, Cardinality(S)) = SUBSET S
  <2>1. \A s \in SUBSET S : Cardinality(s) <= Cardinality(S)
    BY FS_Subset
  <2> QED BY <2>1 DEF AtMost
<1>2. Cardinality(S) \in Nat
  BY FS_CardinalityType
<1>3. \E h : Sums(h, f, SUBSET S)
  <2>1. \E h : Sums(h, f, AtMost(S, Cardinality(S)))
    BY <1>2, SumsExist
  <2> QED BY <1>1, <2>1
<1>4. Sums(g, f, SUBSET S)
  BY <1>3
<1>5. SumFunction(f) = g[DOMAIN f]
  BY SumIs
<1>6. Adds(g, f, DOMAIN f)
  BY <1>4 DEF Adds
<1> HIDE DEF g
<1> QED BY <1>5, <1>6

\* Whichever element is taken away first, a sum of integers is the same.
AnyFirst(g, f, S) ==
    /\ g[{}] = 0
    /\ \A s \in SUBSET S : g[s] \in Int /\ \A x \in s : g[s] = f[x] + g[s \ {x}]

LEMMA SumsPick ==
    ASSUME NEW S, IsFiniteSet(S), NEW f \in [S -> Int], NEW g, Adds(g, f, S)
    PROVE  AnyFirst(g, f, S)
<1>1. \A s \in SUBSET S : g[s] = IF s = {} THEN 0 ELSE f[One(s)] + g[s \ {One(s)}]
  BY Zenon DEF Adds, Sums
<1>2. g[{}] = 0
  BY <1>1
<1>3. \A s \in SUBSET S : g[s] \in Int
  <2> DEFINE G == {s \in SUBSET S : g[s] \in Int}
  <2>1. ASSUME NEW s \in SUBSET S, \A x \in s : s \ {x} \in G PROVE s \in G
    <3>1. CASE s = {}
      BY <1>2, <3>1
    <3>2. CASE s # {}
      <4>1. One(s) \in s /\ g[s] = f[One(s)] + g[s \ {One(s)}]
        BY <1>1, <3>2, OneIn
      <4>2. f[One(s)] \in Int /\ g[s \ {One(s)}] \in Int
        BY <2>1, <4>1
      <4> QED BY <4>1, <4>2
    <3> QED BY <3>1, <3>2
  <2>2. \A s \in SUBSET S : s \in G
    <3> HIDE DEF G
    <3> QED BY <2>1, SetClimb
  <2> QED BY <2>2
<1> DEFINE G == {s \in SUBSET S : \A x \in s : g[s] = f[x] + g[s \ {x}]}
<1>4. ASSUME NEW s \in SUBSET S, \A x \in s : s \ {x} \in G PROVE s \in G
  <2> SUFFICES ASSUME NEW x \in s PROVE g[s] = f[x] + g[s \ {x}]
    OBVIOUS
  <2>1. PICK c \in s : g[s] = f[c] + g[s \ {c}]
    BY <1>1, OneIn
  <2>2. CASE x = c
    BY <2>1, <2>2
  <2>3. CASE x # c
    <3>1. x \in s \ {c} /\ c \in s \ {x} /\ (s \ {c}) \ {x} = (s \ {x}) \ {c}
      BY <2>3
    <3>2. g[s \ {c}] = f[x] + g[(s \ {c}) \ {x}]
      BY <1>4, <3>1
    <3>3. g[s \ {x}] = f[c] + g[(s \ {c}) \ {x}]
      BY <1>4, <3>1
    <3>4. f[x] \in Int /\ f[c] \in Int /\ g[(s \ {c}) \ {x}] \in Int
      BY <1>3
    <3> QED BY <2>1, <3>2, <3>3, <3>4
  <2> QED BY <2>2, <2>3
<1>5. \A s \in SUBSET S : s \in G
  <2> HIDE DEF G
  <2> QED BY <1>4, SetClimb
<1> QED BY <1>2, <1>3, <1>5 DEF AnyFirst

\* Functions that add up the same numbers agree.
LEMMA SumsAgree ==
    ASSUME NEW S, IsFiniteSet(S), NEW f, NEW g, Adds(g, f, S),
           NEW s \in SUBSET S, NEW h, NEW e, Adds(h, e, s), \A x \in s : e[x] = f[x]
    PROVE  g[s] = h[s]
<1>1. \A t \in SUBSET S : g[t] = IF t = {} THEN 0 ELSE f[One(t)] + g[t \ {One(t)}]
  BY Zenon DEF Adds, Sums
<1>2. \A t \in SUBSET s : h[t] = IF t = {} THEN 0 ELSE e[One(t)] + h[t \ {One(t)}]
  BY Zenon DEF Adds, Sums
<1> DEFINE G == {t \in SUBSET s : g[t] = h[t]}
<1>3. ASSUME NEW t \in SUBSET s, \A x \in t : t \ {x} \in G PROVE t \in G
  <2>1. CASE t = {}
    BY <1>1, <1>2, <2>1
  <2>2. CASE t # {}
    <3>1. One(t) \in t
      BY <2>2, OneIn
    <3>2. g[t] = f[One(t)] + g[t \ {One(t)}] /\ h[t] = e[One(t)] + h[t \ {One(t)}]
      BY <1>1, <1>2, <2>2
    <3>3. g[t \ {One(t)}] = h[t \ {One(t)}] /\ e[One(t)] = f[One(t)]
      BY <1>3, <3>1
    <3> QED BY <3>2, <3>3
  <2> QED BY <2>1, <2>2
<1>4. IsFiniteSet(s)
  BY FS_Subset
<1>5. \A t \in SUBSET s : t \in G
  <2> HIDE DEF G
  <2> QED BY <1>3, <1>4, SetClimb
<1> QED BY <1>5

LEMMA SumPart ==
    ASSUME NEW S, IsFiniteSet(S), NEW f, NEW g, Adds(g, f, S),
           NEW s \in SUBSET S, NEW e, DOMAIN e = s, \A x \in s : e[x] = f[x]
    PROVE  SumFunction(e) = g[s]
<1>1. IsFiniteSet(s)
  BY FS_Subset
<1>2. PICK h : SumFunction(e) = h[s] /\ Adds(h, e, s)
  BY <1>1, SumDef
<1>3. Adds(h, e, s)
  BY <1>2
<1>4. g[s] = h[s]
  BY <1>3, SumsAgree
<1> QED BY <1>2, <1>4

\* A sum of integers is the sum over all but one element, and that one.
LEMMA SumWithout ==
    ASSUME NEW S, IsFiniteSet(S), NEW f \in [S -> Int]
    PROVE  /\ SumFunction(f) \in Int
           /\ S = {} => SumFunction(f) = 0
           /\ \A x \in S : SumFunction(f) = f[x] + SumFunction([y \in S \ {x} |-> f[y]])
<1>1. DOMAIN f = S /\ S \in SUBSET S
  OBVIOUS
<1>2. PICK g : SumFunction(f) = g[S] /\ Adds(g, f, S)
  BY <1>1, SumDef
<1>3. /\ g[{}] = 0
      /\ \A s \in SUBSET S : g[s] \in Int /\ \A x \in s : g[s] = f[x] + g[s \ {x}]
  <2>1. AnyFirst(g, f, S)
    BY <1>2, SumsPick
  <2> QED BY <2>1 DEF AnyFirst
<1>4. ASSUME NEW x \in S PROVE SumFunction([y \in S \ {x} |-> f[y]]) = g[S \ {x}]
  <2> DEFINE s == S \ {x}
             e == [y \in s |-> f[y]]
  <2>1. DOMAIN e = s /\ s \in SUBSET S /\ \A y \in s : e[y] = f[y]
    OBVIOUS
  <2> HIDE DEF e, s
  <2>2. SumFunction(e) = g[s]
    BY <1>2, <2>1, SumPart
  <2>3. e = [y \in S \ {x} |-> f[y]] /\ s = S \ {x}
    BY DEF e, s
  <2> QED BY <2>2, <2>3
<1> QED BY <1>1, <1>2, <1>3, <1>4

LEMMA IntervalFinite ==
    ASSUME NEW a \in Int, NEW b \in Int
    PROVE  IsFiniteSet(a .. b)
BY FS_Interval

\* The sum of the numbers from a to k, as k goes up.
Running(a, b, f) == [k \in a - 1 .. b |-> SumFunction([j \in a .. k |-> f[j]])]

LEMMA SumRuns ==
    ASSUME NEW a \in Int, NEW b \in Int, a <= b + 1, NEW f \in [a .. b -> Int]
    PROVE  /\ Running(a, b, f) \in [a - 1 .. b -> Int] /\ Running(a, b, f)[a - 1] = 0
           /\ \A k \in a .. b : Running(a, b, f)[k] = Running(a, b, f)[k - 1] + f[k]
           /\ Running(a, b, f)[b] = SumFunction(f)
           /\ \A k \in a - 1 .. b : Running(a, b, f)[k] = SumFunction([j \in a .. k |-> f[j]])
<1> DEFINE e(k) == [j \in a .. k |-> f[j]]
<1>1. ASSUME NEW k \in a - 1 .. b
      PROVE  IsFiniteSet(a .. k) /\ e(k) \in [a .. k -> Int] /\ \A j \in a .. k : e(k)[j] = f[j]
  <2>1. k \in Int /\ \A j \in a .. k : j \in a .. b
    OBVIOUS
  <2> QED BY <2>1, IntervalFinite
<1>2. \A k \in a - 1 .. b : Running(a, b, f)[k] = SumFunction(e(k))
  BY DEF Running
<1>3. \A k \in a - 1 .. b : SumFunction(e(k)) \in Int
  <2> TAKE k \in a - 1 .. b
  <2> HIDE DEF e
  <2> QED BY <1>1, SumWithout
<1>4. Running(a, b, f) \in [a - 1 .. b -> Int]
  BY <1>3 DEF Running
<1>5. SumFunction(e(a - 1)) = 0
  <2>1. a - 1 \in a - 1 .. b /\ a .. a - 1 = {}
    OBVIOUS
  <2> HIDE DEF e
  <2> QED BY <1>1, <2>1, SumWithout
<1>6. ASSUME NEW k \in a .. b PROVE SumFunction(e(k)) = SumFunction(e(k - 1)) + f[k]
  <2>1. k \in a .. k /\ k \in a - 1 .. b /\ (a .. k) \ {k} = a .. k - 1
    OBVIOUS
  <2>2. [j \in (a .. k) \ {k} |-> e(k)[j]] = e(k - 1)
    BY <2>1
  <2>3. k - 1 \in a - 1 .. b /\ f[k] \in Int /\ e(k)[k] = f[k]
    BY <2>1
  <2> HIDE DEF e
  <2>4. IsFiniteSet(a .. k) /\ e(k) \in [a .. k -> Int]
    BY <1>1, <2>1
  <2>5. \A x \in a .. k : SumFunction(e(k)) = e(k)[x] + SumFunction([j \in (a .. k) \ {x} |-> e(k)[j]])
    BY <2>4, SumWithout
  <2>6. SumFunction(e(k)) = e(k)[k] + SumFunction([j \in (a .. k) \ {k} |-> e(k)[j]])
    BY <2>1, <2>5
  <2>7. SumFunction(e(k)) = f[k] + SumFunction(e(k - 1))
    BY <2>2, <2>3, <2>6
  <2>8. SumFunction(e(k - 1)) \in Int
    BY <1>3, <2>3
  <2> QED BY <2>3, <2>7, <2>8
<1>7. e(b) = f /\ b \in a - 1 .. b /\ a - 1 \in a - 1 .. b /\ \A k \in a .. b : k \in a - 1 .. b /\ k - 1 \in a - 1 .. b
  OBVIOUS
<1> HIDE DEF e
<1> QED BY <1>2, <1>4, <1>5, <1>6, <1>7 DEF e

\* R adds up the numbers of f, from none of them to all.
RunsUp(a, b, f, R) ==
    /\ R \in [a - 1 .. b -> Int] /\ R[a - 1] = 0 /\ R[b] = SumFunction(f)
    /\ \A k \in a .. b : R[k] = R[k - 1] + f[k]

LEMMA SumRunsUp ==
    ASSUME NEW a \in Int, NEW b \in Int, a <= b + 1, NEW f \in [a .. b -> Int]
    PROVE  RunsUp(a, b, f, Running(a, b, f))
<1> DEFINE R == Running(a, b, f)
<1>1. /\ R \in [a - 1 .. b -> Int] /\ R[a - 1] = 0 /\ R[b] = SumFunction(f)
      /\ \A k \in a .. b : R[k] = R[k - 1] + f[k]
  BY SumRuns, ZenonT(30)
<1> HIDE DEF R
<1>2. RunsUp(a, b, f, R)
  BY <1>1 DEF RunsUp
<1> QED BY <1>2 DEF R

-----------------------------------------------------------------------------
(* The scheduler.                                                          *)

Steps == {"idle", "asking", "cycle", "report", "count", "release"}
Reporting == {"report", "count"}

\* The rows it stores and the results of its jobs may be anything.
Schedulers(rows, results) ==
    [up : BOOLEAN, marked : BOOLEAN, holders : SUBSET Jobs, rows : rows,
     pc : [Jobs -> Steps], result : [Jobs -> results],
     runs : [Jobs -> Nat], ok : [Jobs -> Nat], failed : [Jobs -> Nat], cut : [Jobs -> Nat],
     lost : [Jobs -> Nat]]

\* A job whose pipeline succeeded, and is not counted yet.
Winning(j) == sched.pc[j] \in Reporting /\ sched.result[j].status = "success"

\* What a mark may come from.
Backed(j) == sched.ok[j] > 0 \/ Cancelled(j) \/ Winning(j)

Owed(j) == IF Uncounted(j) THEN 1 ELSE 0
Settled(j) == sched.runs[j] = sched.ok[j] + sched.failed[j] + sched.cut[j] + Owed(j)

\* The lock is with jobs that asked for it and have not released it.
JobsInv ==
    /\ \E rows, results : sched \in Schedulers(rows, results)
    /\ \A j \in Jobs : Settled(j)
    /\ sched.marked => \E j \in Jobs \ {"position"} : Backed(j)
    /\ \A j \in sched.holders : sched.pc[j] \notin {"idle", "asking"}

\* The scheduler with new values of one job, and of what the jobs share.
With(j, marked, holders, rows, pc, result, runs, ok, failed, cut, lost) ==
    [up |-> sched.up, marked |-> marked, holders |-> holders, rows |-> rows,
     pc |-> [sched.pc EXCEPT ![j] = pc], result |-> [sched.result EXCEPT ![j] = result],
     runs |-> [sched.runs EXCEPT ![j] = runs], ok |-> [sched.ok EXCEPT ![j] = ok],
     failed |-> [sched.failed EXCEPT ![j] = failed], cut |-> [sched.cut EXCEPT ![j] = cut],
     lost |-> [sched.lost EXCEPT ![j] = lost]]

Others(j) ==
    \A k \in Jobs : k # j =>
        /\ sched'.pc[k] = sched.pc[k] /\ sched'.result[k] = sched.result[k]
        /\ sched'.runs[k] = sched.runs[k] /\ sched'.ok[k] = sched.ok[k]
        /\ sched'.failed[k] = sched.failed[k] /\ sched'.cut[k] = sched.cut[k]
        /\ sched'.lost[k] = sched.lost[k]

\* What a step of job j must see to.
LEMMA JobStep ==
    ASSUME JobsInv, NEW j \in Jobs, NEW rows, NEW results, sched' \in Schedulers(rows, results),
           Others(j), Settled(j)',
           Backed(j) => Backed(j)',
           sched'.marked => sched.marked \/ (j # "position" /\ Backed(j)'),
           sched'.holders \subseteq sched.holders \cup {j},
           j \in sched'.holders => sched'.pc[j] \notin {"idle", "asking"}
    PROVE  JobsInv'
<1>1. \A k \in Jobs : k # j => (Settled(k)' <=> Settled(k)) /\ (Backed(k)' <=> Backed(k))
  BY DEF Others, Settled, Owed, Uncounted, Backed, Cancelled, Winning
<1>2. \A k \in Jobs : Settled(k)'
  BY <1>1 DEF JobsInv
<1>3. ASSUME sched'.marked
      PROVE  \E k \in Jobs \ {"position"} : Backed(k)'
  <2>1. CASE j # "position" /\ Backed(j)'
    BY <2>1
  <2>2. CASE sched.marked
    <3>1. PICK k \in Jobs \ {"position"} : Backed(k)
      BY <2>2 DEF JobsInv
    <3>2. Backed(k)'
      BY <1>1, <3>1
    <3> QED BY <3>1, <3>2
  <2> QED BY <1>3, <2>1, <2>2
<1>4. \A k \in sched'.holders : sched'.pc[k] \notin {"idle", "asking"}
  <2> TAKE k \in sched'.holders
  <2>1. CASE k = j
    BY <2>1
  <2>2. CASE k # j
    <3>1. k \in sched.holders /\ k \in Jobs
      BY <2>2 DEF Schedulers
    <3> QED BY <2>2, <3>1 DEF JobsInv, Others
  <2> QED BY <2>1, <2>2
<1> QED BY <1>2, <1>3, <1>4 DEF JobsInv

\* What the invariant says of one job.
LEMMA JobFacts ==
    ASSUME JobsInv, NEW j \in Jobs
    PROVE  /\ sched.runs[j] \in Nat /\ sched.ok[j] \in Nat /\ sched.failed[j] \in Nat
           /\ sched.cut[j] \in Nat /\ sched.lost[j] \in Nat /\ sched.pc[j] \in Steps
           /\ sched.runs[j] = sched.ok[j] + sched.failed[j] + sched.cut[j] + Owed(j)
           /\ j \in sched.holders => sched.pc[j] \notin {"idle", "asking"}
<1>1. PICK rows, results : sched \in Schedulers(rows, results)
  BY DEF JobsInv
<1> QED BY <1>1 DEF JobsInv, Schedulers, Settled

LEMMA StartJobKeeps ==
    ASSUME JobsInv, NEW j \in Jobs, StartJob(j)
    PROVE  JobsInv'
<1>1. PICK rows, results : sched \in Schedulers(rows, results)
  BY DEF JobsInv
<1>2. /\ sched.pc[j] = "idle"
      /\ sched' = With(j, sched.marked, sched.holders, sched.rows, "asking",
                       sched.result[j], sched.runs[j] + 1, sched.ok[j], sched.failed[j],
                       sched.cut[j], sched.lost[j])
  BY <1>1 DEF StartJob, At, With, Schedulers
<1>3. /\ sched' \in Schedulers({sched.rows}, results \cup {sched.result[j]}) /\ Others(j)
      /\ sched'.marked = sched.marked /\ sched'.holders = sched.holders
      /\ sched'.pc[j] = "asking" /\ sched'.result[j] = sched.result[j]
      /\ sched'.runs[j] = sched.runs[j] + 1 /\ sched'.ok[j] = sched.ok[j]
      /\ sched'.failed[j] = sched.failed[j] /\ sched'.cut[j] = sched.cut[j]
      /\ sched'.lost[j] = sched.lost[j]
  BY <1>1, <1>2 DEF With, Schedulers, Others, Steps
<1>4. Settled(j)' /\ (j \in sched'.holders => sched'.pc[j] \notin {"idle", "asking"})
  BY <1>2, <1>3, JobFacts DEF Settled, Owed, Uncounted, Steps
<1>5. Backed(j) => Backed(j)'
  BY <1>2, <1>3, JobFacts DEF Backed, Cancelled, Winning, Reporting
<1> QED BY <1>3, <1>4, <1>5, JobStep

LEMMA AcquireLockKeeps ==
    ASSUME JobsInv, NEW j \in Jobs, AcquireLock(j)
    PROVE  JobsInv'
<1>1. PICK rows, results : sched \in Schedulers(rows, results)
  BY DEF JobsInv
<1>2. /\ sched.pc[j] = "asking"
      /\ sched' = With(j, sched.marked, sched.holders \cup {j}, sched.rows, "cycle",
                       sched.result[j], sched.runs[j], sched.ok[j], sched.failed[j],
                       sched.cut[j], sched.lost[j])
  BY <1>1 DEF AcquireLock, At, With, Schedulers
<1>3. /\ sched' \in Schedulers({sched.rows}, results \cup {sched.result[j]}) /\ Others(j)
      /\ sched'.marked = sched.marked /\ sched'.holders = sched.holders \cup {j}
      /\ sched'.pc[j] = "cycle" /\ sched'.result[j] = sched.result[j]
      /\ sched'.runs[j] = sched.runs[j] /\ sched'.ok[j] = sched.ok[j]
      /\ sched'.failed[j] = sched.failed[j] /\ sched'.cut[j] = sched.cut[j]
      /\ sched'.lost[j] = sched.lost[j]
  BY <1>1, <1>2 DEF With, Schedulers, Others, Steps
<1>4. Settled(j)' /\ (j \in sched'.holders => sched'.pc[j] \notin {"idle", "asking"})
  BY <1>2, <1>3, JobFacts DEF Settled, Owed, Uncounted, Steps
<1>5. Backed(j) => Backed(j)'
  BY <1>2, <1>3, JobFacts DEF Backed, Cancelled, Winning, Reporting
<1> QED BY <1>3, <1>4, <1>5, JobStep

LEMMA LockRefusedKeeps ==
    ASSUME JobsInv, NEW j \in Jobs, LockRefused(j)
    PROVE  JobsInv'
<1>1. PICK rows, results : sched \in Schedulers(rows, results)
  BY DEF JobsInv
<1>2. CASE j = "position"
  <2>1. /\ sched.pc[j] = "asking"
        /\ sched' = With(j, sched.marked, sched.holders, sched.rows, "release",
                         sched.result[j], sched.runs[j], sched.ok[j] + 1, sched.failed[j],
                         sched.cut[j], sched.lost[j])
    BY <1>1, <1>2 DEF LockRefused, At, With, Schedulers
  <2>2. /\ sched' \in Schedulers({sched.rows}, results \cup {sched.result[j]}) /\ Others(j)
        /\ sched'.marked = sched.marked /\ sched'.holders = sched.holders
        /\ sched'.pc[j] = "release" /\ sched'.result[j] = sched.result[j]
        /\ sched'.runs[j] = sched.runs[j] /\ sched'.ok[j] = sched.ok[j] + 1
        /\ sched'.failed[j] = sched.failed[j] /\ sched'.cut[j] = sched.cut[j]
        /\ sched'.lost[j] = sched.lost[j]
    BY <1>1, <2>1 DEF With, Schedulers, Others, Steps
  <2>3. Settled(j)' /\ (j \in sched'.holders => sched'.pc[j] \notin {"idle", "asking"})
    BY <2>1, <2>2, JobFacts DEF Settled, Owed, Uncounted, Steps
  <2>4. Backed(j) => Backed(j)'
    BY <2>1, <2>2, JobFacts DEF Backed, Cancelled, Winning, Reporting
  <2> QED BY <2>2, <2>3, <2>4, JobStep
<1>3. CASE j # "position"
  <2>1. /\ sched.pc[j] = "asking"
        /\ sched' = With(j, sched.marked, sched.holders, sched.rows, "release",
                         sched.result[j], sched.runs[j], sched.ok[j], sched.failed[j] + 1,
                         sched.cut[j], sched.lost[j])
    BY <1>1, <1>3 DEF LockRefused, At, With, Schedulers
  <2>2. /\ sched' \in Schedulers({sched.rows}, results \cup {sched.result[j]}) /\ Others(j)
        /\ sched'.marked = sched.marked /\ sched'.holders = sched.holders
        /\ sched'.pc[j] = "release" /\ sched'.result[j] = sched.result[j]
        /\ sched'.runs[j] = sched.runs[j] /\ sched'.ok[j] = sched.ok[j]
        /\ sched'.failed[j] = sched.failed[j] + 1 /\ sched'.cut[j] = sched.cut[j]
        /\ sched'.lost[j] = sched.lost[j]
    BY <1>1, <2>1 DEF With, Schedulers, Others, Steps
  <2>3. Settled(j)' /\ (j \in sched'.holders => sched'.pc[j] \notin {"idle", "asking"})
    BY <2>1, <2>2, JobFacts DEF Settled, Owed, Uncounted, Steps
  <2>4. Backed(j) => Backed(j)'
    BY <2>1, <2>2, JobFacts DEF Backed, Cancelled, Winning, Reporting
  <2> QED BY <2>2, <2>3, <2>4, JobStep
<1> QED BY <1>2, <1>3

\* The key that a cancelled cycle may have marked.
LEMMA MarkedYetIs ==
    ASSUME JobsInv, NEW j \in Jobs, NEW marked \in MarkedYet(j)
    PROVE  /\ marked \in BOOLEAN
           /\ marked => sched.marked \/ j # "position"
  BY DEF JobsInv, Schedulers, MarkedYet

LEMMA CycleLostKeeps ==
    ASSUME JobsInv, NEW j \in Jobs, CycleLost(j)
    PROVE  JobsInv'
<1>1. PICK rows, results : sched \in Schedulers(rows, results)
  BY DEF JobsInv
<1>0. PICK marked \in MarkedYet(j) :
        sched' = [sched EXCEPT !.pc[j] = "report", !.result[j] = NoResult, !.marked = marked,
                               !.lost[j] = @ + 1]
  BY DEF CycleLost
<1>2. /\ sched.pc[j] = "cycle"
      /\ sched' = With(j, marked, sched.holders, sched.rows, "report",
                       NoResult, sched.runs[j], sched.ok[j], sched.failed[j],
                       sched.cut[j], sched.lost[j] + 1)
  BY <1>0, <1>1 DEF CycleLost, At, With, Schedulers
<1>3. /\ sched' \in Schedulers({sched.rows}, results \cup {NoResult}) /\ Others(j)
      /\ sched'.marked = marked /\ sched'.holders = sched.holders
      /\ sched'.pc[j] = "report" /\ sched'.result[j] = NoResult
      /\ sched'.runs[j] = sched.runs[j] /\ sched'.ok[j] = sched.ok[j]
      /\ sched'.failed[j] = sched.failed[j] /\ sched'.cut[j] = sched.cut[j]
      /\ sched'.lost[j] = sched.lost[j] + 1
  BY <1>1, <1>2, MarkedYetIs DEF With, Schedulers, Others, Steps
<1>4. Settled(j)' /\ (j \in sched'.holders => sched'.pc[j] \notin {"idle", "asking"})
  BY <1>2, <1>3, JobFacts DEF Settled, Owed, Uncounted, Steps
<1>5. Backed(j)'
  BY <1>3, JobFacts DEF Backed, Cancelled
<1>6. sched'.marked => sched.marked \/ (j # "position" /\ Backed(j)')
  BY <1>3, <1>5, MarkedYetIs
<1> QED BY <1>3, <1>4, <1>5, <1>6, JobStep

LEMMA ReportUnstoredKeeps ==
    ASSUME JobsInv, NEW j \in Jobs, ReportUnstored(j)
    PROVE  JobsInv'
<1>1. PICK rows, results : sched \in Schedulers(rows, results)
  BY DEF JobsInv
<1>2. /\ sched.pc[j] = "report"
      /\ sched' = With(j, sched.marked, sched.holders, sched.rows, "count",
                       sched.result[j], sched.runs[j], sched.ok[j], sched.failed[j],
                       sched.cut[j], sched.lost[j])
  BY <1>1 DEF ReportUnstored, At, With, Schedulers
<1>3. /\ sched' \in Schedulers({sched.rows}, results \cup {sched.result[j]}) /\ Others(j)
      /\ sched'.marked = sched.marked /\ sched'.holders = sched.holders
      /\ sched'.pc[j] = "count" /\ sched'.result[j] = sched.result[j]
      /\ sched'.runs[j] = sched.runs[j] /\ sched'.ok[j] = sched.ok[j]
      /\ sched'.failed[j] = sched.failed[j] /\ sched'.cut[j] = sched.cut[j]
      /\ sched'.lost[j] = sched.lost[j]
  BY <1>1, <1>2 DEF With, Schedulers, Others, Steps
<1>4. Settled(j)' /\ (j \in sched'.holders => sched'.pc[j] \notin {"idle", "asking"})
  BY <1>2, <1>3, JobFacts DEF Settled, Owed, Uncounted, Steps
<1>5. Backed(j) => Backed(j)'
  BY <1>2, <1>3, JobFacts DEF Backed, Cancelled, Winning, Reporting
<1> QED BY <1>3, <1>4, <1>5, JobStep

LEMMA ReleaseLockKeeps ==
    ASSUME JobsInv, NEW j \in Jobs, ReleaseLock(j)
    PROVE  JobsInv'
<1>1. PICK rows, results : sched \in Schedulers(rows, results)
  BY DEF JobsInv
<1>2. /\ sched.pc[j] = "release"
      /\ sched' = With(j, sched.marked, sched.holders \ {j}, sched.rows, "idle",
                       sched.result[j], sched.runs[j], sched.ok[j], sched.failed[j],
                       sched.cut[j], sched.lost[j])
  BY <1>1 DEF ReleaseLock, At, With, Schedulers
<1>3. /\ sched' \in Schedulers({sched.rows}, results \cup {sched.result[j]}) /\ Others(j)
      /\ sched'.marked = sched.marked /\ sched'.holders = sched.holders \ {j}
      /\ sched'.pc[j] = "idle" /\ sched'.result[j] = sched.result[j]
      /\ sched'.runs[j] = sched.runs[j] /\ sched'.ok[j] = sched.ok[j]
      /\ sched'.failed[j] = sched.failed[j] /\ sched'.cut[j] = sched.cut[j]
      /\ sched'.lost[j] = sched.lost[j]
  BY <1>1, <1>2 DEF With, Schedulers, Others, Steps
<1>4. Settled(j)' /\ (j \in sched'.holders => sched'.pc[j] \notin {"idle", "asking"})
  BY <1>2, <1>3, JobFacts DEF Settled, Owed, Uncounted, Steps
<1>5. Backed(j) => Backed(j)'
  BY <1>2, <1>3, JobFacts DEF Backed, Cancelled, Winning, Reporting
<1> QED BY <1>3, <1>4, <1>5, JobStep

LEMMA CutJobKeeps ==
    ASSUME JobsInv, NEW j \in Jobs, CutJob(j)
    PROVE  JobsInv'
<1>1. PICK rows, results : sched \in Schedulers(rows, results)
  BY DEF JobsInv
<1>0. PICK marked \in MarkedYet(j) :
        sched' = [sched EXCEPT !.pc[j] = "release", !.result[j] = NoResult, !.marked = marked,
                               !.cut[j] = @ + 1]
  BY DEF CutJob
<1>2. /\ sched.pc[j] \in {"asking", "cycle", "report", "count"}
      /\ sched' = With(j, marked, sched.holders, sched.rows, "release",
                       NoResult, sched.runs[j], sched.ok[j], sched.failed[j],
                       sched.cut[j] + 1, sched.lost[j])
  <2>1. sched.pc[j] \in {"asking", "cycle", "report", "count"}
    BY <1>1 DEF CutJob, Schedulers, Steps
  <2>2. sched' = With(j, marked, sched.holders, sched.rows, "release",
                      NoResult, sched.runs[j], sched.ok[j], sched.failed[j],
                      sched.cut[j] + 1, sched.lost[j])
    BY <1>0, <1>1 DEF With, Schedulers
  <2> QED BY <2>1, <2>2
<1>3. /\ sched' \in Schedulers({sched.rows}, results \cup {NoResult}) /\ Others(j)
      /\ sched'.marked = marked /\ sched'.holders = sched.holders
      /\ sched'.pc[j] = "release" /\ sched'.result[j] = NoResult
      /\ sched'.runs[j] = sched.runs[j] /\ sched'.ok[j] = sched.ok[j]
      /\ sched'.failed[j] = sched.failed[j] /\ sched'.cut[j] = sched.cut[j] + 1
      /\ sched'.lost[j] = sched.lost[j]
  BY <1>1, <1>2, MarkedYetIs DEF With, Schedulers, Others, Steps
<1>4. Settled(j)' /\ (j \in sched'.holders => sched'.pc[j] \notin {"idle", "asking"})
  BY <1>2, <1>3, JobFacts DEF Settled, Owed, Uncounted, Steps
<1>5. Backed(j)'
  BY <1>3, JobFacts DEF Backed, Cancelled
<1>6. sched'.marked => sched.marked \/ (j # "position" /\ Backed(j)')
  BY <1>3, <1>5, MarkedYetIs
<1> QED BY <1>3, <1>4, <1>5, <1>6, JobStep

LEMMA CountKeeps ==
    ASSUME JobsInv, NEW j \in Jobs, Count(j)
    PROVE  JobsInv'
<1>1. PICK rows, results : sched \in Schedulers(rows, results)
  BY DEF JobsInv
<1> DEFINE n == IF Succeeded(sched.result[j]) THEN 1 ELSE 0
<1>2. /\ sched.pc[j] = "count"
      /\ sched' = With(j, sched.marked, sched.holders, sched.rows, "release",
                       NoResult, sched.runs[j], sched.ok[j] + n, sched.failed[j] + 1 - n,
                       sched.cut[j], sched.lost[j])
  BY <1>1 DEF Count, At, With, Schedulers
<1>h. n \in {0, 1} /\ (sched.result[j].status = "success" => n = 1)
  BY DEF Succeeded
<1> HIDE DEF n
<1>3. /\ sched' \in Schedulers({sched.rows}, results \cup {NoResult}) /\ Others(j)
      /\ sched'.marked = sched.marked /\ sched'.holders = sched.holders
      /\ sched'.pc[j] = "release" /\ sched'.result[j] = NoResult
      /\ sched'.runs[j] = sched.runs[j] /\ sched'.ok[j] = sched.ok[j] + n
      /\ sched'.failed[j] = sched.failed[j] + 1 - n /\ sched'.cut[j] = sched.cut[j]
      /\ sched'.lost[j] = sched.lost[j]
  BY <1>1, <1>2, <1>h DEF With, Schedulers, Others, Steps
<1>4. Settled(j)' /\ (j \in sched'.holders => sched'.pc[j] \notin {"idle", "asking"})
  BY <1>2, <1>3, JobFacts, <1>h DEF Settled, Owed, Uncounted, Steps
<1>5. Backed(j) => Backed(j)'
  BY <1>2, <1>3, JobFacts, <1>h DEF Backed, Cancelled, Winning, Reporting
<1> QED BY <1>3, <1>4, <1>5, JobStep

LEMMA ReportKeeps ==
    ASSUME JobsInv, NEW j \in Jobs, Report(j)
    PROVE  JobsInv'
<1>1. PICK rows, results : sched \in Schedulers(rows, results)
  BY DEF JobsInv
<1> DEFINE stored == IF Stores(j) THEN sched.rows \cup {DecisionRow(sched.result[j])} ELSE sched.rows
<1>2. /\ sched.pc[j] = "report"
      /\ sched' = With(j, sched.marked, sched.holders, stored, "count",
                       sched.result[j], sched.runs[j], sched.ok[j], sched.failed[j],
                       sched.cut[j], sched.lost[j])
  BY <1>1 DEF Report, At, With, Schedulers
<1> HIDE DEF stored
<1>3. /\ sched' \in Schedulers({stored}, results \cup {sched.result[j]}) /\ Others(j)
      /\ sched'.marked = sched.marked /\ sched'.holders = sched.holders
      /\ sched'.pc[j] = "count" /\ sched'.result[j] = sched.result[j]
      /\ sched'.runs[j] = sched.runs[j] /\ sched'.ok[j] = sched.ok[j]
      /\ sched'.failed[j] = sched.failed[j] /\ sched'.cut[j] = sched.cut[j]
      /\ sched'.lost[j] = sched.lost[j]
  BY <1>1, <1>2 DEF With, Schedulers, Others, Steps
<1>4. Settled(j)' /\ (j \in sched'.holders => sched'.pc[j] \notin {"idle", "asking"})
  BY <1>2, <1>3, JobFacts DEF Settled, Owed, Uncounted, Steps
<1>5. Backed(j) => Backed(j)'
  BY <1>2, <1>3, JobFacts DEF Backed, Cancelled, Winning, Reporting
<1> QED BY <1>3, <1>4, <1>5, JobStep

LEMMA RunCycleKeeps ==
    ASSUME JobsInv, NEW j \in Jobs, RunCycle(j)
    PROVE  JobsInv'
<1>1. PICK rows, results : sched \in Schedulers(rows, results)
  BY DEF JobsInv
<1>2. PICK e \in Executions, reply \in Replies :
         sched' = [sched EXCEPT !.pc[j] = "report",
                     !.result[j] = IF j = "position" THEN ManagePositions(e) ELSE TradingCycleResult(e, reply),
                     !.marked = @ \/ (j # "position" /\
                        MarksKey(e, IF j = "position" THEN ManagePositions(e) ELSE TradingCycleResult(e, reply)))]
  BY DEF RunCycle
<1> DEFINE result == IF j = "position" THEN ManagePositions(e) ELSE TradingCycleResult(e, reply)
           marked == sched.marked \/ (j # "position" /\ MarksKey(e, result))
<1>3. marked => sched.marked \/ (j # "position" /\ result.status = "success")
  BY DEF MarksKey
<1>4. marked \in BOOLEAN
  BY <1>1 DEF Schedulers
<1>5. sched' = [sched EXCEPT !.pc[j] = "report", !.result[j] = result, !.marked = marked] /\ sched.pc[j] = "cycle"
  BY <1>2 DEF RunCycle, At
<1> HIDE DEF result, marked
<1>6. /\ sched.pc[j] = "cycle"
      /\ sched' = With(j, marked, sched.holders, sched.rows, "report",
                       result, sched.runs[j], sched.ok[j], sched.failed[j],
                       sched.cut[j], sched.lost[j])
  BY <1>1, <1>5 DEF With, Schedulers
<1>7. /\ sched' \in Schedulers({sched.rows}, results \cup {result}) /\ Others(j)
      /\ sched'.marked = marked /\ sched'.holders = sched.holders
      /\ sched'.pc[j] = "report" /\ sched'.result[j] = result
      /\ sched'.runs[j] = sched.runs[j] /\ sched'.ok[j] = sched.ok[j]
      /\ sched'.failed[j] = sched.failed[j] /\ sched'.cut[j] = sched.cut[j]
      /\ sched'.lost[j] = sched.lost[j]
  BY <1>1, <1>4, <1>6 DEF With, Schedulers, Others, Steps
<1>8. Settled(j)' /\ (j \in sched'.holders => sched'.pc[j] \notin {"idle", "asking"})
  BY <1>6, <1>7, JobFacts DEF Settled, Owed, Uncounted, Steps
<1>9. Backed(j) => Backed(j)'
  BY <1>6, <1>7, JobFacts DEF Backed, Cancelled, Winning, Reporting
<1>10. sched'.marked => sched.marked \/ (j # "position" /\ Backed(j)')
  BY <1>3, <1>7 DEF Backed, Cancelled, Winning, Reporting
<1> QED BY <1>7, <1>8, <1>9, <1>10, JobStep

LEMMA TerminateKeeps ==
    ASSUME JobsInv, Terminate
    PROVE  JobsInv'
<1>1. PICK rows, results : sched \in Schedulers(rows, results)
  BY DEF JobsInv
<1>2. sched' = [sched EXCEPT !.up = FALSE]
  BY DEF Terminate
<1>3. /\ sched' \in Schedulers(rows, results) /\ sched'.marked = sched.marked
      /\ sched'.holders = sched.holders /\ sched'.pc = sched.pc /\ sched'.result = sched.result
      /\ sched'.runs = sched.runs /\ sched'.ok = sched.ok /\ sched'.failed = sched.failed
      /\ sched'.cut = sched.cut /\ sched'.lost = sched.lost
  BY <1>1, <1>2 DEF Schedulers
<1> QED BY <1>3, SMTT(60) DEF JobsInv, Settled, Owed, Uncounted, Backed, Cancelled, Winning

\* No other program touches the scheduler.
LEMMA JobsInvStep ==
    ASSUME JobsInv, [Next]_vars
    PROVE  JobsInv'
<1>1. CASE sched' = sched
  BY <1>1 DEF JobsInv, Settled, Owed, Uncounted, Backed, Cancelled, Winning
<1>2. CASE SchedulerStep
  BY <1>2, StartJobKeeps, AcquireLockKeeps, LockRefusedKeeps, RunCycleKeeps, CycleLostKeeps,
     ReportKeeps, ReportUnstoredKeeps, CountKeeps, ReleaseLockKeeps, CutJobKeeps, TerminateKeeps
     DEF SchedulerStep
<1>3. CASE Message \/ BotStep
  <2>1. Bot
    BY <1>3, Zenon DEF Message, BotStep, TakeUpdate, Greet, CmdRun, Answer, CmdRaises, Apologise, Finally
  <2> QED BY <1>1, <2>1 DEF Bot
<1>4. CASE RunnerStep
  <2>1. Runner
    BY <1>4 DEF RunnerStep, GetPosition, AnalyzeMarket, PlaceOrder, OrderRejected, OwnerTrades
  <2> QED BY <1>1, <2>1, SMTT(30) DEF Runner
<1>5. CASE CallStep
  <2>1. Call
    BY <1>5 DEF CallStep, RenderPrompt, AskAi, RecordDecision, RecordFails
  <2> QED BY <1>1, <2>1 DEF Call
<1>6. CASE ApiStep
  <2>1. Api
    BY <1>6 DEF ApiStep, ControlBot, UpdateConfig, CheckTrade, InsertTrade
  <2> QED BY <1>1, <2>1 DEF Api
<1>7. CASE UNCHANGED vars
  BY <1>1, <1>7 DEF vars
<1> QED BY <1>2, <1>3, <1>4, <1>5, <1>6, <1>7 DEF Next

LEMMA JobsInvInit ==
    ASSUME Init
    PROVE  JobsInv
<1>1. sched = SchedulerInit
  BY DEF Init
<1>2. sched \in Schedulers({{}}, {NoResult})
  BY <1>1 DEF SchedulerInit, Schedulers, Steps
<1> QED BY <1>1, <1>2 DEF JobsInv, SchedulerInit, Settled, Owed, Uncounted

\* Every run of a job is counted once, unless the shutdown cut it; a candle is marked only
\* by a run that is or will be counted as a success, or was cancelled; nothing is left locked.
\* (trading_job, position_management_job.)
THEOREM JobsAccountedHolds == Spec => []JobsAccounted
<1>1. JobsInv => JobsAccounted
  <2> SUFFICES ASSUME JobsInv PROVE JobsAccounted
    OBVIOUS
  <2>1. PICK rows, results : sched \in Schedulers(rows, results)
    BY DEF JobsInv
  <2>2. (\A j \in Jobs : sched.pc[j] = "idle") => sched.holders = {}
    <3>1. sched.holders \subseteq Jobs
      BY <2>1 DEF Schedulers
    <3> QED BY <3>1 DEF JobsInv
  <2> QED BY <2>2 DEF JobsInv, JobsAccounted, Settled, Owed, Backed, Winning, Reporting
<1> QED BY <1>1, JobsInvInit, JobsInvStep, PTL DEF Spec

-----------------------------------------------------------------------------
(* The trading runner.                                                     *)

Runners(orders, replies) ==
    [pc : {"idle", "analyse", "order"}, runs : Nat, dry : BOOLEAN, volume : Nat, seen : Nat,
     touched : BOOLEAN, decision : {"buy", "sell", "hold"}, reply : replies, orders : orders,
     status : {"none", "dry_run", "completed", "executed", "failed"}]

Wanted == IF runner.seen = 0 THEN "buy" ELSE "sell"

\* An order is what the reply says and what the reading of the position asked for, and that
\* reading is still right unless something touched the position.
RunnerInv ==
    /\ \E orders, replies : runner \in Runners(orders, replies)
    /\ runner.pc \in {"analyse", "order"} => runner.touched \/ runner.seen = runner.volume
    /\ runner.pc = "order" => runner.decision = Wanted /\ Says(runner.reply, runner.decision)
    /\ RunnerOrdersJustified

LEMMA KeywordBuy ==
    ASSUME NEW words, Keywords(words).decision = "buy"
    PROVE  "buy" \in words
BY Zenon DEF Keywords

LEMMA KeywordSell ==
    ASSUME NEW words, Keywords(words).decision = "sell"
    PROVE  "sell" \in words
BY Zenon DEF Keywords

\* Only a reply that says so makes a purchase or a sale.
LEMMA Answered ==
    ASSUME NEW reply \in Replies, AiDecision(reply).decision \in {"buy", "sell"}
    PROVE  Says(reply, AiDecision(reply).decision)
<1>1. reply.form \in {"json", "text", "error"}
  BY ServicesAssumption
<1>2. reply.form # "error" /\ ~Malformed(reply)
  BY DEF AiDecision, Hold
<1>3. CASE reply.form = "text"
  <2>1. AiDecision(reply) = Keywords(reply.words)
    BY <1>2, <1>3 DEF AiDecision, ParseDecision
  <2>2. AiDecision(reply).decision \in reply.words
    BY <2>1, KeywordBuy, KeywordSell
  <2> QED BY <1>3, <2>2 DEF Says
<1>4. CASE reply.form = "json"
  <2>1. AiDecision(reply).decision = IF reply.decision \in {"buy", "sell"} THEN reply.decision ELSE "hold"
    BY <1>2, <1>4 DEF AiDecision, ParseDecision
  <2> QED BY <1>4, <2>1 DEF Says
<1> QED BY <1>1, <1>2, <1>3, <1>4

LEMMA DecisionType ==
    ASSUME NEW data \in {"list", "none"}, NEW reply
    PROVE  Analyze(data, reply).decision \in {"buy", "sell", "hold"}
BY DEF Analyze, AiDecision, ParseDecision, Keywords, Hold

LEMMA RunnerInvStep ==
    ASSUME RunnerInv, [Next]_vars
    PROVE  RunnerInv'
<1>0. PICK orders, replies : runner \in Runners(orders, replies)
  BY DEF RunnerInv
<1>1. CASE runner' = runner
  BY <1>1 DEF RunnerInv, Wanted, RunnerOrdersJustified
<1>2. ASSUME NEW failing \in BOOLEAN, GetPosition(failing)
      PROVE  RunnerInv'
  <2> DEFINE seen == IF failing THEN 0 ELSE runner.volume
             runs == runner.runs + 1
  <2>1. runner' = [runner EXCEPT !.pc = "analyse", !.runs = runs, !.touched = failing, !.seen = seen]
    BY <1>2 DEF GetPosition
  <2>3. seen \in Nat /\ runs \in Nat /\ (failing \/ seen = runner.volume)
    BY <1>0 DEF Runners
  <2> HIDE DEF seen, runs
  <2>2. /\ runner' \in Runners(orders, replies) /\ runner'.pc = "analyse" /\ runner'.touched = failing
        /\ runner'.seen = seen /\ runner'.volume = runner.volume /\ runner'.orders = runner.orders
    BY <1>0, <2>1, <2>3 DEF Runners
  <2> QED BY <2>2, <2>3 DEF RunnerInv, RunnerOrdersJustified
<1>3. ASSUME AnalyzeMarket
      PROVE  RunnerInv'
  <2>1. PICK reply \in Replies, data \in {"list", "none"} :
           runner' = [runner EXCEPT !.decision = Analyze(data, reply).decision,
                         !.reply = IF Asks(data) THEN reply ELSE NoReply,
                         !.status = IF Analyze(data, reply).decision = Wanted /\ runner.dry THEN "dry_run" ELSE "completed",
                         !.pc = IF Analyze(data, reply).decision = Wanted /\ ~runner.dry THEN "order" ELSE "idle"]
    BY <1>3, ZenonT(40) DEF AnalyzeMarket, Wanted
  <2> DEFINE decision == Analyze(data, reply).decision
             said == IF Asks(data) THEN reply ELSE NoReply
  <2>2. decision \in {"buy", "sell", "hold"}
    BY DecisionType
  <2>3. decision = Wanted => Says(said, decision)
    <3>1. CASE Asks(data)
      <4>1. decision = AiDecision(reply).decision /\ said = reply
        BY <3>1 DEF Analyze
      <4> QED BY <4>1, Answered DEF Wanted
    <3>2. CASE ~Asks(data)
      BY <3>2 DEF Analyze, Hold, Wanted
    <3> QED BY <3>1, <3>2
  <2> HIDE DEF decision, said
  <2>4. runner' = [runner EXCEPT !.decision = decision, !.reply = said,
                       !.status = IF decision = Wanted /\ runner.dry THEN "dry_run" ELSE "completed",
                       !.pc = IF decision = Wanted /\ ~runner.dry THEN "order" ELSE "idle"]
    BY <2>1 DEF decision, said
  <2>5. /\ runner' \in Runners(orders, replies \cup {said}) /\ runner'.decision = decision
        /\ runner'.reply = said /\ runner'.seen = runner.seen /\ runner'.volume = runner.volume
        /\ runner'.touched = runner.touched /\ runner'.orders = runner.orders
        /\ runner'.pc = IF decision = Wanted /\ ~runner.dry THEN "order" ELSE "idle"
    BY <1>0, <2>2, <2>4 DEF Runners
  <2>6. runner.pc = "analyse" /\ Wanted' = Wanted
    BY <1>3, <2>5 DEF AnalyzeMarket, Wanted
  <2> QED BY <2>3, <2>5, <2>6 DEF RunnerInv, RunnerOrdersJustified
<1>4. ASSUME PlaceOrder
      PROVE  RunnerInv'
  <2>1. PICK answered \in BOOLEAN :
           runner' = [runner EXCEPT !.pc = "idle", !.orders = @ \cup {Order},
                         !.volume = IF runner.decision = "buy" THEN @ + 1 ELSE @ - runner.seen,
                         !.status = IF answered THEN "executed" ELSE "failed"]
    BY <1>4 DEF PlaceOrder
  <2>2. runner.pc = "order" /\ (runner.decision # "buy" => runner.seen <= runner.volume)
    BY <1>4 DEF PlaceOrder
  <2> DEFINE all == runner.orders \cup {Order}
             volume == IF runner.decision = "buy" THEN runner.volume + 1 ELSE runner.volume - runner.seen
  <2>3. volume \in Nat
    BY <1>0, <2>2 DEF Runners
  <2>4. runner' = [runner EXCEPT !.pc = "idle", !.orders = all, !.volume = volume,
                                 !.status = IF answered THEN "executed" ELSE "failed"]
    BY <1>0, <2>1 DEF Runners
  <2> HIDE DEF all, volume
  <2>5. runner' \in Runners({all}, replies) /\ runner'.pc = "idle" /\ runner'.orders = all
    BY <1>0, <2>3, <2>4 DEF Runners
  <2>6. Says(Order.reply, Order.side) /\ (Order.side = "buy" /\ Order.over => Order.touched)
    <3>1. /\ runner.decision = Wanted /\ Says(runner.reply, runner.decision)
          /\ runner.touched \/ runner.seen = runner.volume
      BY <2>2 DEF RunnerInv
    <3>2. Order.side = runner.decision /\ Order.reply = runner.reply
          /\ (Order.over <=> runner.volume > 0) /\ (Order.touched <=> runner.touched)
      BY DEF Order
    <3>3. runner.decision = "buy" => runner.seen = 0
      BY <3>1 DEF Wanted
    <3>4. runner.volume \in Nat
      BY <1>0 DEF Runners
    <3> QED BY <3>1, <3>2, <3>3, <3>4
  <2>7. \A o \in all : Says(o.reply, o.side) /\ (o.side = "buy" /\ o.over => o.touched)
    BY <2>6 DEF RunnerInv, RunnerOrdersJustified, all
  <2> QED BY <2>5, <2>7 DEF RunnerInv, RunnerOrdersJustified
<1>5. ASSUME OrderRejected
      PROVE  RunnerInv'
  <2>1. runner' = [runner EXCEPT !.pc = "idle", !.status = "failed"]
    BY <1>5 DEF OrderRejected
  <2>2. runner' \in Runners(orders, replies) /\ runner'.pc = "idle" /\ runner'.orders = runner.orders
    BY <1>0, <2>1 DEF Runners
  <2> QED BY <2>2 DEF RunnerInv, RunnerOrdersJustified
<1>6. ASSUME OwnerTrades
      PROVE  RunnerInv'
  <2>1. PICK v \in 0 .. MaxVolume : runner' = [runner EXCEPT !.volume = v, !.touched = TRUE]
    BY <1>6 DEF OwnerTrades
  <2>2. v \in Nat
    BY <2>1, ServicesAssumption
  <2>3. /\ runner' \in Runners(orders, replies) /\ runner'.touched /\ runner'.seen = runner.seen
        /\ runner'.pc = runner.pc /\ runner'.decision = runner.decision
        /\ runner'.reply = runner.reply /\ runner'.orders = runner.orders
    BY <1>0, <2>1, <2>2 DEF Runners
  <2> QED BY <2>3 DEF RunnerInv, RunnerOrdersJustified, Wanted
<1>7. CASE RunnerStep
  BY <1>2, <1>3, <1>4, <1>5, <1>6, <1>7 DEF RunnerStep
<1>8. CASE SchedulerStep
  <2>1. Scheduler
    BY <1>8, Zenon DEF SchedulerStep, StartJob, AcquireLock, LockRefused, RunCycle, CycleLost, Report,
                ReportUnstored, Count, ReleaseLock, CutJob, Terminate
  <2> QED BY <1>1, <2>1 DEF Scheduler
<1>9. CASE Message \/ BotStep
  <2>1. Bot
    BY <1>9, Zenon DEF Message, BotStep, TakeUpdate, Greet, CmdRun, Answer, CmdRaises, Apologise, Finally
  <2> QED BY <1>1, <2>1 DEF Bot
<1>10. CASE CallStep
  <2>1. Call
    BY <1>10 DEF CallStep, RenderPrompt, AskAi, RecordDecision, RecordFails
  <2> QED BY <1>1, <2>1 DEF Call
<1>11. CASE ApiStep
  <2>1. Api
    BY <1>11 DEF ApiStep, ControlBot, UpdateConfig, CheckTrade, InsertTrade
  <2> QED BY <1>1, <2>1 DEF Api
<1>12. CASE UNCHANGED vars
  BY <1>1, <1>12 DEF vars
<1> QED BY <1>7, <1>8, <1>9, <1>10, <1>11, <1>12 DEF Next

LEMMA RunnerInvInit ==
    ASSUME Init
    PROVE  RunnerInv
<1>1. [pc |-> "idle", runs |-> 0, dry |-> TRUE, volume |-> 0, seen |-> 0, touched |-> FALSE,
       decision |-> "hold", reply |-> NoReply, orders |-> {}, status |-> "none"] \in RunnerInit
  BY DEF RunnerInit
<1>2. runner \in RunnerInit
  BY <1>1 DEF Init
<1>3. runner \in Runners({{}}, {NoReply}) /\ runner.pc = "idle" /\ runner.orders = {}
  <2>1. runner.pc = "idle" /\ runner.orders = {}
    BY <1>2 DEF RunnerInit
  <2>2. 0 .. 1 \subseteq Nat
    OBVIOUS
  <2>3. ASSUME NEW r \in RunnerInit
        PROVE  r \in Runners({{}}, {NoReply})
    <3>1. r = [pc |-> r.pc, runs |-> r.runs, dry |-> r.dry, volume |-> r.volume, seen |-> r.seen,
               touched |-> r.touched, decision |-> r.decision, reply |-> r.reply,
               orders |-> r.orders, status |-> r.status]
      BY DEF RunnerInit
    <3>2. /\ r.pc = "idle" /\ r.runs = 0 /\ r.seen = 0 /\ r.decision = "hold"
          /\ r.reply = NoReply /\ r.orders = {} /\ r.status = "none"
      BY DEF RunnerInit
    <3>3. r.volume \in Nat /\ r.dry \in BOOLEAN /\ r.touched \in BOOLEAN
      BY <2>2 DEF RunnerInit
    <3> QED BY <3>1, <3>2, <3>3 DEF Runners
  <2> QED BY <1>2, <2>1, <2>3
<1> QED BY <1>3 DEF RunnerInv, RunnerOrdersJustified

\* The runner orders only what the reply of the AI says, and buys over a position only when
\* its reading of the position failed or the owner traded meanwhile.  (execute_trading_cycle.)
THEOREM RunnerOrdersJustifiedHolds == Spec => []RunnerOrdersJustified
<1>1. RunnerInv => RunnerOrdersJustified
  BY DEF RunnerInv
<1> QED BY <1>1, RunnerInvInit, RunnerInvStep, PTL DEF Spec

-----------------------------------------------------------------------------
(* The breakout analysis.                                                  *)

Calls(decisions) ==
    [pc : {"prompt", "ask", "record", "record_fallback", "answered", "raised"},
     wired : {"container", "ports"}, rsi : RsiReadings, decision : decisions,
     rows : Seq(decisions), kept : Nat]

Permitted(decision) == decision.decision = "allow" => ~Over(call.rsi, Overbought)

\* The rows are those of failed refreshes, and at the end that of the answer; what is decided
\* and what is on record respects the RSI of the request.
CallInv ==
    /\ \E decisions : call \in Calls(decisions)
    /\ IF call.pc = "answered"
       THEN Len(call.rows) = call.kept + 1 /\ call.rows[Len(call.rows)] = call.decision
       ELSE Len(call.rows) = call.kept
    /\ Permitted(call.decision)
    /\ \A i \in DOMAIN call.rows : Permitted(call.rows[i])

LEMMA FallbackPermitted == Permitted(Fallback)
BY DEF Permitted, Fallback

LEMMA DecisionPermitted ==
    ASSUME NEW r
    PROVE  Permitted(BreakoutDecision(r, call.rsi))
<1>1. CASE Raises(r)
  BY <1>1, FallbackPermitted DEF BreakoutDecision
<1>2. CASE ~Raises(r) /\ ValidResponse(r) /\ ValidDecision(FromAiResponse(r), call.rsi)
  BY <1>2 DEF BreakoutDecision, Permitted, ValidDecision
<1>3. CASE ~Raises(r) /\ ~ValidResponse(r)
  BY <1>3 DEF BreakoutDecision, Permitted
<1>4. CASE ~Raises(r) /\ ValidResponse(r) /\ ~ValidDecision(FromAiResponse(r), call.rsi)
  BY <1>4 DEF BreakoutDecision, Permitted, ApplyOverride
<1> QED BY <1>1, <1>2, <1>3, <1>4

\* A row more keeps the others, and is the last.
LEMMA Appended ==
    ASSUME NEW S, NEW rows \in Seq(S), NEW row \in S
    PROVE  /\ Append(rows, row) \in Seq(S)
           /\ Len(Append(rows, row)) = Len(rows) + 1
           /\ Append(rows, row)[Len(rows) + 1] = row
           /\ \A i \in DOMAIN Append(rows, row) :
                 \/ i \in DOMAIN rows /\ Append(rows, row)[i] = rows[i]
                 \/ Append(rows, row)[i] = row
OBVIOUS

\* What a step of the analysis must see to.
LEMMA CallChange ==
    ASSUME CallInv, NEW decisions, call' \in Calls(decisions), call'.rsi = call.rsi,
           Permitted(call'.decision),
           \/ call'.rows = call.rows /\ call'.kept = call.kept /\ call'.pc # "answered"
           \/ /\ call'.rows = Append(call.rows, call.decision)
              /\ call'.pc = "answered" /\ call'.decision = call.decision /\ call'.kept = call.kept
           \/ /\ call'.rows = Append(call.rows, call.decision)
              /\ call'.pc # "answered" /\ call'.kept = call.kept + 1,
           call.pc # "answered"
    PROVE  CallInv'
<1>1. PICK before : call \in Calls(before)
  BY DEF CallInv
<1>2. call.rows \in Seq(before) /\ call.decision \in before /\ call.kept \in Nat
  BY <1>1 DEF Calls
<1>3. /\ Len(Append(call.rows, call.decision)) = Len(call.rows) + 1
      /\ Append(call.rows, call.decision)[Len(call.rows) + 1] = call.decision
      /\ \A i \in DOMAIN Append(call.rows, call.decision) :
            \/ i \in DOMAIN call.rows /\ Append(call.rows, call.decision)[i] = call.rows[i]
            \/ Append(call.rows, call.decision)[i] = call.decision
  BY <1>2, Appended
<1>4. Len(call.rows) = call.kept
  BY DEF CallInv
<1>6. \A i \in DOMAIN call'.rows : call'.rows[i].decision = "allow" => ~Over(call.rsi, Overbought)
  BY <1>3 DEF CallInv, Permitted
<1>7. \A i \in DOMAIN call'.rows : call'.rows[i].decision = "allow" => ~Over(call'.rsi, Overbought)
  BY <1>6
<1> QED BY <1>3, <1>4, <1>7 DEF CallInv, Permitted

LEMMA CallInvStep ==
    ASSUME CallInv, [Next]_vars
    PROVE  CallInv'
<1>0. PICK decisions : call \in Calls(decisions)
  BY DEF CallInv
<1>1. CASE call' = call
  BY <1>1 DEF CallInv, Permitted, Over, Above
<1>2. ASSUME NEW failing \in BOOLEAN, RenderPrompt(failing)
      PROVE  CallInv'
  <2> DEFINE pc == IF failing THEN "raised" ELSE "ask"
  <2>1. call' = [call EXCEPT !.pc = pc] /\ call.pc = "prompt"
    BY <1>2 DEF RenderPrompt
  <2>2. pc \in {"raised", "ask"}
    OBVIOUS
  <2> HIDE DEF pc
  <2>3. /\ call' \in Calls(decisions) /\ call'.pc = pc /\ call'.rsi = call.rsi
        /\ call'.decision = call.decision /\ call'.rows = call.rows /\ call'.kept = call.kept
    BY <1>0, <2>1, <2>2 DEF Calls
  <2>4. Permitted(call'.decision)
    BY <2>3 DEF CallInv
  <2> QED BY <2>1, <2>2, <2>3, <2>4, CallChange
<1>3. ASSUME AskAi
      PROVE  CallInv'
  <2>1. PICK r \in Responses, raises \in BOOLEAN :
           call' = [call EXCEPT !.decision = IF raises THEN Fallback ELSE BreakoutDecision(r, call.rsi),
                                !.pc = IF raises THEN "record_fallback" ELSE "record"]
    BY <1>3 DEF AskAi
  <2> DEFINE decision == IF raises THEN Fallback ELSE BreakoutDecision(r, call.rsi)
             pc == IF raises THEN "record_fallback" ELSE "record"
             all == decisions \cup {decision}
  <2>2. Permitted(decision)
    BY DecisionPermitted, FallbackPermitted
  <2>3. pc \in {"record_fallback", "record"}
    OBVIOUS
  <2>4. call \in Calls(all) /\ decision \in all
    BY <1>0 DEF Calls
  <2>5. call' = [call EXCEPT !.decision = decision, !.pc = pc]
    BY <2>1
  <2> HIDE DEF decision, pc, all
  <2>6. /\ call' \in Calls(all) /\ call'.pc = pc /\ call'.rsi = call.rsi
        /\ call'.decision = decision /\ call'.rows = call.rows /\ call'.kept = call.kept
    BY <2>3, <2>4, <2>5 DEF Calls
  <2>7. call.pc = "ask"
    BY <1>3 DEF AskAi
  <2> QED BY <2>2, <2>3, <2>6, <2>7, CallChange
<1>4. ASSUME RecordDecision, call.wired # "container"
      PROVE  CallInv'
  <2>1. call' = [call EXCEPT !.rows = Append(@, call.decision), !.pc = "answered"]
    BY <1>0, <1>4 DEF RecordDecision, Recorded, Calls
  <2>2. Append(call.rows, call.decision) \in Seq(decisions)
    BY <1>0, Appended DEF Calls
  <2>3. /\ call' \in Calls(decisions) /\ call'.pc = "answered" /\ call'.rsi = call.rsi
        /\ call'.decision = call.decision /\ call'.rows = Append(call.rows, call.decision)
        /\ call'.kept = call.kept
    BY <1>0, <2>1, <2>2 DEF Calls
  <2>4. call.pc # "answered" /\ Permitted(call'.decision)
    BY <1>4, <2>3 DEF RecordDecision, Recording, CallInv
  <2> QED BY <2>3, <2>4, CallChange
<1>5. ASSUME call' = RecordRaises(call), Recording
      PROVE  CallInv'
  <2> DEFINE pc == IF call.pc = "record" THEN "record_fallback" ELSE "raised"
             decision == IF call.pc = "record" THEN Fallback ELSE call.decision
             all == decisions \cup {decision}
  <2>1. call' = [call EXCEPT !.pc = pc, !.decision = decision]
    BY <1>0, <1>5 DEF RecordRaises, Calls
  <2>2. Permitted(decision) /\ pc \in {"record_fallback", "raised"}
    BY FallbackPermitted DEF CallInv
  <2>3. call \in Calls(all) /\ decision \in all
    BY <1>0 DEF Calls
  <2> HIDE DEF decision, pc, all
  <2>4. /\ call' \in Calls(all) /\ call'.pc = pc /\ call'.rsi = call.rsi
        /\ call'.decision = decision /\ call'.rows = call.rows /\ call'.kept = call.kept
    BY <2>1, <2>2, <2>3 DEF Calls
  <2>5. call.pc # "answered"
    BY <1>5 DEF Recording
  <2> QED BY <2>2, <2>4, <2>5, CallChange
<1>6. ASSUME call' = [RecordRaises(Recorded(call)) EXCEPT !.kept = @ + 1], Recording
      PROVE  CallInv'
  <2> DEFINE pc == IF call.pc = "record" THEN "record_fallback" ELSE "raised"
             decision == IF call.pc = "record" THEN Fallback ELSE call.decision
             all == decisions \cup {decision}
             rows == Append(call.rows, call.decision)
             kept == call.kept + 1
  <2>1. call' = [call EXCEPT !.pc = pc, !.decision = decision, !.rows = rows, !.kept = kept]
    BY <1>0, <1>6 DEF RecordRaises, Recorded, Calls
  <2>2. Permitted(decision) /\ pc \in {"record_fallback", "raised"}
    BY FallbackPermitted DEF CallInv
  <2>3. call \in Calls(all) /\ decision \in all /\ rows \in Seq(all) /\ kept \in Nat
    <3>1. call \in Calls(all)
      BY <1>0 DEF Calls
    <3> HIDE DEF all
    <3>2. rows \in Seq(all) /\ kept \in Nat
      BY <3>1, Appended DEF Calls
    <3> QED BY <3>1, <3>2 DEF all
  <2>4. call.pc # "answered"
    BY <1>6 DEF Recording
  <2> HIDE DEF decision, pc, all, kept, rows
  <2>5. /\ call' \in Calls(all) /\ call'.pc = pc /\ call'.rsi = call.rsi
        /\ call'.decision = decision /\ call'.rows = rows /\ call'.kept = kept
    BY <2>1, <2>2, <2>3 DEF Calls
  <2>6. /\ call'.rows = Append(call.rows, call.decision) /\ call'.kept = call.kept + 1
        /\ call'.pc # "answered"
    BY <2>2, <2>5 DEF rows, kept
  <2> QED BY <2>2, <2>4, <2>5, <2>6, CallChange
<1>7. CASE CallStep
  <2>1. RecordDecision => /\ Recording
                          /\ call.wired # "container" \/ call' = RecordRaises(call)
    BY DEF RecordDecision
  <2>2. RecordFails => /\ Recording
                       /\ \/ call' = RecordRaises(call)
                          \/ call' = [RecordRaises(Recorded(call)) EXCEPT !.kept = @ + 1]
    BY DEF RecordFails
  <2> QED BY <1>2, <1>3, <1>4, <1>5, <1>6, <1>7, <2>1, <2>2 DEF CallStep
<1>8. CASE SchedulerStep
  <2>1. Scheduler
    BY <1>8, Zenon DEF SchedulerStep, StartJob, AcquireLock, LockRefused, RunCycle, CycleLost, Report,
                ReportUnstored, Count, ReleaseLock, CutJob, Terminate
  <2> QED BY <1>1, <2>1 DEF Scheduler
<1>9. CASE Message \/ BotStep
  <2>1. Bot
    BY <1>9, Zenon DEF Message, BotStep, TakeUpdate, Greet, CmdRun, Answer, CmdRaises, Apologise, Finally
  <2> QED BY <1>1, <2>1 DEF Bot
<1>10. CASE RunnerStep
  <2>1. Runner
    BY <1>10 DEF RunnerStep, GetPosition, AnalyzeMarket, PlaceOrder, OrderRejected, OwnerTrades
  <2> QED BY <1>1, <2>1 DEF Runner
<1>11. CASE ApiStep
  <2>1. Api
    BY <1>11 DEF ApiStep, ControlBot, UpdateConfig, CheckTrade, InsertTrade
  <2> QED BY <1>1, <2>1 DEF Api
<1>12. CASE UNCHANGED vars
  BY <1>1, <1>12 DEF vars
<1> QED BY <1>7, <1>8, <1>9, <1>10, <1>11, <1>12 DEF Next

LEMMA CallInvInit ==
    ASSUME Init
    PROVE  CallInv
<1>1. PICK rsi : rsi \in RsiReadings
  BY ServicesAssumption
<1>2. [pc |-> "prompt", wired |-> "ports", rsi |-> rsi, decision |-> Fallback, rows |-> <<>>,
       kept |-> 0] \in CallInit
  BY <1>1 DEF CallInit
<1>3. call \in CallInit
  BY <1>2 DEF Init
<1>4. /\ call.pc = "prompt" /\ call.rows = <<>> /\ call.kept = 0 /\ call.decision = Fallback
      /\ call.wired \in {"container", "ports"} /\ call.rsi \in RsiReadings
  BY <1>3 DEF CallInit
<1>5. call \in Calls({Fallback})
  <2>1. call = [pc |-> call.pc, wired |-> call.wired, rsi |-> call.rsi, decision |-> call.decision,
                rows |-> call.rows, kept |-> call.kept]
    BY <1>3 DEF CallInit
  <2>2. call.rows \in Seq({Fallback}) /\ call.kept \in Nat
    BY <1>4
  <2> QED BY <1>4, <2>1, <2>2 DEF Calls
<1> QED BY <1>4, <1>5, FallbackPermitted DEF CallInv

\* The answer of a breakout analysis is the last decision on record, each further row comes
\* of a refresh that failed, and no decision on record allows what is overbought.
\* (AnalyzeBreakoutUseCase.execute, SqlAlchemyDecisionRecordAdapter.record.)
THEOREM BreakoutRecordedHolds == Spec => []BreakoutRecorded
<1>1. CallInv => BreakoutRecorded
  BY DEF CallInv, BreakoutRecorded, Permitted, Last
<1> QED BY <1>1, CallInvInit, CallInvStep, PTL DEF Spec

-----------------------------------------------------------------------------
(* The endpoints of the API.                                               *)

Requests == {"one", "two"}
RequestSteps == {"checking", "inserting", "conflict", "created", "error"}

ApiInv ==
    /\ api \in [calls : Nat, stored : SUBSET BOOLEAN, wanted : SUBSET BOOLEAN,
                pc : [Requests -> RequestSteps], trades : Seq(Requests)]
    /\ CreatedOnce

\* A step of request r, which leaves the other one where it was.
LEMMA RequestStep ==
    ASSUME ApiInv, NEW r \in Requests, NEW step \in RequestSteps, NEW trades \in Seq(Requests),
           api' = [api EXCEPT !.pc = [api.pc EXCEPT ![r] = step], !.trades = trades],
           trades = api.trades \/ api.trades = <<>>,
           step = "created" => trades = <<r>>,
           step = "conflict" => trades # <<>>
    PROVE  ApiInv'
<1> DEFINE pc == [api.pc EXCEPT ![r] = step]
<1>1. /\ api.pc \in [Requests -> RequestSteps] /\ api.trades \in Seq(Requests)
      /\ pc \in [Requests -> RequestSteps]
      /\ pc[r] = step /\ \A q \in Requests : q # r => pc[q] = api.pc[q]
  BY DEF ApiInv
<1> HIDE DEF pc
<1>2. /\ api' \in [calls : Nat, stored : SUBSET BOOLEAN, wanted : SUBSET BOOLEAN,
                   pc : [Requests -> RequestSteps], trades : Seq(Requests)]
      /\ api'.pc = pc /\ api'.trades = trades
  BY <1>1 DEF ApiInv, pc
<1>3. ASSUME NEW q \in Requests
      PROVE  (pc[q] = "created" => trades = <<q>>) /\ (pc[q] = "conflict" => trades # <<>>)
  <2>1. CASE q = r
    BY <1>1, <2>1
  <2>2. CASE q # r
    <3>1. pc[q] = api.pc[q] /\ q \in DOMAIN api.pc
      BY <1>1, <2>2
    <3>2. (pc[q] = "created" => api.trades = <<q>>) /\ (pc[q] = "conflict" => api.trades # <<>>)
      BY <3>1 DEF ApiInv, CreatedOnce
    <3>3. <<q>> # <<>>
      OBVIOUS
    <3> QED BY <3>2, <3>3
  <2> QED BY <2>1, <2>2
<1>4. DOMAIN pc = Requests
  BY <1>1
<1> QED BY <1>2, <1>3, <1>4 DEF ApiInv, CreatedOnce

LEMMA ApiInvStep ==
    ASSUME ApiInv, [Next]_vars
    PROVE  ApiInv'
<1>1. CASE api' = api
  BY <1>1 DEF ApiInv, CreatedOnce
<1>2. ASSUME NEW action, ControlBot(action)
      PROVE  ApiInv'
  <2> DEFINE calls == api.calls + 1
             wanted == {action = "start"}
             stored == IF api.stored = {} THEN {action = "start"} ELSE api.stored
  <2>1. calls \in Nat /\ wanted \in SUBSET BOOLEAN /\ stored \in SUBSET BOOLEAN
    BY DEF ApiInv
  <2>2. api' = [api EXCEPT !.calls = calls, !.stored = stored, !.wanted = wanted]
    BY <1>2 DEF ControlBot, ApiInv
  <2> HIDE DEF calls, wanted, stored
  <2> QED BY <2>1, <2>2 DEF ApiInv, CreatedOnce
<1>3. ASSUME NEW running \in BOOLEAN, UpdateConfig(running)
      PROVE  ApiInv'
  <2> DEFINE calls == api.calls + 1
  <2>1. calls \in Nat /\ {running} \in SUBSET BOOLEAN
    BY DEF ApiInv
  <2>2. api' = [api EXCEPT !.calls = calls, !.stored = {running}, !.wanted = {running}]
    BY <1>3 DEF UpdateConfig, ApiInv
  <2> HIDE DEF calls
  <2> QED BY <2>1, <2>2 DEF ApiInv, CreatedOnce
<1>4. ASSUME NEW r \in Requests, CheckTrade(r)
      PROVE  ApiInv'
  <2> DEFINE step == IF api.trades = <<>> THEN "inserting" ELSE "conflict"
  <2>1. step \in RequestSteps /\ step # "created" /\ (step = "conflict" => api.trades # <<>>)
    BY DEF RequestSteps
  <2>2. api' = [api EXCEPT !.pc = [api.pc EXCEPT ![r] = step], !.trades = api.trades]
        /\ api.trades \in Seq(Requests)
    BY <1>4 DEF CheckTrade, ApiInv
  <2> HIDE DEF step
  <2> QED BY <2>1, <2>2, RequestStep
<1>5. ASSUME NEW r \in Requests, InsertTrade(r)
      PROVE  ApiInv'
  <2>1. PICK step \in {"created", "error"}, trades \in {api.trades, <<r>>} :
          /\ api' = [api EXCEPT !.pc = [api.pc EXCEPT ![r] = step], !.trades = trades]
          /\ trades = api.trades \/ api.trades = <<>>
          /\ step = "created" => trades = <<r>>
    BY <1>5 DEF InsertTrade, ApiInv
  <2>2. step \in RequestSteps /\ step # "conflict" /\ trades \in Seq(Requests)
    <3>1. api.trades \in Seq(Requests) /\ <<r>> \in Seq(Requests)
      BY DEF ApiInv
    <3>2. step \in RequestSteps /\ step # "conflict"
      BY DEF RequestSteps
    <3> QED BY <3>1, <3>2
  <2> QED BY <2>1, <2>2, RequestStep
<1>6. CASE ApiStep
  <2>1. DOMAIN api.pc = Requests
    BY DEF ApiInv
  <2> QED BY <1>2, <1>3, <1>4, <1>5, <1>6, <2>1 DEF ApiStep
<1>7. CASE SchedulerStep
  <2>1. Scheduler
    BY <1>7 DEF SchedulerStep, StartJob, AcquireLock, LockRefused, RunCycle, CycleLost, Report,
                ReportUnstored, Count, ReleaseLock, CutJob, Terminate
  <2> QED BY <1>1, <2>1 DEF Scheduler
<1>8. CASE Message \/ BotStep
  <2>1. Bot
    BY <1>8 DEF Message, BotStep, TakeUpdate, Greet, CmdRun, Answer, CmdRaises, Apologise, Finally
  <2> QED BY <1>1, <2>1 DEF Bot
<1>9. CASE RunnerStep
  <2>1. Runner
    BY <1>9 DEF RunnerStep, GetPosition, AnalyzeMarket, PlaceOrder, OrderRejected, OwnerTrades
  <2> QED BY <1>1, <2>1 DEF Runner
<1>10. CASE CallStep
  <2>1. Call
    BY <1>10 DEF CallStep, RenderPrompt, AskAi, RecordDecision, RecordFails
  <2> QED BY <1>1, <2>1 DEF Call
<1>11. CASE UNCHANGED vars
  BY <1>1, <1>11 DEF vars
<1> QED BY <1>6, <1>7, <1>8, <1>9, <1>10, <1>11 DEF Next

LEMMA ApiInvInit ==
    ASSUME Init
    PROVE  ApiInv
<1>1. api = ApiInit
  BY DEF Init
<1> QED BY <1>1 DEF ApiInit, ApiInv, CreatedOnce, Requests, RequestSteps

\* Whatever two requests to create one trade run into, one that is told it created the trade
\* has its row kept, and one that is told of a conflict had a row to conflict with.
\* (create_trade.)
THEOREM CreatedOnceHolds == Spec => []CreatedOnce
<1>1. ApiInv => CreatedOnce
  BY DEF ApiInv
<1> QED BY <1>1, ApiInvInit, ApiInvStep, PTL DEF Spec

-----------------------------------------------------------------------------
(* The rules, for every input.                                             *)

LEMMA LeastOfTwo ==
    ASSUME NEW a \in Int, NEW b \in Int
    PROVE  Min({a, b}) = IF a <= b THEN a ELSE b
<1>1. \E x \in {a, b} : \A y \in {a, b} : x <= y
  OBVIOUS
<1>2. Min({a, b}) \in {a, b} /\ \A y \in {a, b} : Min({a, b}) <= y
  BY <1>1 DEF Min
<1> QED BY <1>2

LEMMA GreatestOfTwo ==
    ASSUME NEW a \in Int, NEW b \in Int
    PROVE  Max({a, b}) = IF a <= b THEN b ELSE a
<1>1. \E x \in {a, b} : \A y \in {a, b} : x >= y
  OBVIOUS
<1>2. Max({a, b}) \in {a, b} /\ \A y \in {a, b} : Max({a, b}) >= y
  BY <1>1 DEF Max
<1> QED BY <1>2

\* For every bar, stop and target, an exit on the close, or on any price of the bar, is an
\* exit within the bar at a price that the bar has traded at, the stop comes first, and
\* neither sells at a better price than it says.  (The exit rules of the backtests, the
\* live stages and the domain.)
THEOREM ExitsAgreeAlways ==
    ASSUME NEW bar \in Candles, NEW stop \in Int, NEW target \in Int, stop < target
    PROVE  ExitsAgree(bar, stop, target)
<1>1. /\ bar.open \in Int /\ bar.close \in Int /\ bar.low \in Int /\ bar.high \in Int
      /\ bar.low <= bar.open /\ bar.open <= bar.high /\ bar.low <= bar.close /\ bar.close <= bar.high
  BY DEF Candles
<1>2. /\ CloseStops(bar, stop) => BarStops(bar, stop)
      /\ CloseTargets(bar, target) => BarTargets(bar, target)
      /\ \A p \in bar.low .. bar.high : /\ MomentStops(p, stop) => BarStops(bar, stop)
                                        /\ MomentTargets(p, target) => BarTargets(bar, target)
  BY <1>1 DEF CloseStops, BarStops, CloseTargets, BarTargets, MomentStops, MomentTargets
<1>3. CASE BarStops(bar, stop)
  <2>1. ExitPriority(bar, stop, target) = "stop_loss"
    BY <1>3 DEF ExitPriority
  <2>2. StopPrice(bar, stop) \in bar.low .. Min({stop, bar.high})
    BY <1>1, <1>3, LeastOfTwo DEF BarStops, StopPrice
  <2> QED BY <1>2, <2>1, <2>2 DEF ExitsAgree
<1>4. CASE ~BarStops(bar, stop) /\ BarTargets(bar, target)
  <2>1. ExitPriority(bar, stop, target) = "take_profit"
    BY <1>4 DEF ExitPriority
  <2>2. TargetPrice(bar, target) \in Max({target, bar.low}) .. bar.high
    BY <1>1, <1>4, GreatestOfTwo DEF BarTargets, TargetPrice
  <2> QED BY <1>2, <1>4, <2>1, <2>2 DEF ExitsAgree
<1>5. CASE ~BarStops(bar, stop) /\ ~BarTargets(bar, target)
  <2>1. ExitPriority(bar, stop, target) = "none"
    BY <1>5 DEF ExitPriority
  <2>2. bar.low > stop /\ bar.high < target
    BY <1>1, <1>5 DEF BarStops, BarTargets
  <2> QED BY <1>2, <2>1, <2>2 DEF ExitsAgree
<1> QED BY <1>3, <1>4, <1>5

-----------------------------------------------------------------------------
(* Summaries.  A reading is missing, or one number.                        *)

LEMMA ReadingIs ==
    ASSUME NEW values
    PROVE  Reading(values) = {{}} \cup {{x} : x \in values}
<1>1. ASSUME NEW r \in Reading(values) PROVE r \in {{}} \cup {{x} : x \in values}
  <2>1. r \in SUBSET values /\ \A x, y \in r : x = y
    BY DEF Reading
  <2>2. CASE r # {}
    <3>1. PICK x \in r : TRUE
      BY <2>2
    <3>2. r = {x} /\ x \in values
      BY <2>1, <3>1
    <3> QED BY <3>2
  <2> QED BY <2>2
<1>2. ASSUME NEW r \in {{}} \cup {{x} : x \in values} PROVE r \in Reading(values)
  BY DEF Reading
<1> QED BY <1>1, <1>2

LEMMA DefaultIs ==
    ASSUME NEW values \in SUBSET Int, NEW r \in Reading(values), NEW c \in Int
    PROVE  /\ r = {} => Default(r, c) = c
           /\ r # {} => Default(r, c) \in values /\ r = {Default(r, c)}
BY ReadingIs DEF Default

\* A grade is one of the steps up to any that is met.
LEMMA GradeIs ==
    ASSUME NEW x \in Int, NEW steps \in [1 .. 3 -> Int \X Int], NEW k \in 1 .. 3, x <= steps[k][1]
    PROVE  \E i \in 1 .. k : Grade(x, steps) = steps[i][2]
<1> DEFINE met == {i \in 1 .. 3 : x <= steps[i][1]}
<1>1. k \in met /\ met \subseteq {1, 2, 3} /\ DOMAIN steps = 1 .. 3
  OBVIOUS
<1>2. Grade(x, steps) = steps[Min(met)][2]
  BY <1>1 DEF Grade
<1> HIDE DEF met
<1>3. \E i \in met : \A j \in met : i <= j
  <2>1. CASE 1 \in met
    BY <1>1, <2>1
  <2>2. CASE 1 \notin met /\ 2 \in met
    BY <1>1, <2>2
  <2>3. CASE 1 \notin met /\ 2 \notin met
    BY <1>1, <2>3
  <2> QED BY <2>1, <2>2, <2>3
<1>4. Min(met) \in met /\ \A j \in met : Min(met) <= j
  BY <1>3 DEF Min
<1> DEFINE first == Min(met)
<1>5. first \in {1, 2, 3} /\ first <= k
  BY <1>1, <1>4
<1> HIDE DEF first
<1>6. first \in 1 .. k
  BY <1>5
<1> QED BY <1>2, <1>6 DEF first

LEMMA AtrBelow ==
    ASSUME NEW price \in Nat \ {0}, NEW atr \in Nat, 100 * atr <= 4 * price
    PROVE  (2000 * atr) \div price \in 0 .. 80 /\ (2000 * atr) % price \in 0 .. price - 1
           /\ ((2000 * atr) \div price = 80 => (2000 * atr) % price = 0)
<1> DEFINE q == (2000 * atr) \div price
           r == (2000 * atr) % price
<1>1. q \in Int /\ r \in 0 .. price - 1 /\ 2000 * atr = price * q + r
  OBVIOUS
<1> HIDE DEF q, r
<1>2. price * q + r <= 80 * price
  BY <1>1
<1>3. q <= 80
  <2>1. SUFFICES ASSUME q >= 81 PROVE FALSE
    BY <1>1
  <2>2. price * q >= price * 81
    BY <1>1, <2>1
  <2> QED BY <1>1, <1>2, <2>2
<1>4. q >= 0
  <2>1. SUFFICES ASSUME q <= -1 PROVE FALSE
    BY <1>1
  <2>2. price * q <= price * (-1)
    BY <1>1, <2>1
  <2> QED BY <1>1, <2>2
<1>5. q = 80 => r = 0
  BY <1>1, <1>2
<1> QED BY <1>1, <1>3, <1>4, <1>5 DEF q, r

\* At most four percent of the price round to forty thousandths at most.
LEMMA AtrPercentBelow ==
    ASSUME NEW i \in Readings, 100 * Default(i.atr, 0) <= 4 * Default(i.price, 1)
    PROVE  AtrPercent(i) \in 0 .. 40
<1> DEFINE price == Default(i.price, 1)
           atr == Default(i.atr, 0)
           halves == (2000 * atr) \div price
           rest == (2000 * atr) % price
<1>1. price \in Nat \ {0} /\ atr \in Nat
  <2>1. i.price \in Reading(Nat \ {0}) /\ i.atr \in Reading(Nat)
    BY DEF Readings
  <2>2. Nat \in SUBSET Int /\ Nat \ {0} \in SUBSET Int
    OBVIOUS
  <2> QED BY <2>1, <2>2, DefaultIs
<1>2. AtrPercent(i) = halves \div 2 + (IF halves % 2 = 1 /\ (rest > 0 \/ (halves \div 2) % 2 = 1) THEN 1 ELSE 0)
  BY DEF AtrPercent
<1>3. 100 * atr <= 4 * price
  OBVIOUS
<1> HIDE DEF price, atr
<1>4. halves \in 0 .. 80 /\ rest \in Int
  BY <1>1, <1>3, AtrBelow
<1> HIDE DEF halves, rest
<1>5. halves \div 2 \in 0 .. 40 /\ (halves % 2 = 1 => halves \div 2 <= 39)
  BY <1>4
<1> QED BY <1>2, <1>4, <1>5

LEMMA ChecksPass ==
    ASSUME NEW s, ~Over(s.rsi, RsiOverbought), ~Under(s.rsi, RsiOversold), s.atr <= 50,
           s.regime \in {"trending_up", "ranging"}, s.strength # "none", ~Under(s.volume, 80)
    PROVE  FilterVerdict(s) = "passed"
<1>1. DOMAIN Checks(s) = {1, 2, 3, 4, 5, 6}
  BY DEF Checks
<1>2. Checks(s)[1].holds <=> ~Over(s.rsi, RsiOverbought)
  BY DEF Checks
<1>3. Checks(s)[2].holds <=> ~Under(s.rsi, RsiOversold)
  BY DEF Checks
<1>4. Checks(s)[3].holds <=> s.atr <= 50
  BY DEF Checks
<1>5. Checks(s)[4].holds <=> s.regime \in {"trending_up", "ranging"}
  BY DEF Checks
<1>6. Checks(s)[5].holds <=> s.strength # "none"
  BY DEF Checks
<1>7. Checks(s)[6].holds <=> ~Under(s.volume, 80)
  BY DEF Checks
<1>8. {k \in DOMAIN Checks(s) : ~Checks(s)[k].holds} = {}
  BY <1>1, <1>2, <1>3, <1>4, <1>5, <1>6, <1>7
<1> QED BY <1>8 DEF FilterVerdict

\* For every set of readings, what a summary calls favourable passes the filter with a score
\* of 65 at least and is an upward trend, also when readings are missing: the checks of the
\* two are written apart, and rounding the ATR never fails one that the other passed.
\* (MarketSummary.is_favorable_for_entry, the filter and its score.)
THEOREM SummaryConsistentAlways ==
    ASSUME NEW i \in Readings
    PROVE  SummaryConsistent(i)
<1> DEFINE s == FromIndicators(i)
<1> SUFFICES ASSUME IsFavorableForEntry(s)
             PROVE  FilterVerdict(s) = "passed" /\ CalculateScore(s) >= 65 /\ s.regime = "trending_up"
  BY DEF SummaryConsistent
<1>1. /\ i.price \in Reading(Nat \ {0}) /\ i.atr \in Reading(Nat) /\ i.adx \in Reading(Nat)
      /\ i.rsi \in Reading(Nat) /\ i.histogram \in Reading(Int) /\ i.volume \in Reading(Nat)
      /\ i.band \in Reading(Int)
  BY DEF Readings
<1>2. Nat \in SUBSET Int /\ Nat \ {0} \in SUBSET Int /\ Int \in SUBSET Int
  OBVIOUS
<1>3. /\ Default(i.adx, 0) \in Nat /\ Default(i.histogram, 0) \in Int /\ Default(i.rsi, 5000) \in Nat
      /\ Default(i.price, 1) \in Nat \ {0} /\ Default(i.atr, 0) \in Nat
      /\ Default(i.volume, 100) \in Nat /\ Default(i.band, 50) \in Int
  BY <1>1, <1>2, DefaultIs
<1>4. /\ s.regime = DetectRegime(i) /\ s.atr = AtrPercent(i) /\ s.strength = DetectStrength(i)
      /\ s.volume = i.volume \ {0} /\ s.rsi = i.rsi \ {0}
  BY DEF FromIndicators, Given
<1>5. /\ s.regime \in {"trending_up", "ranging"} /\ s.strength \notin {"none", "weak"}
      /\ ~Under(s.rsi, 3000) /\ ~Over(s.rsi, 7000)
  BY DEF IsFavorableForEntry
<1>6. s.strength \in {"strong", "moderate"} /\ Default(i.volume, 100) > 120 /\ Default(i.adx, 0) > 2000
  BY <1>3, <1>4, <1>5 DEF DetectStrength
<1>7. s.regime = "trending_up" /\ 100 * Default(i.atr, 0) <= 4 * Default(i.price, 1)
  BY <1>3, <1>4, <1>5, <1>6 DEF DetectRegime
<1>8. s.atr \in 0 .. 40
  BY <1>4, <1>7, AtrPercentBelow
<1>9. PICK v \in Nat : v > 120 /\ i.volume = {v}
  <2>1. i.volume # {}
    BY <1>1, <1>2, <1>6, DefaultIs
  <2> QED BY <1>1, <1>2, <1>3, <1>6, <2>1, DefaultIs
<1>10. s.volume = {v}
  BY <1>4, <1>9
<1>11. s.rsi \in Reading(Nat) /\ \A x \in s.rsi : x \in 3000 .. 7000
  <2>1. i.rsi \ {0} \in Reading(Nat)
    BY <1>1, ReadingIs
  <2>3. s.rsi \in Reading(Nat)
    BY <1>4, <2>1
  <2>4. ~Under(s.rsi, 3000) /\ ~Over(s.rsi, 7000)
    BY <1>5
  <2> DEFINE readings == s.rsi
  <2>5. readings \in Reading(Nat) /\ ~Under(readings, 3000) /\ ~Over(readings, 7000)
    BY <2>3, <2>4
  <2> HIDE DEF readings
  <2>6. ASSUME NEW x \in readings PROVE x \in 3000 .. 7000
    <3>1. x \in Nat
      BY <2>5, ReadingIs
    <3>2. ~(3000 > x) /\ ~(x > 7000)
      BY <2>5 DEF Under, Over, Above
    <3> QED BY <3>1, <3>2
  <2> QED BY <2>3, <2>6 DEF readings
<1> HIDE DEF s
<1>12. FilterVerdict(s) = "passed"
  <2>1. s.strength # "none" /\ s.atr <= 50
    BY <1>6, <1>8
  <2>2. ~Under(s.volume, 80)
    BY <1>9, <1>10 DEF Under, Above
  <2>3. ~Over(s.rsi, RsiOverbought) /\ ~Under(s.rsi, RsiOversold)
    BY <1>5 DEF RsiOverbought, RsiOversold
  <2> QED BY <1>5, <2>1, <2>2, <2>3, ChecksPass
<1>13. CalculateScore(s) >= 65
  <2> DEFINE regime == [trending_up |-> 25, ranging |-> 15, volatile |-> 5, trending_down |-> 0, unknown |-> 10]
             strength == [strong |-> 25, moderate |-> 18, weak |-> 8, none |-> 0]
             off == Abs(Default(s.rsi, 5000) - 5000)
             volume == 0 - Default(s.volume, 0)
             byRsi == <<<<1000, 25>>, <<2000, 18>>, <<3000, 10>>>>
             byAtr == <<<<20, 12>>, <<30, 8>>, <<40, 4>>>>
             byVolume == <<<<-200, 13>>, <<-150, 10>>, <<-100, 6>>>>
             rsiPoints == IF s.rsi = {} THEN 12 ELSE Grade(off, byRsi)
             volumePoints == IF s.volume = {} THEN 6 ELSE Grade(volume, byVolume)
  <2>1. CalculateScore(s) = regime[s.regime] + strength[s.strength] + rsiPoints + Grade(s.atr, byAtr) + volumePoints
    BY DEF CalculateScore
  <2>2. regime[s.regime] = 25 /\ strength[s.strength] \in {18, 25}
    BY <1>6, <1>7
  <2>3. rsiPoints \in {12, 18, 25}
    <3>1. CASE s.rsi = {}
      BY <3>1
    <3>2. CASE s.rsi # {}
      <4> DEFINE x == Default(s.rsi, 5000)
      <4>1. x \in 3000 .. 7000
        <5>1. s.rsi = {x}
          BY <1>2, <1>11, <3>2, DefaultIs
        <5>2. x \in s.rsi
          BY <5>1
        <5> QED BY <1>11, <5>2
      <4> HIDE DEF x
      <4>2. off \in 0 .. 2000
        <5>1. x - 5000 \in Int /\ 0 - (x - 5000) \in Int
          BY <4>1
        <5>2. off = IF x - 5000 <= 0 - (x - 5000) THEN 0 - (x - 5000) ELSE x - 5000
          BY <5>1, GreatestOfTwo DEF Abs, x
        <5> QED BY <4>1, <5>2, SMTT(30)
      <4>3. byRsi \in [1 .. 3 -> Int \X Int] /\ byRsi[1] = <<1000, 25>> /\ byRsi[2] = <<2000, 18>>
        OBVIOUS
      <4> HIDE DEF off, byRsi
      <4>4. \E k \in 1 .. 2 : Grade(off, byRsi) = byRsi[k][2]
        <5>1. off <= byRsi[2][1] /\ off \in Int /\ 2 \in 1 .. 3
          BY <4>2, <4>3
        <5> QED BY <4>3, <5>1, GradeIs
      <4>5. Grade(off, byRsi) \in {18, 25}
        BY <4>3, <4>4
      <4> QED BY <3>2, <4>5
    <3> QED BY <3>1, <3>2
  <2>4. Grade(s.atr, byAtr) \in {12, 8, 4}
    <3>1. byAtr \in [1 .. 3 -> Int \X Int]
          /\ byAtr[1] = <<20, 12>> /\ byAtr[2] = <<30, 8>> /\ byAtr[3] = <<40, 4>>
      OBVIOUS
    <3> HIDE DEF byAtr
    <3>2. s.atr <= byAtr[3][1] /\ s.atr \in Int /\ 3 \in 1 .. 3
      BY <1>8, <3>1
    <3>3. \E k \in 1 .. 3 : Grade(s.atr, byAtr) = byAtr[k][2]
      BY <3>1, <3>2, GradeIs
    <3> QED BY <3>1, <3>3
  <2>5. volumePoints \in {13, 10, 6}
    <3>1. volume = 0 - v
      BY <1>10 DEF Default
    <3>2. byVolume \in [1 .. 3 -> Int \X Int]
          /\ byVolume[1] = <<-200, 13>> /\ byVolume[2] = <<-150, 10>> /\ byVolume[3] = <<-100, 6>>
      OBVIOUS
    <3> HIDE DEF volume, byVolume
    <3>3. volume <= byVolume[3][1] /\ volume \in Int /\ 3 \in 1 .. 3
      BY <1>9, <3>1, <3>2
    <3>4. \E k \in 1 .. 3 : Grade(volume, byVolume) = byVolume[k][2]
      BY <3>2, <3>3, GradeIs
    <3>5. Grade(volume, byVolume) \in {13, 10, 6}
      BY <3>2, <3>4
    <3> QED BY <1>10, <3>5
  <2> HIDE DEF regime, strength, rsiPoints, volumePoints, byAtr
  <2> QED BY <2>1, <2>2, <2>3, <2>4, <2>5
<1> QED BY <1>7, <1>12, <1>13

-----------------------------------------------------------------------------
(* The exchange.  A balance is never negative.                             *)

\* For every account, answer and state of an order both adapters of the exchange list the
\* same positions, though one lists coins that are locked; what the bridge reports as bought
\* or sold the new adapter reports too, unless the price is missing, with the same volume;
\* and only what the bridge calls filled is filled to the new one.  (upbit_adapter,
\* legacy_bridge.)
THEOREM ExchangesAgreeAlways ==
    ASSUME NEW account \in SUBSET Balances, NEW answer \in Answers, NEW state
    PROVE  ExchangesAgree(account, answer, state)
<1>1. ASSUME NEW currency PROVE
        /\ UpbitPosition(account, currency) # {} => \E a \in account : a.currency = currency /\ a.free > 0
        /\ LegacyPosition(account, currency) = UpbitPosition(account, currency)
  <2>1. \A a \in account : a.free \in Nat
    BY DEF Balances
  <2> QED BY <2>1 DEF UpbitPosition, LegacyPosition
<1>2. ASSUME NEW a \in account, a.free > 0
      PROVE  /\ \E b \in UpbitBalances(account) : b.currency = a.currency
             /\ \E b \in LegacyBalances(account) : b.currency = a.currency
  <2> DEFINE u == [currency |-> a.currency, total |-> a.free + a.locked, available |-> a.free]
             l == [currency |-> a.currency, total |-> a.free, available |-> a.free]
  <2>1. u \in UpbitBalances(account) /\ l \in LegacyBalances(account)
    BY <1>2 DEF UpbitBalances, LegacyBalances
  <2>2. u.currency = a.currency /\ l.currency = a.currency
    OBVIOUS
  <2> QED BY <2>1, <2>2
<1>3. UpbitPositions(account) = LegacyPositions(account)
  <2> DEFINE PositionOf(p, listing) == \E b \in listing : b.currency # "KRW" /\ p \in UpbitPosition(account, b.currency)
  <2>1. \A p : p \in UpbitPositions(account) <=> PositionOf(p, UpbitBalances(account))
    BY DEF UpbitPositions
  <2>2. \A p : p \in LegacyPositions(account) <=> PositionOf(p, LegacyBalances(account))
    BY <1>1 DEF LegacyPositions
  <2>3. \A p : PositionOf(p, UpbitBalances(account)) <=> PositionOf(p, LegacyBalances(account))
    BY <1>1, <1>2
  <2> HIDE DEF PositionOf
  <2>4. \A p : p \in UpbitPositions(account) <=> p \in LegacyPositions(account)
    BY <2>1, <2>2, <2>3
  <2> QED BY <2>4
<1>4. LegacyBuy(answer, 7).success =>
        /\ UpbitBuy(answer, 7).success <=> answer.price # {}
        /\ UpbitBuy(answer, 7).success => UpbitBuy(answer, 7).volume = LegacyBuy(answer, 7).volume
  <2>1. answer.form \in {"raises", "none", "empty"} \/ answer.volume = {} => ~LegacyBuy(answer, 7).success
    BY DEF LegacyBuy, Refusal
  <2>2. ASSUME answer.form \notin {"raises", "none", "empty"}, answer.volume # {}
        PROVE  /\ LegacyBuy(answer, 7).volume = Price(answer.volume)
               /\ answer.price = {} => ~UpbitBuy(answer, 7).success
               /\ answer.price # {} => UpbitBuy(answer, 7).success /\ UpbitBuy(answer, 7).volume = Price(answer.volume)
    BY <2>2 DEF LegacyBuy, UpbitBuy, Refusal
  <2> QED BY <2>1, <2>2
<1>5. LegacySell(answer, 3, {5}).success => UpbitSell(answer, 3, {5}).success
  BY DEF LegacySell, UpbitSell, Refusal
<1>6. UpbitStatus(answer, state) = "filled" => LegacyStatus(answer, state) = "filled"
  <2>1. CASE answer.form \in {"raises", "none"}
    BY <2>1 DEF UpbitStatus
  <2>2. CASE answer.form = "empty"
    BY <2>2 DEF UpbitStatus
  <2>3. CASE answer.form \notin {"raises", "none", "empty"}
    BY <2>3 DEF LegacyStatus
  <2> QED BY <2>1, <2>2, <2>3
<1> QED BY <1>3, <1>4, <1>5, <1>6 DEF ExchangesAgree

-----------------------------------------------------------------------------
(* The trailing stop, along any prices.                                    *)

\* The state of the stop after each price.
Trailing(g, limits, avg, atr, prices, k) ==
    g = [i \in 0 .. k |-> IF i = 0 THEN NoTrail ELSE CheckTrailingStop(g[i - 1], limits, avg, prices[i], atr)]

LEMMA TrailExists ==
    ASSUME NEW n \in Nat, NEW limits, NEW avg, NEW atr, NEW prices
    PROVE  \E g : Trailing(g, limits, avg, atr, prices, n)
<1> DEFINE T(g, k) == Trailing(g, limits, avg, atr, prices, k)
           G == {k \in 0 .. n : \E g : T(g, k)}
<1>1. 0 \in G
  <2> DEFINE g == [i \in 0 .. 0 |-> NoTrail]
  <2>1. g = [i \in 0 .. 0 |-> IF i = 0 THEN NoTrail ELSE CheckTrailingStop(g[i - 1], limits, avg, prices[i], atr)]
    <3>1. \A i \in 0 .. 0 : i = 0
      OBVIOUS
    <3> QED BY <3>1
  <2>2. T(g, 0) /\ 0 \in 0 .. n
    BY <2>1 DEF Trailing
  <2> QED BY <2>2
<1>2. ASSUME NEW k \in 1 .. n, k - 1 \in G PROVE k \in G
  <2>1. PICK g : T(g, k - 1)
    BY <1>2
  <2> DEFINE C(t, i) == CheckTrailingStop(t, limits, avg, prices[i], atr)
             h == [i \in 0 .. k |-> IF i = 0 THEN NoTrail ELSE C(g[i - 1], i)]
  <2>2. \A i \in 0 .. k - 1 : g[i] = IF i = 0 THEN NoTrail ELSE C(g[i - 1], i)
    BY <2>1 DEF Trailing
  <2> HIDE DEF C
  <2>3. \A i \in 0 .. k - 1 : h[i] = g[i]
    BY <2>2
  <2>4. \A i \in 0 .. k : h[i] = IF i = 0 THEN NoTrail ELSE C(h[i - 1], i)
    <3> TAKE i \in 0 .. k
    <3>1. CASE i = 0
      BY <3>1
    <3>2. CASE i # 0
      <4>1. i - 1 \in 0 .. k - 1
        BY <3>2
      <4> QED BY <2>3, <3>2, <4>1
    <3> QED BY <3>1, <3>2
  <2>5. h = [i \in 0 .. k |-> IF i = 0 THEN NoTrail ELSE C(h[i - 1], i)]
    <3>1. h = [i \in 0 .. k |-> h[i]]
      OBVIOUS
    <3> HIDE DEF h
    <3> QED BY <2>4, <3>1
  <2> HIDE DEF h
  <2>6. T(h, k)
    BY <2>5 DEF Trailing, C
  <2> QED BY <2>6
<1> HIDE DEF G
<1>3. n \in G
  BY <1>1, <1>2, Climb
<1> QED BY <1>3 DEF G

\* What a check does to a trail with the fields of a trail.
Trails == [highest : SUBSET Int, stop : SUBSET Int, sold : BOOLEAN]

Checked(t, u, high, stop, loss, atr, price) ==
    /\ u \in Trails /\ u.highest = {high} /\ u.stop = {stop}
    /\ loss \in Int /\ high >= price
    /\ stop = IF loss <= 100 * high - 200 * atr THEN 100 * high - 200 * atr ELSE loss
    /\ \/ t.highest = {} /\ high = price
       \/ \E h \in t.highest : high = IF h <= price THEN price ELSE h
    /\ u.sold <=> (stop # 0 /\ 100 * price <= stop)

LEMMA CheckIs ==
    ASSUME NEW t \in Trails, NEW limits, NEW avg \in Int, NEW atr \in Int, NEW price \in Int,
           t.highest = {} \/ \E h \in Int : t.highest = {h}
    PROVE  \E high \in Int, stop \in Int :
              Checked(t, CheckTrailingStop(t, limits, avg, price, atr), high, stop,
                      StopLossPrice(limits, avg, atr), atr, price)
<1> DEFINE loss == StopLossPrice(limits, avg, atr)
           high == Max(t.highest \cup {price})
           stop == Max({loss, 100 * high - 200 * atr})
           sold == \E x \in {stop} : x # 0 /\ 100 * price <= x
           u == CheckTrailingStop(t, limits, avg, price, atr)
<1>1. loss \in Int
  BY DEF StopLossPrice
<1>2. /\ high \in Int /\ high >= price
      /\ (t.highest = {} /\ high = price) \/ \E h \in t.highest : high = IF h <= price THEN price ELSE h
  <2>1. CASE t.highest = {}
    <3>1. t.highest \cup {price} = {price, price}
      BY <2>1
    <3>2. high = price
      BY <3>1, GreatestOfTwo
    <3> QED BY <2>1, <3>2
  <2>2. ASSUME NEW h \in Int, t.highest = {h}
        PROVE  high = (IF h <= price THEN price ELSE h) /\ h \in t.highest
    <3>1. t.highest \cup {price} = {h, price}
      BY <2>2
    <3> QED BY <2>2, <3>1, GreatestOfTwo
  <2> HIDE DEF high
  <2>3. ASSUME NEW h \in Int, t.highest = {h}
        PROVE  high \in Int /\ high >= price /\ \E y \in t.highest : high = IF y <= price THEN price ELSE y
    BY <2>2, <2>3
  <2>4. CASE t.highest # {}
    <3>1. PICK h \in Int : t.highest = {h}
      BY <2>4
    <3> QED BY <2>3, <3>1
  <2> QED BY <2>1, <2>4 DEF high
<1> HIDE DEF high
<1>3. stop \in Int /\ stop = IF loss <= 100 * high - 200 * atr THEN 100 * high - 200 * atr ELSE loss
  <2>1. 100 * high - 200 * atr \in Int
    BY <1>2
  <2> QED BY <1>1, <2>1, GreatestOfTwo
<1>4. u = [t EXCEPT !.highest = {high}, !.stop = {stop}, !.sold = sold]
  <2> DEFINE w == UpdateTrailingStop(t, limits, avg, price, atr)
  <2>1. w = [t EXCEPT !.highest = {high}, !.stop = {stop}]
    BY DEF UpdateTrailingStop, high
  <2>2. w.stop = {stop}
    BY <2>1 DEF Trails
  <2>3. u = [w EXCEPT !.sold = \E x \in w.stop : x # 0 /\ 100 * price <= x]
    BY DEF CheckTrailingStop
  <2> HIDE DEF w, stop
  <2> QED BY <2>1, <2>2, <2>3 DEF Trails
<1> HIDE DEF stop, u, loss
<1>5. sold \in BOOLEAN /\ (sold <=> (stop # 0 /\ 100 * price <= stop))
  OBVIOUS
<1> HIDE DEF sold
<1>6. u \in Trails /\ u.highest = {high} /\ u.stop = {stop} /\ u.sold = sold
  BY <1>2, <1>3, <1>4, <1>5 DEF Trails
<1>7. Checked(t, u, high, stop, loss, atr, price)
  BY <1>1, <1>2, <1>3, <1>5, <1>6 DEF Checked
<1> QED BY <1>2, <1>3, <1>7 DEF u, loss

\* After i prices the highest is one of them and none is higher, and the stop follows from it.
Trailed(t, limits, avg, atr, prices, i) ==
    \E high \in Int, stop \in Int :
        /\ t.highest = {high} /\ t.stop = {stop}
        /\ \E j \in 1 .. i : high = prices[j]
        /\ \A j \in 1 .. i : prices[j] <= high
        /\ stop = IF StopLossPrice(limits, avg, atr) <= 100 * high - 200 * atr
                  THEN 100 * high - 200 * atr ELSE StopLossPrice(limits, avg, atr)
        /\ t.sold <=> (stop # 0 /\ 100 * prices[i] <= stop)

LEMMA TrailIs ==
    ASSUME NEW n \in Nat, NEW limits, NEW avg \in Int, NEW atr \in Int,
           NEW prices \in [1 .. n -> Int], NEW g, Trailing(g, limits, avg, atr, prices, n)
    PROVE  \A i \in 1 .. n : Trailed(g[i], limits, avg, atr, prices, i)
<1> DEFINE T(i) == Trailed(g[i], limits, avg, atr, prices, i)
           G == {i \in 0 .. n : g[i] \in Trails /\ IF i = 0 THEN g[i].highest = {} ELSE T(i)}
<1>1. /\ g[0] = NoTrail
      /\ \A i \in 1 .. n : g[i] = CheckTrailingStop(g[i - 1], limits, avg, prices[i], atr)
  BY DEF Trailing
<1>2. 0 \in G
  <2>1. NoTrail \in Trails /\ NoTrail.highest = {}
    BY DEF NoTrail, Trails
  <2>2. 0 \in 0 .. n
    OBVIOUS
  <2> QED BY <1>1, <2>1, <2>2
<1>3. ASSUME NEW i \in 1 .. n, i - 1 \in G PROVE i \in G
  <2> DEFINE t == g[i - 1]
             u == g[i]
             price == prices[i]
             loss == StopLossPrice(limits, avg, atr)
  <2>1. price \in Int /\ u = CheckTrailingStop(t, limits, avg, price, atr) /\ t \in Trails
    BY <1>1, <1>3
  <2>2. i - 1 # 0 => T(i - 1)
    BY <1>3
  <2>3. i - 1 = 0 => t.highest = {}
    BY <1>3
  <2>4. t.highest = {} \/ \E h \in Int : t.highest = {h}
    BY <2>2, <2>3 DEF Trailed
  <2> HIDE DEF t, u, price, T, G
  <2>5. PICK high \in Int, stop \in Int : Checked(t, u, high, stop, loss, atr, price)
    BY <2>1, <2>4, CheckIs
  <2>6. (\E j \in 1 .. i : high = prices[j]) /\ \A j \in 1 .. i : prices[j] <= high
    <3>1. CASE i - 1 = 0
      <4>1. 1 .. i = {i} /\ high = price
        BY <2>3, <2>5, <3>1 DEF Checked
      <4> QED BY <4>1 DEF price
    <3>2. CASE i - 1 # 0
      <4>1. PICK old \in Int : /\ t.highest = {old}
                               /\ \E j \in 1 .. i - 1 : old = prices[j]
                               /\ \A j \in 1 .. i - 1 : prices[j] <= old
        BY <2>2, <3>2 DEF T, Trailed, t
      <4>2. high = IF old <= price THEN price ELSE old
        BY <2>5, <4>1 DEF Checked
      <4>3. \A j \in 1 .. i : j \in 1 .. i - 1 \/ j = i
        OBVIOUS
      <4>4. \A j \in 1 .. i - 1 : j \in 1 .. i
        OBVIOUS
      <4>5. \A j \in 1 .. i : prices[j] \in Int
        OBVIOUS
      <4>6. \A j \in 1 .. i : prices[j] <= high
        BY <2>1, <4>1, <4>2, <4>3, <4>5 DEF price
      <4>7. \E j \in 1 .. i : high = prices[j]
        <5>1. CASE old <= price
          BY <4>2, <5>1 DEF price
        <5>2. CASE ~(old <= price)
          BY <4>1, <4>2, <4>4, <5>2
        <5> QED BY <5>1, <5>2
      <4> QED BY <4>6, <4>7
    <3> QED BY <3>1, <3>2
  <2>7. T(i)
    BY <2>5, <2>6, ZenonT(40) DEF T, Trailed, Checked, u, price
  <2>8. i # 0 /\ i \in 0 .. n
    OBVIOUS
  <2> QED BY <2>5, <2>7, <2>8 DEF G, Checked, u
<1> HIDE DEF G
<1>4. \A i \in 0 .. n : i \in G
  BY <1>2, <1>3, Climb
<1> QED BY <1>4 DEF G

LEMMA SellsWhen ==
    ASSUME NEW loss \in Int, NEW high \in Int, NEW atr \in Nat, NEW price \in Nat \ {0}, NEW stop \in Int,
           stop = IF loss <= 100 * high - 200 * atr THEN 100 * high - 200 * atr ELSE loss
    PROVE  (stop # 0 /\ 100 * price <= stop) <=> (100 * price <= loss \/ high - price >= 2 * atr)
<1>1. CASE loss <= 100 * high - 200 * atr
  <2>1. stop = 100 * high - 200 * atr
    BY <1>1
  <2> QED BY <1>1, <2>1
<1>2. CASE ~(loss <= 100 * high - 200 * atr)
  <2>1. stop = loss
    BY <1>2
  <2> QED BY <1>2, <2>1
<1> QED BY <1>1, <1>2

LEMMA StopGrows ==
    ASSUME NEW loss \in Int, NEW atr \in Int, NEW low \in Int, NEW high \in Int, low <= high,
           NEW a, a = IF loss <= 100 * low - 200 * atr THEN 100 * low - 200 * atr ELSE loss,
           NEW b, b = IF loss <= 100 * high - 200 * atr THEN 100 * high - 200 * atr ELSE loss
    PROVE  a <= b
<1>1. CASE loss <= 100 * low - 200 * atr
  <2>1. loss <= 100 * high - 200 * atr
    BY <1>1
  <2> QED BY <1>1, <2>1
<1>2. CASE ~(loss <= 100 * low - 200 * atr)
  <2>1. a = loss
    BY <1>2
  <2> QED BY <2>1
<1> QED BY <1>1, <1>2

\* Along any prices a trailing stop never falls, it sells exactly at two ATR below the highest
\* price so far or at the first stop, and the partial profits are those of the fixed target.
\* (update_trailing_stop, check_trailing_stop, partial take profit of the risk manager.)
THEOREM TrailingHoldsAlways ==
    ASSUME NEW limits \in [byAtr : BOOLEAN], NEW avg \in Nat, NEW atr \in Nat,
           NEW prices \in Seq(Nat \ {0})
    PROVE  TrailingHolds(limits, avg, atr, prices)
<1> DEFINE n == Len(prices)
           loss == StopLossPrice(limits, avg, atr)
           after == TrailAlong(limits, avg, atr, prices)
<1>1. n \in Nat /\ DOMAIN prices = 1 .. n /\ prices \in [1 .. n -> Int] /\ loss \in Int
      /\ avg \in Int /\ atr \in Int /\ \A i \in 1 .. n : prices[i] \in Nat \ {0}
  BY DEF StopLossPrice
<1>2. Trailing(after, limits, avg, atr, prices, n)
  <2>1. \E g : Trailing(g, limits, avg, atr, prices, n)
    BY <1>1, TrailExists
  <2>2. after = CHOOSE g : Trailing(g, limits, avg, atr, prices, n)
    BY DEF TrailAlong, Trailing
  <2> HIDE DEF after
  <2> QED BY <2>1, <2>2
<1> HIDE DEF after, n, loss
<1>3. \A i \in 1 .. n : Trailed(after[i], limits, avg, atr, prices, i)
  BY <1>1, <1>2, TrailIs
<1>4. ASSUME NEW i \in 1 .. n, NEW j \in 1 .. n, i < j, NEW a \in after[i].stop, NEW b \in after[j].stop
      PROVE  a <= b
  <2>1. Trailed(after[i], limits, avg, atr, prices, i) /\ Trailed(after[j], limits, avg, atr, prices, j)
    BY <1>3
  <2>2. PICK high \in Int, stop \in Int :
          /\ after[i].stop = {stop} /\ (\E k \in 1 .. i : high = prices[k])
          /\ stop = IF loss <= 100 * high - 200 * atr THEN 100 * high - 200 * atr ELSE loss
    BY <2>1, Zenon DEF Trailed, loss
  <2>3. PICK high2 \in Int, stop2 \in Int :
          /\ after[j].stop = {stop2} /\ (\A k \in 1 .. j : prices[k] <= high2)
          /\ stop2 = IF loss <= 100 * high2 - 200 * atr THEN 100 * high2 - 200 * atr ELSE loss
    BY <2>1, Zenon DEF Trailed, loss
  <2>4. a = stop /\ b = stop2
    BY <1>4, <2>2, <2>3
  <2>5. PICK k \in 1 .. i : high = prices[k]
    BY <2>2
  <2>6. k \in 1 .. j
    BY <1>4
  <2>7. high <= high2
    BY <2>3, <2>5, <2>6
  <2>8. stop <= stop2
    BY <1>1, <2>2, <2>3, <2>7, StopGrows
  <2> QED BY <2>4, <2>8
<1>5. ASSUME NEW i \in 1 .. n
      PROVE  after[i].sold <=> 100 * prices[i] <= loss \/ \E j \in 1 .. i : prices[j] - prices[i] >= 2 * atr
  <2>0. Trailed(after[i], limits, avg, atr, prices, i)
    BY <1>3
  <2>1. PICK high \in Int, stop \in Int :
          /\ (\E k \in 1 .. i : high = prices[k]) /\ (\A k \in 1 .. i : prices[k] <= high)
          /\ stop = IF loss <= 100 * high - 200 * atr THEN 100 * high - 200 * atr ELSE loss
          /\ after[i].sold <=> (stop # 0 /\ 100 * prices[i] <= stop)
    BY <2>0, Zenon DEF Trailed, loss
  <2>2. \A k \in 1 .. i : prices[k] \in Nat \ {0}
    BY <1>1
  <2>3. (\E j \in 1 .. i : prices[j] - prices[i] >= 2 * atr) <=> high - prices[i] >= 2 * atr
    <3>1. PICK k \in 1 .. i : high = prices[k]
      BY <2>1
    <3>2. high - prices[i] >= 2 * atr => \E j \in 1 .. i : prices[j] - prices[i] >= 2 * atr
      BY <3>1, Zenon
    <3>3. ASSUME NEW j \in 1 .. i, prices[j] - prices[i] >= 2 * atr PROVE high - prices[i] >= 2 * atr
      <4> DEFINE p == prices[j]
                 q == prices[i]
      <4>1. p \in Int /\ q \in Int /\ 2 * atr \in Int /\ p <= high /\ p - q >= 2 * atr
        BY <1>1, <2>1, <2>2, <3>3
      <4> HIDE DEF p, q
      <4>2. high - q >= 2 * atr
        BY <4>1
      <4> QED BY <4>2 DEF q
    <3> QED BY <3>2, <3>3
  <2> DEFINE price == prices[i]
  <2>4. price \in Nat \ {0}
    BY <1>1
  <2>5. (stop # 0 /\ 100 * price <= stop) <=> (100 * price <= loss \/ high - price >= 2 * atr)
    BY <1>1, <2>1, <2>4, SellsWhen, SMTT(30)
  <2> QED BY <2>1, <2>3, <2>5
<1>6. ASSUME NEW i \in 1 .. n
      PROVE  LET sold == PartialTakeProfit(avg, prices[i])
             IN /\ sold = 100 <=> 100 * prices[i] >= TakeProfitPrice([byAtr |-> FALSE], avg, atr)
                /\ 100 * prices[i] <= StopLossPrice([byAtr |-> FALSE], avg, atr) => sold = 0
  <2> DEFINE price == prices[i]
             sold == PartialTakeProfit(avg, price)
  <2>1. price \in Nat \ {0}
    BY <1>1
  <2>2. TakeProfitPrice([byAtr |-> FALSE], avg, atr) = 110 * avg /\ StopLossPrice([byAtr |-> FALSE], avg, atr) = 95 * avg
    BY DEF TakeProfitPrice, StopLossPrice
  <2> HIDE DEF price
  <2>3. CASE 100 * (price - avg) >= 10 * avg
    <3>1. sold = 100
      BY <2>1, <2>3 DEF PartialTakeProfit
    <3>2. 100 * price >= 110 * avg /\ ~(100 * price <= 95 * avg)
      BY <2>1, <2>3
    <3> QED BY <2>2, <3>1, <3>2 DEF price
  <2>4. CASE 100 * (price - avg) >= 5 * avg /\ 100 * (price - avg) < 10 * avg
    <3>1. sold = 50
      BY <2>1, <2>4 DEF PartialTakeProfit
    <3>2. ~(100 * price >= 110 * avg) /\ ~(100 * price <= 95 * avg)
      BY <2>1, <2>4
    <3> QED BY <2>2, <3>1, <3>2 DEF price
  <2>5. CASE 100 * (price - avg) < 5 * avg
    <3>1. sold = 0
      BY <2>1, <2>5 DEF PartialTakeProfit
    <3>2. ~(100 * price >= 110 * avg)
      BY <2>1, <2>5
    <3> QED BY <2>2, <3>1, <3>2 DEF price
  <2> QED BY <2>1, <2>3, <2>4, <2>5
<1>7. \A i, j \in DOMAIN prices : i < j => \A a \in after[i].stop, b \in after[j].stop : a <= b
  BY <1>1, <1>4
<1>8. \A i \in DOMAIN prices :
         after[i].sold <=> 100 * prices[i] <= loss \/ \E j \in 1 .. i : prices[j] - prices[i] >= 2 * atr
  BY <1>1, <1>5, Zenon
<1>9. \A i \in DOMAIN prices :
         LET sold == PartialTakeProfit(avg, prices[i])
         IN /\ sold = 100 <=> 100 * prices[i] >= TakeProfitPrice([byAtr |-> FALSE], avg, atr)
            /\ 100 * prices[i] <= StopLossPrice([byAtr |-> FALSE], avg, atr) => sold = 0
  BY <1>1, <1>6, Zenon
<1> QED BY <1>7, <1>8, <1>9, Zenon DEF TrailingHolds, loss, after

-----------------------------------------------------------------------------
(* The best of a batch.                                                    *)

\* A grade is zero or the points of a step.
LEMMA GradeInt ==
    ASSUME NEW x \in Int, NEW steps \in [1 .. 3 -> Int \X Int]
    PROVE  Grade(x, steps) \in Int
<1> DEFINE met == {i \in 1 .. 3 : x <= steps[i][1]}
<1>1. Grade(x, steps) = IF met = {} THEN 0 ELSE steps[Min(met)][2]
  BY DEF Grade
<1>2. CASE met = {}
  BY <1>1, <1>2
<1>3. CASE met # {}
  <2>1. PICK k \in 1 .. 3 : x <= steps[k][1]
    BY <1>3
  <2>2. PICK i \in 1 .. k : Grade(x, steps) = steps[i][2]
    BY <2>1, GradeIs
  <2>3. i \in 1 .. 3
    BY <2>1, <2>2
  <2>4. steps[i] \in Int \X Int
    BY <2>3
  <2> QED BY <2>2, <2>4
<1> QED BY <1>2, <1>3

LEMMA ScoreInt ==
    ASSUME NEW s \in Summaries
    PROVE  CalculateScore(s) \in Int
<1> DEFINE regime == [trending_up |-> 25, ranging |-> 15, volatile |-> 5, trending_down |-> 0, unknown |-> 10]
           strength == [strong |-> 25, moderate |-> 18, weak |-> 8, none |-> 0]
           off == Abs(Default(s.rsi, 5000) - 5000)
           volume == 0 - Default(s.volume, 0)
           byRsi == <<<<1000, 25>>, <<2000, 18>>, <<3000, 10>>>>
           byAtr == <<<<20, 12>>, <<30, 8>>, <<40, 4>>>>
           byVolume == <<<<-200, 13>>, <<-150, 10>>, <<-100, 6>>>>
<1>1. CalculateScore(s) = regime[s.regime] + strength[s.strength]
                          + (IF s.rsi = {} THEN 12 ELSE Grade(off, byRsi)) + Grade(s.atr, byAtr)
                          + (IF s.volume = {} THEN 6 ELSE Grade(volume, byVolume))
  BY DEF CalculateScore
<1>2. regime[s.regime] \in Int /\ strength[s.strength] \in Int
  BY DEF Summaries
<1>3. s.atr \in Int /\ s.rsi \in Reading(Nat) /\ s.volume \in Reading(Nat)
  BY DEF Summaries
<1>4. Default(s.rsi, 5000) \in Int /\ Default(s.volume, 0) \in Int
  <2>1. Nat \in SUBSET Int /\ Nat \subseteq Int
    OBVIOUS
  <2> QED BY <1>3, <2>1, DefaultIs
<1>5. off \in Int /\ volume \in Int
  <2> DEFINE x == Default(s.rsi, 5000) - 5000
  <2>1. x \in Int /\ 0 - x \in Int
    BY <1>4
  <2> HIDE DEF x
  <2>2. Max({x, 0 - x}) \in Int
    BY <2>1, GreatestOfTwo
  <2> QED BY <1>4, <2>2 DEF Abs, x
<1>6. byRsi \in [1 .. 3 -> Int \X Int] /\ byAtr \in [1 .. 3 -> Int \X Int] /\ byVolume \in [1 .. 3 -> Int \X Int]
  OBVIOUS
<1> HIDE DEF regime, strength, off, volume, byRsi, byAtr, byVolume
<1>7. Grade(off, byRsi) \in Int /\ Grade(s.atr, byAtr) \in Int /\ Grade(volume, byVolume) \in Int
  BY <1>3, <1>5, <1>6, GradeInt
<1> QED BY <1>1, <1>2, <1>7

\* Those ahead of each of a finite set of positions, in a strict order without ties.
Strict(P, A) ==
    /\ A \in [P -> SUBSET P]
    /\ \A k \in P : k \notin A[k]
    /\ \A j, k \in P : j # k => j \in A[k] \/ k \in A[j]
    /\ \A j, k \in P : j \in A[k] => A[j] \subseteq A[k]

LEMMA RankGrows ==
    ASSUME NEW P, IsFiniteSet(P), NEW A, Strict(P, A), NEW j \in P, NEW k \in P, j \in A[k]
    PROVE  Cardinality(A[j]) < Cardinality(A[k])
<1>1. A[j] \subseteq A[k] /\ j \notin A[j] /\ A[j] # A[k] /\ A[k] \in SUBSET P /\ A[j] \in SUBSET P
  BY DEF Strict
<1>2. IsFiniteSet(A[k]) /\ IsFiniteSet(A[j])
  BY <1>1, FS_Subset
<1>3. Cardinality(A[j]) \in Nat /\ Cardinality(A[k]) \in Nat
  BY <1>2, FS_CardinalityType
<1>4. Cardinality(A[j]) <= Cardinality(A[k]) /\ (Cardinality(A[j]) = Cardinality(A[k]) => A[j] = A[k])
  BY <1>1, <1>2, FS_Subset
<1> QED BY <1>1, <1>3, <1>4

\* Every rank below their number is that of exactly one of them.
LEMMA RankOf ==
    ASSUME NEW P, IsFiniteSet(P), NEW A, Strict(P, A)
    PROVE  /\ \A k \in P : Cardinality(A[k]) \in 0 .. Cardinality(P) - 1
           /\ \A j, k \in P : Cardinality(A[j]) = Cardinality(A[k]) => j = k
           /\ \A r \in 0 .. Cardinality(P) - 1 : \E k \in P : Cardinality(A[k]) = r
<1> DEFINE n == Cardinality(P)
           f == [k \in P |-> Cardinality(A[k])]
<1>0. n \in Nat
  BY FS_CardinalityType
<1>1. ASSUME NEW k \in P PROVE Cardinality(A[k]) \in 0 .. n - 1
  <2>1. A[k] \in SUBSET P /\ k \notin A[k]
    BY DEF Strict
  <2>2. A[k] \subseteq P \ {k} /\ IsFiniteSet(P \ {k}) /\ Cardinality(P \ {k}) = n - 1
    BY <2>1, FS_RemoveElement
  <2>3. Cardinality(A[k]) <= n - 1 /\ IsFiniteSet(A[k])
    BY <2>2, FS_Subset
  <2>4. Cardinality(A[k]) \in Nat
    BY <2>3, FS_CardinalityType
  <2> QED BY <1>0, <2>3, <2>4
<1>2. ASSUME NEW j \in P, NEW k \in P, j # k PROVE Cardinality(A[j]) # Cardinality(A[k])
  <2>1. j \in A[k] \/ k \in A[j]
    BY <1>2 DEF Strict
  <2>2. Cardinality(A[j]) \in Int /\ Cardinality(A[k]) \in Int
    BY <1>1
  <2> QED BY <2>1, <2>2, RankGrows
<1>3. IsFiniteSet(0 .. n - 1) /\ Cardinality(0 .. n - 1) = n
  <2>1. IsFiniteSet(0 .. n - 1) /\ Cardinality(0 .. n - 1) = IF 0 > n - 1 THEN 0 ELSE (n - 1) - 0 + 1
    BY <1>0, FS_Interval
  <2> QED BY <1>0, <2>1
<1>4. f \in Injection(P, 0 .. n - 1)
  BY <1>1, <1>2 DEF Injection, IsInjective
<1>5. f \in Surjection(P, 0 .. n - 1)
  <2> HIDE DEF f
  <2> QED BY <1>3, <1>4, FS_Injection
<1>6. \A r \in 0 .. n - 1 : \E k \in P : Cardinality(A[k]) = r
  BY <1>5 DEF Surjection
<1> QED BY <1>1, <1>2, <1>6

\* For every batch of summaries and every limit the filter returns the best that pass, best
\* first.  (BreakoutFilter.filter_batch.)
THEOREM BatchOrderedAlways ==
    ASSUME NEW summaries \in Seq(Summaries), NEW limit \in Nat \ {0}
    PROVE  BatchOrdered(summaries, limit)
<1> DEFINE n == Len(summaries)
           P == {k \in DOMAIN summaries : FilterVerdict(summaries[k]) = "passed"}
           ahead(k) == {j \in P : Before(summaries, j, k)}
           A == [k \in P |-> ahead(k)]
           c == Cardinality(P)
           len == Min({limit, c})
           at(i) == CHOOSE k \in P : Cardinality(A[k]) = i - 1
           score(k) == CalculateScore(summaries[k])
           best == FilterBatch(summaries, limit)
<1>1. n \in Nat /\ DOMAIN summaries = 1 .. n /\ P \subseteq 1 .. n /\ \A k \in P : k \in Int /\ k \in DOMAIN summaries
  OBVIOUS
<1>2. \A k \in DOMAIN summaries : score(k) \in Int
  BY ScoreInt
<1>3. \A j, k \in P : j \in A[k] <=> score(j) > score(k) \/ (score(j) = score(k) /\ j < k)
  BY DEF Before
<1>4. Strict(P, A)
  <2>1. A \in [P -> SUBSET P]
    OBVIOUS
  <2> HIDE DEF A, score
  <2>2. \A k \in P : k \notin A[k]
    BY <1>1, <1>2, <1>3
  <2>3. \A j, k \in P : j # k => j \in A[k] \/ k \in A[j]
    BY <1>1, <1>2, <1>3
  <2>4. ASSUME NEW j \in P, NEW k \in P, j \in A[k], NEW i \in A[j] PROVE i \in A[k]
    <3>1. i \in P
      BY <2>1
    <3> QED BY <1>1, <1>2, <1>3, <2>4, <3>1
  <2> HIDE DEF P
  <2> QED BY <2>1, <2>2, <2>3, <2>4 DEF Strict
<1>5. IsFiniteSet(P) /\ c \in Nat
  <2>1. IsFiniteSet(1 .. n)
    BY <1>1, IntervalFinite
  <2>2. IsFiniteSet(P)
    BY <1>1, <2>1, FS_Subset
  <2> QED BY <2>2, FS_CardinalityType
<1>6. len = IF limit <= c THEN limit ELSE c
  BY <1>5, LeastOfTwo
<1>7. best = [i \in 1 .. len |-> summaries[at(i)]]
  <2> DEFINE with(i) == CHOOSE k \in P : Cardinality(ahead(k)) = i - 1
  <2>1. \A i : at(i) = with(i)
    OBVIOUS
  <2>2. best = [i \in 1 .. len |-> summaries[with(i)]]
    BY DEF FilterBatch
  <2> HIDE DEF best, len, at, with
  <2> QED BY <2>1, <2>2
<1> HIDE DEF A, P, c, len, best, score
<1>8. ASSUME NEW i \in 1 .. len PROVE at(i) \in P /\ Cardinality(A[at(i)]) = i - 1
  <2>1. i - 1 \in 0 .. c - 1
    BY <1>5, <1>6
  <2>2. \E k \in P : Cardinality(A[k]) = i - 1
    BY <1>4, <1>5, <2>1, RankOf DEF c
  <2> QED BY <2>2
<1> HIDE DEF at
<1>9. DOMAIN best = 1 .. len /\ \A i \in 1 .. len : best[i] = summaries[at(i)]
  BY <1>7
<1>10. \A j, k \in P : Cardinality(A[j]) < Cardinality(A[k]) => score(j) >= score(k)
  <2> TAKE j, k \in P
  <2>1. ASSUME Cardinality(A[j]) < Cardinality(A[k]) PROVE score(j) >= score(k)
    <3>1. Cardinality(A[j]) \in Int /\ Cardinality(A[k]) \in Int
      BY <1>4, <1>5, RankOf
    <3>2. k \notin A[j]
      BY <1>4, <1>5, <2>1, <3>1, RankGrows
    <3>3. score(j) \in Int /\ score(k) \in Int
      BY <1>1, <1>2
    <3> QED BY <1>3, <3>2, <3>3, <1>4, <2>1 DEF Strict
  <2> QED BY <2>1
<1>11. ASSUME NEW i \in DOMAIN best, NEW j \in DOMAIN best, i < j
       PROVE  CalculateScore(best[i]) >= CalculateScore(best[j])
  <2>1. i \in 1 .. len /\ j \in 1 .. len /\ len \in Int
    BY <1>5, <1>6, <1>9
  <2>2. /\ at(i) \in P /\ at(j) \in P
        /\ Cardinality(A[at(i)]) < Cardinality(A[at(j)])
    BY <1>8, <1>11, <2>1
  <2> QED BY <1>9, <1>10, <2>1, <2>2 DEF score
<1>12. ASSUME NEW k \in DOMAIN summaries, FilterVerdict(summaries[k]) = "passed"
       PROVE  \/ summaries[k] \in {best[i] : i \in DOMAIN best}
              \/ Len(best) = limit /\ CalculateScore(summaries[k]) <= CalculateScore(best[limit])
  <2> DEFINE r == Cardinality(A[k])
  <2>1. k \in P
    BY <1>12 DEF P
  <2>2. r \in 0 .. c - 1
    BY <1>4, <1>5, <2>1, RankOf DEF c
  <2>3. CASE r + 1 <= len
    <3>1. r + 1 \in 1 .. len
      BY <1>5, <1>6, <2>2, <2>3
    <3>2. at(r + 1) \in P /\ Cardinality(A[at(r + 1)]) = r
      BY <1>8, <2>2, <3>1
    <3>3. at(r + 1) = k
      BY <1>4, <1>5, <2>1, <3>2, RankOf
    <3> QED BY <1>9, <3>1, <3>3
  <2>4. CASE r + 1 > len
    <3>1. len = limit /\ limit \in 1 .. len /\ r >= limit
      BY <1>5, <1>6, <2>2, <2>4
    <3>2. at(limit) \in P /\ Cardinality(A[at(limit)]) < r
      <4>1. at(limit) \in P /\ Cardinality(A[at(limit)]) = limit - 1
        BY <1>8, <3>1
      <4> QED BY <2>2, <3>1, <4>1
    <3>3. score(at(limit)) >= score(k)
      BY <1>10, <2>1, <3>2
    <3>4. score(at(limit)) \in Int /\ score(k) \in Int
      BY <1>1, <1>2, <2>1, <3>2
    <3>5. CalculateScore(summaries[k]) <= CalculateScore(best[limit])
      BY <1>9, <3>1, <3>3, <3>4 DEF score
    <3>6. Len(best) = limit
      <4>1. best \in Seq(Summaries)
        <5>1. ASSUME NEW i \in 1 .. len PROVE best[i] \in Summaries
          <6>1. at(i) \in 1 .. n
            BY <1>1, <1>8
          <6>2. summaries[at(i)] \in Summaries
            BY <6>1
          <6> QED BY <1>9, <6>2
        <5>2. best = [i \in 1 .. len |-> best[i]] /\ len \in Nat
          BY <1>5, <1>6, <1>7, <1>9
        <5> QED BY <5>1, <5>2
      <4> QED BY <1>9, <3>1, <4>1
    <3> QED BY <3>5, <3>6
  <2> QED BY <1>5, <1>6, <2>2, <2>3, <2>4
<1>13. \A i, j \in DOMAIN best : i < j => CalculateScore(best[i]) >= CalculateScore(best[j])
  BY <1>11
<1>14. \A k \in DOMAIN summaries : FilterVerdict(summaries[k]) = "passed" =>
           \/ summaries[k] \in {best[i] : i \in DOMAIN best}
           \/ Len(best) = limit /\ CalculateScore(summaries[k]) <= CalculateScore(best[limit])
  BY <1>12
<1> QED BY <1>13, <1>14 DEF BatchOrdered, best

-----------------------------------------------------------------------------
(* Quotients, extremes and sums.                                           *)

-----------------------------------------------------------------------------
(* Arithmetic.                                                             *)

\* What a division cuts off.
LEMMA DivIs ==
    ASSUME NEW a \in Int, NEW b \in Nat \ {0}
    PROVE  a \div b \in Int /\ b * (a \div b) <= a /\ a < b * (a \div b) + b
OBVIOUS

LEMMA TimesGrows ==
    ASSUME NEW a \in Int, NEW b \in Int, a <= b, NEW c \in Nat
    PROVE  a * c <= b * c /\ c * a <= c * b
<1>1. \A x, y \in Nat : x * y >= 0
  OBVIOUS
<1>2. b - a \in Nat /\ (b - a) * c = b * c - a * c
  OBVIOUS
<1>3. (b - a) * c >= 0
  BY <1>1, <1>2
<1> QED BY <1>2, <1>3

\* A division between two bounds.
LEMMA DivBetween ==
    ASSUME NEW a \in Int, NEW b \in Nat \ {0}, NEW q \in Int, b * q <= a, a < b * q + b
    PROVE  a \div b = q
<1> DEFINE p == a \div b
<1>1. p \in Int /\ b * p <= a /\ a < b * p + b
  BY DivIs
<1> HIDE DEF p
<1>2. CASE p < q
  <2>1. (p + 1) * b <= q * b
    BY <1>1, <1>2, TimesGrows
  <2>2. (p + 1) * b = b * p + b /\ q * b = b * q
    BY <1>1
  <2>3. b * p \in Int /\ b * q \in Int
    BY <1>1
  <2> QED BY <1>1, <2>1, <2>2, <2>3
<1>3. CASE q < p
  <2>1. (q + 1) * b <= p * b
    BY <1>1, <1>3, TimesGrows
  <2>2. (q + 1) * b = b * q + b /\ p * b = b * p
    BY <1>1
  <2>3. b * p \in Int /\ b * q \in Int
    BY <1>1
  <2> QED BY <1>1, <2>1, <2>2, <2>3
<1> QED BY <1>1, <1>2, <1>3 DEF p

LEMMA DivCancel ==
    ASSUME NEW a \in Int, NEW b \in Nat \ {0}, NEW c \in Nat \ {0}
    PROVE  (a * c) \div (b * c) = a \div b
<1> DEFINE q == a \div b
<1>1. q \in Int /\ b * q <= a /\ a + 1 <= b * q + b
  BY DivIs
<1> HIDE DEF q
<1>2. b * c \in Nat \ {0} /\ a * c \in Int
  <2>1. \A x, y \in Nat : x # 0 /\ y # 0 => x * y \in Nat /\ x * y # 0
    OBVIOUS
  <2> QED BY <2>1
<1>3. b * q \in Int /\ (b * q) * c <= a * c /\ (a + 1) * c <= (b * q + b) * c
  BY <1>1, TimesGrows
<1>4. (b * q) * c = (b * c) * q /\ (b * q + b) * c = (b * c) * q + b * c /\ (a + 1) * c = a * c + c
  BY <1>1
<1>5. (b * c) * q \in Int
  BY <1>1, <1>2
<1>6. (b * c) * q <= a * c /\ a * c < (b * c) * q + b * c
  BY <1>2, <1>3, <1>4, <1>5
<1> HIDE DEF q
<1> QED BY <1>1, <1>2, <1>6, DivBetween DEF q

\* A larger fraction is not cut off to less.
LEMMA DivGrows ==
    ASSUME NEW a \in Int, NEW b \in Nat \ {0}, NEW c \in Int, NEW d \in Nat \ {0}, a * d <= c * b
    PROVE  a \div b <= c \div d
<1> DEFINE p == a \div b
           q == c \div d
<1>1. p \in Int /\ b * p <= a
  BY DivIs
<1>2. q \in Int /\ c < d * q + d
  BY DivIs
<1> HIDE DEF p, q
<1>3. ASSUME q < p PROVE FALSE
  <2>1. (b * p) * d <= a * d
    <3>1. b * p \in Int
      BY <1>1
    <3> QED BY <1>1, <3>1, TimesGrows
  <2>2. (d * b) * (q + 1) <= (d * b) * p
    <3>1. d * b \in Nat
      BY TimesGrows
    <3> QED BY <1>1, <1>2, <1>3, <3>1, TimesGrows
  <2>3. (c + 1) * b <= (d * q + d) * b
    <3>1. d * q + d \in Int
      BY <1>2
    <3> QED BY <1>2, <3>1, TimesGrows
  <2>4. (b * p) * d = (d * b) * p /\ (d * q + d) * b = (d * b) * (q + 1) /\ (c + 1) * b = c * b + b
    BY <1>1, <1>2
  <2>5. (d * b) * p \in Int /\ (d * b) * (q + 1) \in Int /\ c * b \in Int /\ a * d \in Int
    BY <1>1, <1>2
  <2> QED BY <2>1, <2>2, <2>3, <2>4, <2>5
<1> QED BY <1>1, <1>2, <1>3 DEF p, q

\* Two shares of a whole, each cut off.
LEMMA FloorSum ==
    ASSUME NEW a \in Int, NEW b \in Int, NEW r \in Nat \ {0}, NEW h \in Int, a + b = h * r
    PROVE  (a \div r) + (b \div r) \in {h, h - 1}
<1> DEFINE p == a \div r
           q == b \div r
           t == h - (p + q)
<1>1. p \in Int /\ r * p <= a /\ a < r * p + r
  BY DivIs
<1>2. q \in Int /\ r * q <= b /\ b < r * q + r
  BY DivIs
<1> HIDE DEF p, q
<1>3. t \in Int /\ t * r = h * r - (r * p + r * q)
  BY <1>1, <1>2
<1>4. r * p \in Int /\ r * q \in Int /\ h * r \in Int /\ t * r \in Int
  BY <1>1, <1>2, <1>3
<1>5. 0 <= t * r /\ t * r < r + r
  BY <1>1, <1>2, <1>3, <1>4
<1>6. ~(t >= 2)
  <2>1. ASSUME t >= 2 PROVE 2 * r <= t * r
    BY <1>3, <2>1, TimesGrows
  <2> QED BY <1>4, <1>5, <2>1
<1>7. ~(t <= -1)
  <2>1. ASSUME t <= -1 PROVE t * r <= (-1) * r
    BY <1>3, <2>1, TimesGrows
  <2> QED BY <1>4, <1>5, <2>1
<1> QED BY <1>1, <1>2, <1>3, <1>6, <1>7 DEF p, q

LEMMA AbsIs ==
    ASSUME NEW x \in Int
    PROVE  Abs(x) = IF x < 0 THEN 0 - x ELSE x
<1>1. 0 - x \in Int
  OBVIOUS
<1> QED BY <1>1, GreatestOfTwo DEF Abs

\* A quotient by a positive number.
LEMMA QuotIs ==
    ASSUME NEW a \in Int, NEW b \in Nat \ {0}
    PROVE  /\ Quot(a, b) \in Int
           /\ a >= 0 => Quot(a, b) = a \div b
           /\ a < 0 => Quot(a, b) = 0 - (0 - a) \div b
<1>1. Abs(b) = b /\ Abs(a) = IF a < 0 THEN 0 - a ELSE a
  BY AbsIs
<1>2. a >= 0 => Quot(a, b) = a \div b
  BY <1>1 DEF Quot
<1>3. a < 0 => Quot(a, b) = 0 - (0 - a) \div b
  BY <1>1 DEF Quot
<1>4. a \div b \in Int /\ (0 - a) \div b \in Int
  BY DivIs
<1> QED BY <1>2, <1>3, <1>4

-----------------------------------------------------------------------------
(* The greatest and the least of finitely many.                            *)

LEMMA ImageFinite ==
    ASSUME NEW S, IsFiniteSet(S), NEW f, DOMAIN f = S, f = [x \in S |-> f[x]]
    PROVE  IsFiniteSet({f[x] : x \in S})
<1> DEFINE T == {f[x] : x \in S}
<1>1. f \in Surjection(S, T)
  BY DEF Surjection
<1> HIDE DEF T
<1>2. IsFiniteSet(T)
  BY <1>1, FS_Surjection
<1> QED BY <1>2 DEF T

LEMMA TopOf ==
    ASSUME NEW S \in SUBSET Int, IsFiniteSet(S), S # {}
    PROVE  Max(S) \in S /\ \A y \in S : Max(S) >= y
<1> DEFINE G == {s \in SUBSET S : s # {} => \E x \in s : \A y \in s : x >= y}
<1>1. ASSUME NEW s \in SUBSET S, \A x \in s : s \ {x} \in G PROVE s \in G
  <2> SUFFICES ASSUME NEW c \in s PROVE \E x \in s : \A y \in s : x >= y
    OBVIOUS
  <2>1. CASE s \ {c} = {}
    BY <2>1
  <2>2. CASE s \ {c} # {}
    <3>1. PICK x \in s \ {c} : \A y \in s \ {c} : x >= y
      BY <1>1, <2>2
    <3>2. x \in Int /\ c \in Int /\ \A y \in s : y \in Int
      BY <3>1
    <3>3. CASE x >= c
      BY <3>1, <3>3
    <3>4. CASE c > x
      <4>1. \A y \in s : c >= y
        BY <3>1, <3>2, <3>4
      <4> QED BY <4>1
    <3> QED BY <3>2, <3>3, <3>4
  <2> QED BY <2>1, <2>2
<1>2. \A s \in SUBSET S : s \in G
  <2> HIDE DEF G
  <2> QED BY <1>1, SetClimb
<1>3. \E x \in S : \A y \in S : x >= y
  BY <1>2
<1> QED BY <1>3 DEF Max

LEMMA BottomOf ==
    ASSUME NEW S \in SUBSET Int, IsFiniteSet(S), S # {}
    PROVE  Min(S) \in S /\ \A y \in S : Min(S) <= y
<1> DEFINE G == {s \in SUBSET S : s # {} => \E x \in s : \A y \in s : x <= y}
<1>1. ASSUME NEW s \in SUBSET S, \A x \in s : s \ {x} \in G PROVE s \in G
  <2> SUFFICES ASSUME NEW c \in s PROVE \E x \in s : \A y \in s : x <= y
    OBVIOUS
  <2>1. CASE s \ {c} = {}
    BY <2>1
  <2>2. CASE s \ {c} # {}
    <3>1. PICK x \in s \ {c} : \A y \in s \ {c} : x <= y
      BY <1>1, <2>2
    <3>2. x \in Int /\ c \in Int /\ \A y \in s : y \in Int
      BY <3>1
    <3>3. CASE x <= c
      BY <3>1, <3>3
    <3>4. CASE c < x
      <4>1. \A y \in s : c <= y
        BY <3>1, <3>2, <3>4
      <4> QED BY <4>1
    <3> QED BY <3>2, <3>3, <3>4
  <2> QED BY <2>1, <2>2
<1>2. \A s \in SUBSET S : s \in G
  <2> HIDE DEF G
  <2> QED BY <1>1, SetClimb
<1>3. \E x \in S : \A y \in S : x <= y
  BY <1>2
<1> QED BY <1>3 DEF Min

-----------------------------------------------------------------------------
(* Sums of runs.                                                           *)

LEMMA SumInt ==
    ASSUME NEW a \in Int, NEW b \in Int, NEW f \in [a .. b -> Int]
    PROVE  SumFunction(f) \in Int /\ (b < a => SumFunction(f) = 0)
<1>1. IsFiniteSet(a .. b) /\ (b < a => a .. b = {})
  BY IntervalFinite
<1> QED BY <1>1, SumWithout

\* Term by term.
LEMMA SumLe ==
    ASSUME NEW a \in Int, NEW b \in Int, NEW f \in [a .. b -> Int], NEW g \in [a .. b -> Int],
           \A j \in a .. b : f[j] <= g[j]
    PROVE  SumFunction(f) <= SumFunction(g)
<1>1. CASE b < a
  BY <1>1, SumInt
<1>2. CASE a <= b
  <2> DEFINE F == Running(a, b, f)
             H == Running(a, b, g)
             n == b - a + 1
             G == {i \in 0 .. n : F[a - 1 + i] <= H[a - 1 + i]}
  <2>0. a <= b + 1
    BY <1>2
  <2>1. /\ F \in [a - 1 .. b -> Int] /\ F[a - 1] = 0 /\ F[b] = SumFunction(f)
        /\ \A k \in a .. b : F[k] = F[k - 1] + f[k]
    <3>1. RunsUp(a, b, f, F)
      BY <2>0, SumRunsUp
    <3> QED BY <3>1 DEF RunsUp
  <2>2. /\ H \in [a - 1 .. b -> Int] /\ H[a - 1] = 0 /\ H[b] = SumFunction(g)
        /\ \A k \in a .. b : H[k] = H[k - 1] + g[k]
    <3>1. RunsUp(a, b, g, H)
      BY <2>0, SumRunsUp
    <3> QED BY <3>1 DEF RunsUp
  <2> HIDE DEF F, H
  <2>3. 0 \in G
    BY <1>2, <2>1, <2>2
  <2>4. ASSUME NEW i \in 1 .. n, i - 1 \in G PROVE i \in G
    <3> DEFINE k == a - 1 + i
    <3>1. k \in a .. b /\ k - 1 \in a - 1 .. b /\ k - 1 = a - 1 + (i - 1) /\ i \in 0 .. n
      BY <1>2
    <3>2. F[k - 1] <= H[k - 1]
      BY <2>4, <3>1
    <3> HIDE DEF k
    <3>3. F[k - 1] \in Int /\ H[k - 1] \in Int /\ f[k] \in Int /\ g[k] \in Int /\ f[k] <= g[k]
      BY <2>1, <2>2, <3>1
    <3>4. F[k] <= H[k]
      BY <2>1, <2>2, <3>1, <3>2, <3>3
    <3> QED BY <3>1, <3>4 DEF k
  <2>5. n \in G
    <3>1. n \in Nat
      BY <1>2
    <3> HIDE DEF G, n
    <3>2. \A i \in 0 .. n : i \in G
      BY <2>3, <2>4, <3>1, Climb
    <3> QED BY <3>1, <3>2
  <2>6. a - 1 + n = b
    OBVIOUS
  <2> QED BY <2>1, <2>2, <2>5, <2>6
<1> QED BY <1>1, <1>2

\* Of a constant.
LEMMA SumConst ==
    ASSUME NEW a \in Int, NEW b \in Int, a <= b + 1, NEW c \in Int
    PROVE  SumFunction([j \in a .. b |-> c]) = c * (b - a + 1)
<1> DEFINE f == [j \in a .. b |-> c]
           F == Running(a, b, f)
           n == b - a + 1
           G == {i \in 0 .. n : F[a - 1 + i] = c * i}
<1>1. f \in [a .. b -> Int] /\ \A k \in a .. b : f[k] = c
  OBVIOUS
<1> HIDE DEF f
<1>2. /\ F \in [a - 1 .. b -> Int] /\ F[a - 1] = 0 /\ F[b] = SumFunction(f)
      /\ \A k \in a .. b : F[k] = F[k - 1] + f[k]
  <2>1. RunsUp(a, b, f, F)
    BY <1>1, SumRunsUp
  <2> QED BY <2>1 DEF RunsUp
<1> HIDE DEF F
<1>3. 0 \in G
  BY <1>2
<1>4. ASSUME NEW i \in 1 .. n, i - 1 \in G PROVE i \in G
  <2> DEFINE k == a - 1 + i
  <2>1. k \in a .. b /\ k - 1 = a - 1 + (i - 1) /\ i \in 0 .. n /\ i \in Int
    OBVIOUS
  <2>2. F[k - 1] = c * (i - 1)
    BY <1>4, <2>1
  <2> HIDE DEF k
  <2>3. F[k] = c * (i - 1) + c
    BY <1>1, <1>2, <2>1, <2>2
  <2>4. c * (i - 1) + c = c * i
    BY <2>1
  <2> QED BY <2>1, <2>3, <2>4 DEF k
<1>5. n \in G
  <2>1. n \in Nat
    OBVIOUS
  <2> HIDE DEF G, n
  <2>2. \A i \in 0 .. n : i \in G
    BY <1>3, <1>4, <2>1, Climb
  <2> QED BY <2>1, <2>2
<1>6. a - 1 + n = b
  OBVIOUS
<1> HIDE DEF n
<1>7. SumFunction(f) = c * n
  BY <1>2, <1>5, <1>6
<1> QED BY <1>7 DEF f, n

LEMMA SumBetween ==
    ASSUME NEW a \in Int, NEW b \in Int, a <= b + 1, NEW f \in [a .. b -> Int], NEW lo \in Int, NEW hi \in Int,
           \A j \in a .. b : lo <= f[j] /\ f[j] <= hi
    PROVE  SumFunction(f) \in Int /\ lo * (b - a + 1) <= SumFunction(f) /\ SumFunction(f) <= hi * (b - a + 1)
<1> DEFINE l == [j \in a .. b |-> lo]
           h == [j \in a .. b |-> hi]
<1>1. l \in [a .. b -> Int] /\ h \in [a .. b -> Int] /\ \A j \in a .. b : l[j] <= f[j] /\ f[j] <= h[j]
  OBVIOUS
<1>2. SumFunction(l) = lo * (b - a + 1) /\ SumFunction(h) = hi * (b - a + 1)
  BY SumConst
<1> HIDE DEF l, h
<1>3. SumFunction(l) <= SumFunction(f) /\ SumFunction(f) <= SumFunction(h)
  BY <1>1, SumLe
<1> QED BY <1>2, <1>3, SumInt

-----------------------------------------------------------------------------
(* The indicators.                                                         *)

-----------------------------------------------------------------------------
(* The indicators.                                                         *)

LEMMA PeriodsAre ==
    /\ Period \in Nat \ {0} /\ StochD \in Nat \ {0} /\ BandPeriod \in Nat \ {0} /\ CciPeriod \in Nat \ {0}
    /\ RocPeriod \in Nat \ {0} /\ TrendBars \in Nat \ {0} /\ Lookback \in Nat \ {0} /\ BandPeriod > 1
    /\ BetaDays \in Nat \ {0, 1}
BY IndicatorsAssumption, RulesAssumption

\* The fields of the bars of a market.
LEMMA BarsAre ==
    ASSUME NEW d \in Seq(PriceBars)
    PROVE  /\ Len(d) \in Nat /\ DOMAIN d = 1 .. Len(d)
           /\ \A j \in 1 .. Len(d) :
                 /\ d[j].close \in Nat \ {0} /\ d[j].high \in Nat /\ d[j].low \in Nat /\ d[j].volume \in Nat
                 /\ d[j].low <= d[j].close /\ d[j].close <= d[j].high
<1>1. Len(d) \in Nat /\ DOMAIN d = 1 .. Len(d) /\ \A j \in 1 .. Len(d) : d[j] \in PriceBars
  OBVIOUS
<1> QED BY <1>1 DEF PriceBars

\* The range of the last bars.
LEMMA RangeIs ==
    ASSUME NEW d \in Seq(PriceBars), NEW period \in Nat \ {0}, NEW i \in 1 .. Len(d), period <= i
    PROVE  /\ Highest(d, period, i) \in Nat /\ Lowest(d, period, i) \in Nat
           /\ \A j \in i - period + 1 .. i : Lowest(d, period, i) <= d[j].low /\ d[j].high <= Highest(d, period, i)
           /\ \E j \in i - period + 1 .. i : Highest(d, period, i) = d[j].high
           /\ \E j \in i - period + 1 .. i : Lowest(d, period, i) = d[j].low
<1> DEFINE w == i - period + 1 .. i
           h == [j \in w |-> d[j].high]
           l == [j \in w |-> d[j].low]
<1>1. i - period + 1 \in Int /\ i \in Int /\ w \subseteq 1 .. Len(d) /\ i \in w
  BY BarsAre
<1>2. IsFiniteSet(w)
  BY <1>1, IntervalFinite
<1>3. h \in [w -> Nat] /\ l \in [w -> Nat]
  BY <1>1, BarsAre
<1>4. Highest(d, period, i) = Max({h[j] : j \in w}) /\ Lowest(d, period, i) = Min({l[j] : j \in w})
  <2>1. {h[j] : j \in w} = {d[j].high : j \in w} /\ {l[j] : j \in w} = {d[j].low : j \in w}
    OBVIOUS
  <2> QED BY <2>1 DEF Highest, Lowest
<1>5. (\A j \in w : h[j] = d[j].high /\ l[j] = d[j].low) /\ h = [j \in w |-> h[j]] /\ l = [j \in w |-> l[j]]
  OBVIOUS
<1> HIDE DEF h, l
<1>6. IsFiniteSet({h[j] : j \in w}) /\ IsFiniteSet({l[j] : j \in w})
  <2> HIDE DEF w
  <2> QED BY <1>2, <1>3, <1>5, ImageFinite
<1> DEFINE H == {h[j] : j \in w}
           L == {l[j] : j \in w}
<1>7. H \in SUBSET Int /\ L \in SUBSET Int /\ H # {} /\ L # {}
  BY <1>1, <1>3
<1>8. Max(H) \in H /\ (\A y \in H : Max(H) >= y) /\ Min(L) \in L /\ \A y \in L : Min(L) <= y
  <2> HIDE DEF H, L
  <2>1. IsFiniteSet(H) /\ IsFiniteSet(L)
    BY <1>6 DEF H, L
  <2> QED BY <1>7, <2>1, TopOf, BottomOf
<1>9. \E j \in w : Max(H) = d[j].high
  BY <1>5, <1>8
<1>10. \E j \in w : Min(L) = d[j].low
  BY <1>5, <1>8
<1>11. \A j \in w : Min(L) <= d[j].low /\ d[j].high <= Max(H)
  <2> TAKE j \in w
  <2>1. h[j] \in H /\ l[j] \in L /\ Max(H) \in Int /\ h[j] \in Int
    BY <1>3, <1>7, <1>8
  <2> HIDE DEF H, L
  <2> QED BY <1>5, <1>8, <2>1
<1>12. Max(H) \in Nat /\ Min(L) \in Nat
  BY <1>3, <1>8
<1> QED BY <1>4, <1>9, <1>10, <1>11, <1>12

\* %R is %K less a hundred.
LEMMA WilliamsIs ==
    ASSUME NEW d \in Seq(PriceBars), d # <<>>, NEW k \in StochasticK(d, Len(d)), NEW w \in WilliamsR(d)
    PROVE  k \in Int /\ w \in Int /\ k - w \in {Hundred, Hundred - 1}
<1> DEFINE n == Len(d)
           H == Highest(d, Period, n)
           L == Lowest(d, Period, n)
           c == d[n].close
           r == H - L
<1>1. n \in 1 .. Len(d) /\ Period \in Nat \ {0} /\ n \in Nat /\ d[n].low <= c /\ c <= d[n].high
      /\ c \in Nat /\ d[n].low \in Nat /\ d[n].high \in Nat
  <2>1. n \in 1 .. Len(d)
    BY BarsAre
  <2> QED BY <2>1, BarsAre, PeriodsAre
<1>2. Period <= n
  BY <1>1 DEF StochasticK
<1>3. H \in Nat /\ L \in Nat /\ L <= d[n].low /\ d[n].high <= H
  <2>1. n \in n - Period + 1 .. n
    BY <1>1
  <2> QED BY <1>1, <1>2, <2>1, RangeIs
<1>4. L <= c /\ c <= H
  BY <1>1, <1>3
<1>5. k \in Ratio(Hundred * (c - L), r) /\ w \in Ratio(0 - Hundred * (H - c), r)
  BY <1>1, <1>2 DEF StochasticK, WilliamsR
<1> HIDE DEF H, L, c
<1>6. Hundred \in Nat
  BY DEF Hundred
<1> DEFINE up == Hundred * (c - L)
           down == Hundred * (H - c)
<1>7. up \in Nat /\ down \in Nat /\ up + down = Hundred * r
  <2>1. \A x, y \in Nat : x * y \in Nat
    OBVIOUS
  <2>2. c - L \in Nat /\ H - c \in Nat /\ c \in Int /\ L \in Int /\ H \in Int
    BY <1>1, <1>3, <1>4
  <2>3. \A x, y, z, u \in Int : u * (x - y) + u * (z - x) = u * (z - y)
    OBVIOUS
  <2>4. up + down = Hundred * r
    BY <1>6, <2>2, <2>3
  <2>5. up \in Nat /\ down \in Nat
    BY <1>6, <2>1, <2>2
  <2> QED BY <2>4, <2>5
<1>8. CASE r = 0
  <2>1. c - L = 0
    BY <1>1, <1>3, <1>4, <1>8
  <2>2. up = 0
    BY <1>6, <2>1
  <2> HIDE DEF up
  <2> QED BY <1>5, <1>8, <2>2 DEF Ratio, up
<1>9. CASE r # 0
  <2>1. r \in Nat \ {0}
    BY <1>1, <1>3, <1>4, <1>9
  <2> HIDE DEF r, up, down
  <2>2. k = Quot(up, r) /\ w = Quot(0 - down, r)
    BY <1>5, <1>9 DEF Ratio, up, down
  <2>3. k = up \div r /\ k \in Int
    <3>1. up \in Int /\ up >= 0
      BY <1>7
    <3> QED BY <2>1, <2>2, <3>1, QuotIs
  <2>4. w = 0 - down \div r /\ w \in Int
    <3>1. CASE down = 0
      <4>1. w = 0 \div r /\ w \in Int
        BY <2>1, <2>2, <3>1, QuotIs
      <4>2. 0 \div r = 0
        BY <2>1, DivBetween
      <4> QED BY <3>1, <4>1, <4>2
    <3>2. CASE down # 0
      <4>1. 0 - down \in Int /\ 0 - down < 0 /\ 0 - (0 - down) = down
        BY <1>7, <3>2
      <4> QED BY <2>1, <2>2, <4>1, QuotIs, ZenonT(40)
    <3> QED BY <3>1, <3>2
  <2>5. (up \div r) + (down \div r) \in {Hundred, Hundred - 1}
    BY <1>6, <1>7, <2>1, FloorSum
  <2>6. (up \div r) \in Int /\ (down \div r) \in Int
    BY <1>7, <2>1, DivIs
  <2> QED BY <1>6, <2>3, <2>4, <2>5, <2>6
<1> QED BY <1>8, <1>9

LEMMA MovesAre ==
    ASSUME NEW d \in Seq(PriceBars), NEW j \in 2 .. Len(d)
    PROVE  PlusDm(d, j) \in Nat /\ MinusDm(d, j) \in Nat
<1>1. j \in 1 .. Len(d) /\ j - 1 \in 1 .. Len(d) /\ j # 1
  BY BarsAre
<1>2. d[j].high - d[j - 1].high \in Int /\ d[j - 1].low - d[j].low \in Int
  BY <1>1, BarsAre, SMTT(30)
<1>3. Rise(d, j) \in Nat /\ Fall(d, j) \in Nat
  BY <1>2, GreatestOfTwo DEF Rise, Fall
<1> QED BY <1>1, <1>3 DEF PlusDm, MinusDm

\* A mean quotient of numbers between two bounds lies between them.
LEMMA MeanBetween ==
    ASSUME NEW a \in Nat \ {0}, NEW b \in Nat, a <= b, NEW f \in [a .. b -> Int], NEW hi \in Nat,
           \A j \in a .. b : 0 <= f[j] /\ f[j] <= hi
    PROVE  Quot(SumFunction(f), b - a + 1) \in 0 .. hi
<1> DEFINE s == SumFunction(f)
           m == b - a + 1
           q == s \div m
<1>1. m \in Nat \ {0} /\ a <= b + 1
  OBVIOUS
<1>2. s \in Int /\ 0 * m <= s /\ s <= hi * m
  <2>1. a \in Int /\ b \in Int /\ 0 \in Int /\ hi \in Int /\ a <= b + 1
    OBVIOUS
  <2> QED BY <2>1, SumBetween
<1> HIDE DEF s, m
<1>3. q \in Int /\ m * q <= s /\ s < m * q + m
  BY <1>1, <1>2, DivIs
<1>4. s >= 0
  BY <1>1, <1>2
<1>5. Quot(s, m) = q
  BY <1>1, <1>2, <1>4, QuotIs
<1> HIDE DEF q
<1>6. q >= 0
  <2>1. ASSUME q + 1 <= 0 PROVE FALSE
    <3>1. (q + 1) * m <= 0 * m /\ 0 * m = 0
      BY <1>1, <1>3, <2>1, TimesGrows
    <3>2. (q + 1) * m = m * q + m /\ m * q \in Int
      BY <1>1, <1>3
    <3> QED BY <1>1, <1>2, <1>3, <1>4, <3>1, <3>2
  <2> QED BY <1>3, <2>1
<1>7. q <= hi
  <2>1. ASSUME hi + 1 <= q PROVE (hi + 1) * m <= q * m
    BY <1>1, <1>3, <2>1, TimesGrows
  <2>2. q * m = m * q /\ m * q \in Int /\ (hi + 1) * m = hi * m + m /\ hi * m \in Int
    BY <1>1, <1>3
  <2> QED BY <1>1, <1>2, <1>3, <2>1, <2>2
<1> QED BY <1>3, <1>5, <1>6, <1>7 DEF s, m

LEMMA DxBetween ==
    ASSUME NEW d \in Seq(PriceBars), NEW i \in 1 .. Len(d), NEW x \in Dx(d, i)
    PROVE  Dx(d, i) = {x} /\ x \in 0 .. Hundred
<1> DEFINE a == i - Period + 1
           plus == [j \in a .. i |-> PlusDm(d, j)]
           minus == [j \in a .. i |-> MinusDm(d, j)]
           P == PlusSum(d, i)
           M == MinusSum(d, i)
<1>1. Period \in Nat \ {0} /\ i \in Nat /\ i > Period
  BY BarsAre, PeriodsAre DEF Dx
<1>2. \A j \in a .. i : j \in 2 .. Len(d)
  BY <1>1, BarsAre
<1>3. plus \in [a .. i -> Int] /\ minus \in [a .. i -> Int] /\ \A j \in a .. i : 0 <= plus[j] /\ 0 <= minus[j]
  BY <1>2, MovesAre
<1>4. P = SumFunction(plus) /\ M = SumFunction(minus)
  BY DEF PlusSum, MinusSum, Total
<1>5. a \in Int /\ i \in Int /\ a <= i + 1 /\ 0 \in Int
  BY <1>1
<1> HIDE DEF plus, minus, a, P, M
<1>6. P \in Nat /\ M \in Nat
  <2> DEFINE zero == [j \in a .. i |-> 0]
  <2>1. zero \in [a .. i -> Int] /\ \A j \in a .. i : zero[j] <= plus[j] /\ zero[j] <= minus[j]
    BY <1>3
  <2>2. SumFunction(zero) = 0 * (i - a + 1)
    BY <1>5, SumConst
  <2> HIDE DEF zero
  <2>3. SumFunction(zero) <= SumFunction(plus) /\ SumFunction(zero) <= SumFunction(minus)
    BY <1>3, <1>5, <2>1, SumLe
  <2>4. SumFunction(plus) \in Int /\ SumFunction(minus) \in Int
    BY <1>1, <1>3, <1>5, SumInt
  <2>5. 0 * (i - a + 1) = 0
    BY <1>1, <1>5
  <2> QED BY <1>4, <2>2, <2>3, <2>4, <2>5
<1> DEFINE off == Abs(P - M)
           all == P + M
<1>7. off \in Nat /\ off <= all
  <2>1. P - M \in Int
    BY <1>6
  <2> QED BY <1>6, <2>1, AbsIs
<1>8. Dx(d, i) = Ratio(Hundred * off, all)
  BY <1>1 DEF Dx, P, M
<1>9. Hundred \in Nat
  BY DEF Hundred
<1>10. all # 0
  <2>1. ASSUME all = 0 PROVE Ratio(Hundred * off, all) = {}
    <3>1. Hundred * off = 0
      BY <1>6, <1>7, <1>9, <2>1
    <3> QED BY <2>1, <3>1 DEF Ratio
  <2> QED BY <1>8, <2>1
<1>11. all \in Nat \ {0}
  BY <1>6, <1>10
<1> HIDE DEF off, all
<1>12. Hundred * off \in Nat
  BY <1>7, <1>9, TimesGrows
<1>13. Ratio(Hundred * off, all) = {(Hundred * off) \div all}
  <2>1. Ratio(Hundred * off, all) = {Quot(Hundred * off, all)}
    BY <1>10 DEF Ratio
  <2>2. Hundred * off \in Int /\ Hundred * off >= 0
    BY <1>12
  <2> QED BY <1>11, <2>1, <2>2, QuotIs
<1>14. (Hundred * off) \div all <= Hundred \div 1
  <2>1. (Hundred * off) * 1 <= Hundred * all
    BY <1>7, <1>9, <1>11, <1>12, TimesGrows
  <2>2. Hundred * off \in Int /\ Hundred \in Int /\ 1 \in Nat \ {0}
    BY <1>9, <1>12
  <2> QED BY <1>11, <2>1, <2>2, DivGrows
<1>15. 0 \div 1 <= (Hundred * off) \div all
  <2>1. 0 * all <= (Hundred * off) * 1 /\ 0 \in Int /\ 1 \in Nat \ {0} /\ Hundred * off \in Int
    BY <1>11, <1>12
  <2> QED BY <1>11, <2>1, DivGrows
<1>16. Hundred \div 1 = Hundred /\ 0 \div 1 = 0 /\ (Hundred * off) \div all \in Int
  BY <1>9, <1>11, <1>12, DivIs
<1> QED BY <1>8, <1>9, <1>13, <1>14, <1>15, <1>16

LEMMA AdxBetween ==
    ASSUME NEW d \in Seq(PriceBars), NEW x \in Adx(d)
    PROVE  x \in 0 .. Hundred
<1> DEFINE n == Len(d)
           a == n - Period + 1
           f == [j \in a .. n |-> CHOOSE y \in Dx(d, j) : TRUE]
<1>1. n \in Nat /\ Period \in Nat \ {0} /\ a \in Int
  BY BarsAre, PeriodsAre
<1>2. /\ ~(a < 1) /\ \A j \in a .. n : Dx(d, j) # {}
      /\ x = Quot(SumFunction(f), n - a + 1)
  <2>1. Adx(d) = MeanOf(LAMBDA i : Dx(d, i), a, n)
    BY DEF Adx
  <2> HIDE DEF a, n
  <2>2. Adx(d) = IF a < 1 \/ \E j \in a .. n : Dx(d, j) = {} THEN {} ELSE {Quot(SumFunction(f), n - a + 1)}
    BY <2>1 DEF MeanOf, Total
  <2> HIDE DEF f
  <2> QED BY <2>2
<1>3. a \in Nat \ {0} /\ a <= n /\ \A j \in a .. n : j \in 1 .. Len(d)
  BY <1>1, <1>2
<1>4. \A j \in a .. n : f[j] \in 0 .. Hundred
  <2> TAKE j \in a .. n
  <2>1. f[j] \in Dx(d, j) /\ j \in 1 .. Len(d)
    BY <1>2, <1>3
  <2> QED BY <2>1, DxBetween
<1>5. Hundred \in Nat /\ f = [j \in a .. n |-> f[j]]
  BY DEF Hundred
<1> HIDE DEF f, n, a
<1>6. f \in [a .. n -> Int] /\ \A j \in a .. n : 0 <= f[j] /\ f[j] <= Hundred
  BY <1>4, <1>5
<1>7. Quot(SumFunction(f), n - a + 1) \in 0 .. Hundred
  BY <1>1, <1>3, <1>5, <1>6, MeanBetween
<1> QED BY <1>2, <1>7

-----------------------------------------------------------------------------
(* Beta.                                                                   *)

LEMMA QuotCancel ==
    ASSUME NEW a \in Nat \ {0}, NEW b \in Nat \ {0}, NEW c \in Int, c # 0
    PROVE  Quot(a * c, b * c) = Quot(a, b)
<1> DEFINE e == Abs(c)
<1>1. e \in Nat \ {0} /\ (c > 0 => e = c) /\ (c < 0 => e = 0 - c)
  BY AbsIs
<1> HIDE DEF e
<1>2. \A x \in Nat \ {0}, y \in Nat \ {0} : x * y \in Nat \ {0}
  OBVIOUS
<1>3. a * e \in Nat \ {0} /\ b * e \in Nat \ {0}
  BY <1>1, <1>2
<1>4. Abs(a * c) = a * e /\ Abs(b * c) = b * e /\ (a * c < 0 <=> c < 0) /\ (b * c < 0 <=> c < 0)
  <2>1. CASE c > 0
    <3>1. a * c = a * e /\ b * c = b * e
      BY <1>1, <2>1
    <3> QED BY <1>3, <2>1, <3>1, AbsIs
  <2>2. CASE c < 0
    <3>1. a * c = 0 - a * e /\ b * c = 0 - b * e
      BY <1>1, <2>2
    <3>2. a * c \in Int /\ b * c \in Int /\ a * c < 0 /\ b * c < 0 /\ 0 - a * c = a * e /\ 0 - b * c = b * e
      BY <1>3, <3>1
    <3> QED BY <2>2, <3>2, AbsIs
  <2> QED BY <2>1, <2>2
<1>5. Quot(a * c, b * c) = (a * e) \div (b * e)
  BY <1>4 DEF Quot
<1>6. (a * e) \div (b * e) = a \div b
  BY <1>1, DivCancel
<1>7. Quot(a, b) = a \div b
  BY QuotIs
<1> QED BY <1>5, <1>6, <1>7

LEMMA BetaItself ==
    ASSUME NEW c \in Seq(Nat \ {0})
    PROVE  Beta(c, c) \subseteq {100, Quot(100 * BetaDays, BetaDays - 1)}
<1> DEFINE r == LastReturns(c)
           s == CoSum(r, r)
           n == Len(c)
<1>1. BetaDays \in Nat /\ BetaDays > 1 /\ n \in Nat
  BY PeriodsAre
<1>2. ASSUME n > BetaDays PROVE s \in Int
  <2>1. ASSUME NEW j \in 1 .. BetaDays PROVE r[j] \in Int
    <3> DEFINE k == n - BetaDays + j
    <3>1. k \in 1 .. n /\ k - 1 \in 1 .. n
      BY <1>1, <1>2
    <3>2. c[k] \in Nat \ {0} /\ c[k - 1] \in Nat \ {0}
      BY <3>1
    <3>3. r[j] = Return(c, k)
      BY DEF LastReturns
    <3> HIDE DEF k
    <3>4. 100 * (c[k] - c[k - 1]) \in Int
      BY <3>2
    <3> QED BY <3>2, <3>3, <3>4, QuotIs, ZenonT(40) DEF Return
  <2> HIDE DEF r
  <2> DEFINE f == [j \in 1 .. BetaDays |-> r[j] * r[j]]
             g == [j \in 1 .. BetaDays |-> r[j]]
  <2>2. f \in [1 .. BetaDays -> Int] /\ g \in [1 .. BetaDays -> Int]
    BY <2>1
  <2>3. s = BetaDays * SumFunction(f) - SumFunction(g) * SumFunction(g)
    BY DEF CoSum, Total
  <2> HIDE DEF f, g, s
  <2>4. SumFunction(f) \in Int /\ SumFunction(g) \in Int
    BY <1>1, <2>2, SumInt
  <2> QED BY <1>1, <2>3, <2>4
<1>3. Beta(c, c) = IF n <= BetaDays THEN {} ELSE IF s = 0 THEN {100}
                   ELSE {Quot(100 * BetaDays * s, (BetaDays - 1) * s)}
  BY DEF Beta
<1> HIDE DEF s
<1>4. ASSUME n > BetaDays, s # 0
      PROVE  Quot(100 * BetaDays * s, (BetaDays - 1) * s) = Quot(100 * BetaDays, BetaDays - 1)
  <2> DEFINE a == 100 * BetaDays
             b == BetaDays - 1
  <2>1. a \in Nat \ {0} /\ b \in Nat \ {0}
    BY <1>1
  <2> HIDE DEF a, b
  <2>2. Quot(a * s, b * s) = Quot(a, b)
    BY <1>2, <1>4, <2>1, QuotCancel
  <2> QED BY <2>2 DEF a, b
<1> HIDE DEF n
<1> QED BY <1>1, <1>3, <1>4

\* For every market the indicators agree with each other: %R is %K less a hundred, supports
\* lie under the price and resistances over it, ADX is a percentage, and a market against
\* itself has a beta of n / (n - 1).  (TechnicalIndicators, PortfolioRiskManager.)
THEOREM IndicatorsAgreeAlways ==
    ASSUME NEW bars \in Seq(PriceBars), bars # <<>>
    PROVE  IndicatorsAgree(bars)
<1> DEFINE n == Len(bars)
           price == bars[n].close
           closes == [i \in 1 .. n |-> bars[i].close]
<1>1. \A k \in StochasticK(bars, n), w \in WilliamsR(bars) : k - w \in {Hundred, Hundred - 1}
  BY WilliamsIs
<1>2. ASSUME NEW l \in SupportLevels(bars) PROVE l.price < price
  <2> DEFINE low == [j \in DOMAIN bars |-> bars[j].low]
             found == {x \in {Min({low[i - 1], low[i], low[i + 1]}) : i \in Middle(bars)} : x < price}
  <2>1. \E p \in found : l = [price |-> p, strength |-> Strength(Touches(bars, low, p))]
    BY DEF SupportLevels
  <2> QED BY <2>1
<1>3. ASSUME NEW l \in ResistanceLevels(bars) PROVE l.price > price
  <2> DEFINE high == [j \in DOMAIN bars |-> bars[j].high]
             found == {x \in {Max({high[i - 1], high[i], high[i + 1]}) : i \in Middle(bars)} : x > price}
  <2>1. \E p \in found : l = [price |-> p, strength |-> Strength(Touches(bars, high, p))]
    BY DEF ResistanceLevels
  <2> QED BY <2>1
<1>4. \A a \in Adx(bars) : a \in 0 .. Hundred
  BY AdxBetween
<1>5. Beta(closes, closes) \subseteq {100, Quot(100 * BetaDays, BetaDays - 1)}
  <2>1. closes \in Seq(Nat \ {0})
    BY BarsAre
  <2> HIDE DEF closes
  <2> QED BY <2>1, BetaItself
<1> QED BY <1>1, <1>2, <1>3, <1>4, <1>5 DEF IndicatorsAgree

-----------------------------------------------------------------------------
(* The slippage of an order.                                               *)

-----------------------------------------------------------------------------
(* The order book.  Down a side, what its levels are worth and how many    *)
(* coins they have.                                                        *)

Money(side, j) == Upto(Worth, side, j)
Coins(side, j) == Upto(Depth, side, j)
Rising(side) == \A i, j \in DOMAIN side : i < j => side[i].price <= side[j].price

LEMMA SideIs ==
    ASSUME NEW side \in Seq(Levels)
    PROVE  /\ Len(side) \in Nat /\ DOMAIN side = 1 .. Len(side)
           /\ \A j \in 1 .. Len(side) : side[j].price \in Nat \ {0} /\ side[j].size \in Nat \ {0}
<1>1. Len(side) \in Nat /\ DOMAIN side = 1 .. Len(side) /\ \A j \in 1 .. Len(side) : side[j] \in Levels
  OBVIOUS
<1> QED BY <1>1 DEF Levels

\* Sums of natural numbers, down a side.
LEMMA UptoRuns ==
    ASSUME NEW n \in Nat, NEW f \in [1 .. n -> Nat], NEW g,
           \A j \in 0 .. n : g[j] = SumFunction([i \in 1 .. j |-> f[i]])
    PROVE  /\ \A j \in 0 .. n : g[j] \in Nat
           /\ g[0] = 0
           /\ \A j \in 1 .. n : g[j] = g[j - 1] + f[j]
           /\ \A i, j \in 0 .. n : i <= j => g[i] <= g[j]
<1> DEFINE a == 1
           R == Running(a, n, f)
<1>1. f \in [a .. n -> Int] /\ a <= n + 1 /\ a \in Int /\ n \in Int /\ a - 1 = 0
  OBVIOUS
<1> HIDE DEF a
<1>a. /\ R \in [a - 1 .. n -> Int] /\ R[a - 1] = 0
      /\ \A k \in a .. n : R[k] = R[k - 1] + f[k]
  BY <1>1, SumRuns
<1>b. \A k \in a - 1 .. n : R[k] = SumFunction([j \in a .. k |-> f[j]])
  BY DEF Running
<1> HIDE DEF R
<1>2. /\ R \in [0 .. n -> Int] /\ R[0] = 0
      /\ \A k \in 1 .. n : R[k] = R[k - 1] + f[k]
      /\ \A k \in 0 .. n : R[k] = SumFunction([j \in 1 .. k |-> f[j]])
  BY <1>1, <1>a, <1>b DEF a
<1>3. \A j \in 0 .. n : g[j] = R[j] /\ R[j] \in Int
  BY <1>1, <1>2
<1>4. \A j \in 1 .. n : j - 1 \in 0 .. n /\ j \in 0 .. n
  OBVIOUS
<1>5. g[0] = 0
  BY <1>1, <1>2, <1>3
<1>6. \A j \in 1 .. n : g[j] = g[j - 1] + f[j]
  BY <1>2, <1>3, <1>4
<1>7. \A j \in 0 .. n : g[j] \in Nat
  <2> DEFINE G == {j \in 0 .. n : g[j] \in Nat}
  <2>1. 0 \in G
    BY <1>5
  <2>2. ASSUME NEW k \in 1 .. n, k - 1 \in G PROVE k \in G
    <3>1. g[k - 1] \in Nat /\ f[k] \in Nat /\ k \in 0 .. n
      BY <2>2
    <3> QED BY <1>6, <3>1
  <2>3. \A k \in 0 .. n : k \in G
    <3> HIDE DEF G
    <3> QED BY <2>1, <2>2, Climb
  <2> QED BY <2>3
<1>8. ASSUME NEW i \in 0 .. n PROVE \A j \in 0 .. n : i <= j => g[i] <= g[j]
  <2> DEFINE G == {j \in 0 .. n : i <= j => g[i] <= g[j]}
  <2>1. 0 \in G
    BY <1>7
  <2>2. ASSUME NEW k \in 1 .. n, k - 1 \in G PROVE k \in G
    <3>1. g[k] = g[k - 1] + f[k] /\ f[k] \in Nat /\ g[k - 1] \in Int /\ g[k] \in Int /\ g[i] \in Int /\ k \in 0 .. n
      BY <1>3, <1>4, <1>6
    <3>2. i <= k - 1 => g[i] <= g[k - 1]
      BY <2>2
    <3>3. i <= k => i <= k - 1 \/ i = k
      OBVIOUS
    <3> QED BY <3>1, <3>2, <3>3
  <2>3. \A k \in 0 .. n : k \in G
    <3> HIDE DEF G
    <3> QED BY <2>1, <2>2, Climb
  <2> QED BY <2>3
<1> QED BY <1>5, <1>6, <1>7, <1>8

LEMMA SideRuns ==
    ASSUME NEW side \in Seq(Levels)
    PROVE  LET n == Len(side)
           IN /\ \A j \in 0 .. n : /\ Money(side, j) \in Nat /\ Coins(side, j) \in Nat
                                   /\ Upto(Size, side, j) = Coins(side, j)
              /\ Money(side, 0) = 0 /\ Coins(side, 0) = 0
              /\ \A j \in 1 .. n : /\ Money(side, j) = Money(side, j - 1) + side[j].price * side[j].size
                                   /\ Coins(side, j) = Coins(side, j - 1) + side[j].size
              /\ \A i, j \in 0 .. n : i <= j => Money(side, i) <= Money(side, j) /\ Coins(side, i) <= Coins(side, j)
<1> DEFINE n == Len(side)
           worth == [i \in 1 .. n |-> side[i].price * side[i].size]
           depth == [i \in 1 .. n |-> side[i].size]
           M == [j \in 0 .. n |-> Money(side, j)]
           C == [j \in 0 .. n |-> Coins(side, j)]
<1>1. n \in Nat /\ \A j \in 1 .. n : side[j].price \in Nat \ {0} /\ side[j].size \in Nat \ {0}
  BY SideIs
<1>2. worth \in [1 .. n -> Nat] /\ depth \in [1 .. n -> Nat]
  BY <1>1, TimesGrows
<1>3. \A j \in 1 .. n : Worth(side[j]) = worth[j] /\ Depth(side[j]) = depth[j] /\ Size(side[j]) = depth[j]
  BY <1>1 DEF Worth, Depth, Size, Fillable
<1>4. ASSUME NEW j \in 0 .. n
      PROVE  /\ M[j] = SumFunction([i \in 1 .. j |-> worth[i]])
             /\ C[j] = SumFunction([i \in 1 .. j |-> depth[i]])
             /\ Upto(Size, side, j) = C[j]
  <2>1. \A i \in 1 .. j : i \in 1 .. n
    OBVIOUS
  <2> HIDE DEF worth, depth, n
  <2>2. [i \in 1 .. j |-> Worth(side[i])] = [i \in 1 .. j |-> worth[i]]
    BY <1>3, <2>1
  <2>3. [i \in 1 .. j |-> Depth(side[i])] = [i \in 1 .. j |-> depth[i]]
    BY <1>3, <2>1
  <2>4. [i \in 1 .. j |-> Size(side[i])] = [i \in 1 .. j |-> depth[i]]
    BY <1>3, <2>1
  <2> QED BY <2>2, <2>3, <2>4 DEF Money, Coins, Upto, Total
<1> HIDE DEF worth, depth
<1>5. /\ \A j \in 0 .. n : M[j] \in Nat
      /\ M[0] = 0
      /\ \A j \in 1 .. n : M[j] = M[j - 1] + worth[j]
      /\ \A i, j \in 0 .. n : i <= j => M[i] <= M[j]
  <2> HIDE DEF M, n
  <2> QED BY <1>1, <1>2, <1>4, UptoRuns
<1>6. /\ \A j \in 0 .. n : C[j] \in Nat
      /\ C[0] = 0
      /\ \A j \in 1 .. n : C[j] = C[j - 1] + depth[j]
      /\ \A i, j \in 0 .. n : i <= j => C[i] <= C[j]
  <2> HIDE DEF C, n
  <2> QED BY <1>1, <1>2, <1>4, UptoRuns
<1>7. \A j \in 0 .. n : M[j] = Money(side, j) /\ C[j] = Coins(side, j)
  OBVIOUS
<1>8. \A j \in 1 .. n : worth[j] = side[j].price * side[j].size /\ depth[j] = side[j].size
  BY DEF worth, depth
<1>9. 0 \in 0 .. n /\ \A j \in 1 .. n : j \in 0 .. n /\ j - 1 \in 0 .. n
  BY <1>1
<1> HIDE DEF M, C
<1>10. \A j \in 1 .. n : /\ Money(side, j) = Money(side, j - 1) + side[j].price * side[j].size
                         /\ Coins(side, j) = Coins(side, j - 1) + side[j].size
  BY <1>5, <1>6, <1>7, <1>8, <1>9
<1>11. \A i, j \in 0 .. n : i <= j => Money(side, i) <= Money(side, j) /\ Coins(side, i) <= Coins(side, j)
  BY <1>5, <1>6, <1>7
<1>12. \A j \in 0 .. n : /\ Money(side, j) \in Nat /\ Coins(side, j) \in Nat
                         /\ Upto(Size, side, j) = Coins(side, j)
  BY <1>4, <1>5, <1>6, <1>7
<1>13. Money(side, 0) = 0 /\ Coins(side, 0) = 0
  BY <1>5, <1>6, <1>7, <1>9
<1> QED BY <1>10, <1>11, <1>12, <1>13

\* The coins of a rising side from a level on cost its price at least, those before at most.
LEMMA Dearer ==
    ASSUME NEW side \in Seq(Levels), Rising(side), NEW k \in 1 .. Len(side), NEW j \in k - 1 .. Len(side)
    PROVE  side[k].price * (Coins(side, j) - Coins(side, k - 1)) <= Money(side, j) - Money(side, k - 1)
<1> DEFINE n == Len(side)
           p == side[k].price
           c == Coins(side, k - 1)
           m == Money(side, k - 1)
           G == {i \in 0 .. n : i >= k - 1 => p * (Coins(side, i) - c) <= Money(side, i) - m}
<1>1. n \in Nat /\ p \in Nat /\ k - 1 \in 0 .. n /\ k \in Int
  BY SideIs
<1>2. c \in Nat /\ m \in Nat
  BY <1>1, SideRuns
<1>3. \A i \in 0 .. n : Coins(side, i) \in Nat /\ Money(side, i) \in Nat
  BY SideRuns
<1>4. ASSUME NEW i \in 0 .. n, i = k - 1 PROVE i \in G
  <2>1. Coins(side, i) - c = 0 /\ Money(side, i) - m = 0
    BY <1>2, <1>4
  <2> QED BY <1>1, <2>1
<1>5. 0 \in G
  <2>1. 0 \in 0 .. n /\ (0 >= k - 1 => 0 = k - 1)
    BY <1>1
  <2> QED BY <1>4, <2>1
<1>6. ASSUME NEW i \in 1 .. n, i - 1 \in G PROVE i \in G
  <2>1. i \in 0 .. n /\ i - 1 \in 0 .. n
    OBVIOUS
  <2>2. CASE i <= k - 1
    BY <1>1, <1>4, <2>1, <2>2
  <2>3. CASE i >= k
    <3> DEFINE x == Coins(side, i - 1) - c
               y == side[i].price * side[i].size
    <3>1. p * x <= Money(side, i - 1) - m
      BY <1>1, <1>6, <2>3
    <3>2. Coins(side, i) = Coins(side, i - 1) + side[i].size /\ Money(side, i) = Money(side, i - 1) + y
      BY SideRuns
    <3>3. side[i].price \in Nat /\ side[i].size \in Nat
      BY SideIs
    <3>4. p <= side[i].price
      <4>1. CASE i = k
        BY <3>3, <4>1
      <4>2. CASE k < i
        <5>1. k \in DOMAIN side /\ i \in DOMAIN side
          OBVIOUS
        <5> QED BY <4>2, <5>1 DEF Rising
      <4> QED BY <1>1, <2>3, <4>1, <4>2
    <3>5. p * side[i].size <= y
      BY <1>1, <3>3, <3>4, TimesGrows
    <3>a. Coins(side, i - 1) \in Int /\ Money(side, i - 1) \in Int /\ c \in Int /\ m \in Int
      BY <1>2, <1>3, <2>1
    <3>b. y \in Int
      BY <3>3
    <3>6. x \in Int /\ Coins(side, i) - c = x + side[i].size /\ y \in Int
      BY <3>2, <3>3, <3>a, <3>b, SMTT(30)
    <3> HIDE DEF x, y, p
    <3>7. p * (x + side[i].size) = p * x + p * side[i].size
      BY <1>1, <3>3, <3>6
    <3>8. p * x \in Int /\ p * side[i].size \in Int /\ Money(side, i - 1) \in Int /\ m \in Int
      BY <1>1, <3>3, <3>6, <3>a
    <3>9. p * (Coins(side, i) - c) <= Money(side, i) - m
      BY <3>1, <3>2, <3>5, <3>6, <3>7, <3>8
    <3> QED BY <2>1, <3>9 DEF p
  <2> QED BY <1>1, <2>1, <2>2, <2>3
<1>7. j \in 0 .. n /\ j >= k - 1
  BY <1>1
<1>8. \A i \in 0 .. n : i \in G
  <2> HIDE DEF G, n
  <2> QED BY <1>1, <1>5, <1>6, Climb
<1> QED BY <1>7, <1>8

LEMMA Cheaper ==
    ASSUME NEW side \in Seq(Levels), Rising(side), NEW k \in 1 .. Len(side), NEW j \in 0 .. k
    PROVE  Money(side, j) <= side[k].price * Coins(side, j)
<1> DEFINE n == Len(side)
           p == side[k].price
           G == {i \in 0 .. k : Money(side, i) <= p * Coins(side, i)}
<1>1. n \in Nat /\ p \in Nat /\ k \in Nat /\ \A i \in 0 .. k : i \in 0 .. n
  BY SideIs
<1>2. \A i \in 0 .. n : Coins(side, i) \in Nat /\ Money(side, i) \in Nat
  BY SideRuns
<1>3. 0 \in G
  <2>1. Money(side, 0) = 0 /\ Coins(side, 0) = 0
    BY SideRuns
  <2> QED BY <1>1, <2>1
<1>4. ASSUME NEW i \in 1 .. k, i - 1 \in G PROVE i \in G
  <2> DEFINE c == Coins(side, i - 1)
             s == side[i].size
             q == side[i].price
  <2>1. i \in 1 .. n /\ i - 1 \in 0 .. n /\ i \in 0 .. k
    BY <1>1
  <2>2. Coins(side, i) = c + s /\ Money(side, i) = Money(side, i - 1) + q * s
    BY <2>1, SideRuns
  <2>3. s \in Nat /\ q \in Nat
    BY <2>1, SideIs
  <2>4. q <= p
    <3>1. i \in DOMAIN side /\ k \in DOMAIN side
      BY <2>1, SideIs
    <3>2. i = k \/ i < k
      BY <2>1
    <3> QED BY <1>1, <3>1, <3>2 DEF Rising
  <2>5. q * s <= p * s
    BY <1>1, <2>3, <2>4, TimesGrows
  <2>6. Money(side, i - 1) <= p * c
    BY <1>4
  <2>7. c \in Int /\ Money(side, i - 1) \in Int
    BY <1>2, <2>1
  <2> HIDE DEF c, s, q, p
  <2>8. p * (c + s) = p * c + p * s /\ p * c \in Int /\ p * s \in Int /\ q * s \in Int
    BY <1>1, <2>3, <2>7
  <2>9. Money(side, i) <= p * Coins(side, i)
    BY <2>2, <2>5, <2>6, <2>7, <2>8
  <2> QED BY <2>1, <2>9
<1>5. \A i \in 0 .. k : i \in G
  <2> HIDE DEF G
  <2> QED BY <1>1, <1>3, <1>4, Climb
<1> QED BY <1>5

\* Who pays on with dearer coins pays more on average.
LEMMA AverageGrows ==
    ASSUME NEW a \in Nat, NEW b \in Nat, NEW p \in Nat, NEW q \in Nat, NEW v \in Nat, NEW w \in Nat,
           a <= v, p * w <= q * (b - a + v), v * q <= w * p
    PROVE  (a * p) * w <= (b * q) * v
<1> DEFINE x == p * w - q * v
           y == q * (b - a)
<1>1. p * w \in Int /\ q * v \in Int /\ q * (b - a + v) = y + q * v /\ v * q = q * v /\ w * p = p * w /\ y \in Int
  OBVIOUS
<1>2. x \in Nat /\ x <= y
  BY <1>1
<1>3. p * w = x + q * v
  BY <1>1
<1> HIDE DEF x
<1>4. x * v <= y * v
  BY <1>1, <1>2, TimesGrows
<1>5. x * a <= x * v
  BY <1>2, TimesGrows
<1>6. y * v = (b * q) * v - (a * q) * v
  OBVIOUS
<1>7. (a * p) * w = a * (p * w) /\ a * (x + q * v) = x * a + (a * q) * v
  BY <1>2
<1>8. x * v \in Int /\ x * a \in Int /\ y * v \in Int /\ (b * q) * v \in Int /\ (a * q) * v \in Int
  BY <1>1, <1>2
<1> HIDE DEF y
<1>9. (a * p) * w = x * a + (a * q) * v
  BY <1>3, <1>7
<1> QED BY <1>4, <1>5, <1>6, <1>8, <1>9

\* An amount is spent at level k; what it buys, at the price of that level.
Spent(side, a, k) == k \in 1 .. Len(side) /\ Money(side, k - 1) < a /\ a <= Money(side, k)
Bargain(side, a, k) == Coins(side, k - 1) * side[k].price + (a - Money(side, k - 1))

LEMMA Bought ==
    ASSUME NEW side \in Seq(Levels), side # <<>>, NEW a \in Nat \ {0}
    PROVE  /\ Money(side, Len(side)) < a => BuySlippage(side, a).slippage = Inf
           /\ a <= Money(side, Len(side)) =>
                \E k \in 1 .. Len(side) :
                   /\ Spent(side, a, k)
                   /\ BuySlippage(side, a).slippage =
                        (Hundred * (a * side[k].price - side[1].price * Bargain(side, a, k)))
                          \div (side[1].price * Bargain(side, a, k))
<1> DEFINE n == Len(side)
           enough == {k \in DOMAIN side : Money(side, k) >= a}
           k == Min(enough)
           rest == a - Upto(Worth, side, k - 1)
           volume == Upto(Depth, side, k - 1) * side[k].price + rest
           best == side[1].price
           paid == [available |-> TRUE, levels |-> Used(side, k),
                    slippage |-> (Hundred * (a * side[k].price - best * volume)) \div (best * volume)]
<1>1. n \in Nat /\ n # 0 /\ DOMAIN side = 1 .. n /\ best \in Nat \ {0} /\ n \in 1 .. n
  <2>1. n \in Nat /\ n # 0 /\ DOMAIN side = 1 .. n
    BY SideIs
  <2> QED BY <2>1, SideIs
<1>2. BuySlippage(side, a) = IF best <= 0 THEN NoQuote
                             ELSE IF enough = {} THEN [NoLiquidity EXCEPT !.levels = Len(side)] ELSE paid
  BY DEF BuySlippage, Money
<1>3. BuySlippage(side, a) = IF enough = {} THEN [NoLiquidity EXCEPT !.levels = Len(side)] ELSE paid
  <2> HIDE DEF paid, enough
  <2>1. ~(best <= 0)
    BY <1>1
  <2> HIDE DEF best
  <2> QED BY <1>2, <2>1
<1>4. \A i \in 0 .. n : Money(side, i) \in Nat
  BY SideRuns
<1>5. ASSUME Money(side, n) < a PROVE BuySlippage(side, a).slippage = Inf
  <2>1. enough = {}
    <3>1. \A i \in 1 .. n : i \in 0 .. n /\ n \in 0 .. n /\ i <= n
      BY <1>1
    <3>2. \A i \in 1 .. n : Money(side, i) <= Money(side, n)
      BY <3>1, SideRuns
    <3>3. \A i \in 1 .. n : Money(side, i) \in Int /\ Money(side, n) \in Int
      BY <1>4, <3>1
    <3> QED BY <1>1, <1>5, <3>2, <3>3
  <2>2. [NoLiquidity EXCEPT !.levels = Len(side)].slippage = Inf
    BY DEF NoLiquidity
  <2> HIDE DEF paid, enough
  <2> QED BY <1>3, <2>1, <2>2
<1>6. ASSUME a <= Money(side, n)
      PROVE  /\ enough # {} /\ Spent(side, a, k)
  <2>1. n \in enough /\ enough \in SUBSET Nat
    BY <1>1, <1>4, <1>6
  <2>2. \E m \in enough : \A i \in enough : m <= i
    <3> HIDE DEF enough
    <3> QED BY <2>1, Least
  <2>3. k \in enough /\ \A i \in enough : k <= i
    BY <2>2 DEF Min
  <2> HIDE DEF k
  <2>4. k \in 1 .. n /\ a <= Money(side, k)
    BY <1>1, <1>4, <2>3
  <2>5. Money(side, k - 1) < a
    <3>1. CASE k = 1
      <4>1. Money(side, 0) = 0
        BY SideRuns
      <4> QED BY <3>1, <4>1
    <3>2. CASE k # 1
      <4>1. k - 1 \in 1 .. n /\ k - 1 \in 0 .. n /\ ~(k <= k - 1)
        BY <2>4, <3>2
      <4>2. k - 1 \notin enough
        BY <2>3, <4>1
      <4>3. ~(Money(side, k - 1) >= a) /\ Money(side, k - 1) \in Nat
        BY <1>1, <1>4, <4>1, <4>2
      <4> QED BY <4>3
    <3> QED BY <3>1, <3>2
  <2> QED BY <2>1, <2>4, <2>5 DEF Spent
<1>7. volume = Bargain(side, a, k)
  BY DEF Bargain, Money, Coins
<1>8. paid.slippage = (Hundred * (a * side[k].price - best * Bargain(side, a, k))) \div (best * Bargain(side, a, k))
  <2> HIDE DEF k, best
  <2>1. paid.slippage = (Hundred * (a * side[k].price - best * volume)) \div (best * volume)
    BY DEF paid
  <2> HIDE DEF volume
  <2> QED BY <1>7, <2>1
<1> HIDE DEF paid, enough, k, volume
<1>9. ASSUME a <= Money(side, n)
      PROVE  \E i \in 1 .. n : /\ Spent(side, a, i)
                               /\ BuySlippage(side, a).slippage =
                                    (Hundred * (a * side[i].price - best * Bargain(side, a, i))) \div (best * Bargain(side, a, i))
  <2>1. k \in 1 .. n /\ Spent(side, a, k) /\ BuySlippage(side, a) = paid
    BY <1>3, <1>6, <1>9 DEF Spent
  <2> QED BY <1>8, <2>1
<1> QED BY <1>5, <1>9

\* What is spent at level k buys less than it would at the price of that level, and more than
\* it would at the first.
LEMMA BargainIs ==
    ASSUME NEW side \in Seq(Levels), Rising(side), NEW a \in Nat \ {0}, NEW k \in 1 .. Len(side), Spent(side, a, k)
    PROVE  /\ Bargain(side, a, k) \in Nat \ {0} /\ a <= Bargain(side, a, k)
           /\ side[1].price * Bargain(side, a, k) <= a * side[k].price
<1> DEFINE p == side[k].price
           best == side[1].price
           C == Coins(side, k - 1)
           M == Money(side, k - 1)
           v == Bargain(side, a, k)
<1>1. k - 1 \in 0 .. Len(side) /\ 1 \in 1 .. Len(side) /\ k \in Nat /\ 0 \in 0 .. Len(side) /\ k - 1 \in 0 .. k
  BY SideIs
<1>2. p \in Nat \ {0} /\ best \in Nat \ {0} /\ C \in Nat /\ M \in Nat
  BY <1>1, SideIs, SideRuns
<1>3. M < a
  BY DEF Spent
<1>4. M <= p * C
  BY <1>1, Cheaper
<1>5. best * C <= M
  <2>1. k - 1 \in 1 - 1 .. Len(side)
    BY <1>1
  <2>2. side[1].price * (Coins(side, k - 1) - Coins(side, 1 - 1)) <= Money(side, k - 1) - Money(side, 1 - 1)
    BY <1>1, <2>1, Dearer
  <2>3. Coins(side, 1 - 1) = 0 /\ Money(side, 1 - 1) = 0
    BY SideRuns
  <2>4. C - 0 = C /\ M - 0 = M
    BY <1>2
  <2> QED BY <2>2, <2>3, <2>4
<1>6. best <= p
  <2>1. 1 \in DOMAIN side /\ k \in DOMAIN side
    BY <1>1, SideIs
  <2>2. k = 1 \/ 1 < k
    BY <1>1
  <2> QED BY <1>2, <2>1, <2>2 DEF Rising
<1>7. v = C * p + (a - M)
  BY DEF Bargain
<1> HIDE DEF p, best, C, M, v
<1>8. C * p \in Nat /\ p * C = C * p
  BY <1>2, TimesGrows
<1>9. v \in Nat \ {0} /\ a <= v
  BY <1>2, <1>3, <1>4, <1>7, <1>8
<1>10. best * v <= a * p
  <2>1. best * v = (best * C) * p + best * (a - M)
    BY <1>2, <1>7
  <2>2. best * C \in Int /\ (best * C) * p <= M * p
    <3>1. best * C \in Int
      BY <1>2
    <3> QED BY <1>2, <1>5, <3>1, TimesGrows
  <2>3. best * (a - M) <= p * (a - M)
    BY <1>2, <1>3, <1>6, TimesGrows
  <2>4. M * p + p * (a - M) = a * p
    BY <1>2
  <2>5. (best * C) * p \in Int /\ M * p \in Int /\ best * (a - M) \in Int /\ p * (a - M) \in Int
    BY <1>2, <2>2
  <2> QED BY <2>1, <2>2, <2>3, <2>4, <2>5
<1> QED BY <1>9, <1>10 DEF p, best, v

LEMMA BargainsGrow ==
    ASSUME NEW side \in Seq(Levels), Rising(side), NEW a \in Nat \ {0}, NEW b \in Nat \ {0}, a <= b,
           NEW k \in 1 .. Len(side), NEW m \in 1 .. Len(side), Spent(side, a, k), Spent(side, b, m)
    PROVE  /\ side[k].price * Bargain(side, b, m) <= side[m].price * (b - a + Bargain(side, a, k))
           /\ Bargain(side, a, k) * side[m].price <= Bargain(side, b, m) * side[k].price
<1> DEFINE p == side[k].price
           q == side[m].price
           C == Coins(side, k - 1)
           M == Money(side, k - 1)
           D == Coins(side, m - 1)
           N == Money(side, m - 1)
           v == Bargain(side, a, k)
           w == Bargain(side, b, m)
<1>1. k - 1 \in 0 .. Len(side) /\ m - 1 \in 0 .. Len(side) /\ k \in 0 .. Len(side) /\ m \in 0 .. Len(side)
  BY SideIs
<1>2. p \in Nat \ {0} /\ q \in Nat \ {0} /\ C \in Nat /\ M \in Nat /\ D \in Nat /\ N \in Nat
      /\ Money(side, k) \in Nat /\ Money(side, m) \in Nat /\ Coins(side, k) \in Nat /\ side[k].size \in Nat
  BY <1>1, SideIs, SideRuns
<1>3. M < a /\ a <= Money(side, k) /\ N < b /\ b <= Money(side, m)
  BY DEF Spent
<1>4. v = C * p + (a - M) /\ w = D * q + (b - N)
  BY DEF Bargain
<1>5. CASE m < k
  <2>1. m <= k - 1
    BY <1>5
  <2>2. Money(side, m) <= M
    BY <1>1, <2>1, SideRuns
  <2> QED BY <1>2, <1>3, <2>2
<1>6. CASE m = k
  <2>1. q = p /\ C = D /\ M = N
    BY <1>6
  <2> HIDE DEF p, q, C, M, D, N, v, w
  <2>2. C * p \in Nat
    BY <1>2, TimesGrows
  <2>3. w = b - a + v /\ v \in Int /\ w \in Int /\ v <= w
    BY <1>2, <1>4, <2>1, <2>2
  <2>4. p * w <= q * (b - a + v)
    <3>1. p * w \in Int
      BY <1>2, <2>3
    <3> QED BY <2>1, <2>3, <3>1
  <2>5. v * q <= w * p
    BY <1>2, <2>1, <2>3, TimesGrows
  <2> QED BY <2>4, <2>5 DEF p, q, v, w
<1>7. CASE k < m
  <2>1. p <= q
    BY <1>1, <1>7, SideIs DEF Rising
  <2>2. p * (D - C) <= N - M
    <3>1. m - 1 \in k - 1 .. Len(side)
      BY <1>7
    <3> QED BY <3>1, Dearer
  <2>3. Money(side, k) = M + p * side[k].size /\ Coins(side, k) = C + side[k].size
    BY SideRuns
  <2>4. Coins(side, k) <= D
    <3>1. k <= m - 1
      BY <1>7
    <3> QED BY <1>1, <3>1, SideRuns
  <2> DEFINE s == side[k].size
  <2>5. s \in Nat /\ a <= M + p * s /\ C + s <= D
    BY <1>2, <1>3, <2>3, <2>4
  <2> HIDE DEF p, q, C, M, D, N, v, w, s
  <2>6. C * p \in Int /\ D * q \in Int /\ p * s \in Int /\ v \in Int /\ w \in Int
    <3>1. p \in Int /\ q \in Int /\ C \in Int /\ D \in Int /\ s \in Int /\ a - M \in Int /\ b - N \in Int
      BY <1>2, <2>5
    <3>2. \A x, y \in Int : x * y \in Int
      OBVIOUS
    <3>3. C * p \in Int /\ D * q \in Int /\ p * s \in Int
      BY <3>1, <3>2, Zenon
    <3> QED BY <1>4, <3>1, <3>3
  <2>7. p * w <= q * (b - a + v)
    \* (q - p) (b - N) and q (N - M - p (D - C)) are both natural numbers.
    <3>1. p * (b - N) <= q * (b - N)
      <4>1. b - N \in Nat /\ p \in Int /\ q \in Int
        BY <1>2, <1>3
      <4> QED BY <2>1, <4>1, TimesGrows
    <3>2. (p * (D - C)) * q <= (N - M) * q
      <4>1. p * (D - C) \in Int
        BY <1>2
      <4> QED BY <1>2, <2>2, <4>1, TimesGrows, SMTT(30)
    <3>3. p * w = p * (D * q) + p * (b - N)
      BY <1>2, <1>4, SMTT(30)
    <3>4. q * (b - a + v) = q * (C * p) + q * (b - M)
      <4>1. b - a + v = C * p + (b - M)
        BY <1>2, <1>4, <2>6
      <4> QED BY <1>2, <2>6, <4>1
    <3>5. (p * (D - C)) * q = p * (D * q) - q * (C * p)
      BY <1>2
    <3>6. (N - M) * q + q * (b - N) = q * (b - M)
      BY <1>2
    <3>7. p * (b - N) \in Int /\ q * (b - N) \in Int /\ (N - M) * q \in Int /\ p * (D * q) \in Int
          /\ q * (C * p) \in Int /\ q * (b - M) \in Int
      BY <1>2
    <3> QED BY <3>1, <3>2, <3>3, <3>4, <3>5, <3>6, <3>7
  <2>8. v * q <= w * p
    <3>1. v <= C * p + p * s
      BY <1>2, <1>4, <2>5, <2>6
    <3>2. v * q <= (C * p + p * s) * q
      BY <1>2, <2>6, <3>1, TimesGrows, SMTT(30)
    <3>3. (C + s) * (p * q) <= D * (p * q)
      <4>1. p * q \in Nat
        BY <1>2, TimesGrows, SMTT(30)
      <4> QED BY <1>2, <2>5, <4>1, TimesGrows
    <3>4. (D * q) * p <= w * p
      BY <1>2, <1>3, <1>4, <2>6, TimesGrows
    <3>5. (C * p + p * s) * q = (C + s) * (p * q) /\ (D * q) * p = D * (p * q)
      BY <1>2, <2>5
    <3>6. v * q \in Int /\ w * p \in Int /\ D * (p * q) \in Int /\ (C + s) * (p * q) \in Int
      BY <1>2, <2>5, <2>6
    <3> QED BY <3>2, <3>3, <3>4, <3>5, <3>6
  <2> QED BY <2>7, <2>8 DEF p, q, v, w
<1> QED BY <1>5, <1>6, <1>7

\* A slippage as a fraction of the best price: not below zero, and growing with the average.
LEMMA SlipIs ==
    ASSUME NEW a \in Nat \ {0}, NEW p \in Nat \ {0}, NEW best \in Nat \ {0}, NEW v \in Nat \ {0},
           best * v <= a * p, a <= v, p <= (Inf \div Hundred) * best
    PROVE  /\ (Hundred * (a * p - best * v)) \div (best * v) \in Int
           /\ 0 <= (Hundred * (a * p - best * v)) \div (best * v)
           /\ (Hundred * (a * p - best * v)) \div (best * v) <= Inf
<1> DEFINE h == Hundred
           i == Inf \div Hundred
           x == h * (a * p - best * v)
           y == best * v
<1>1. h \in Nat \ {0} /\ Inf \in Nat /\ i \in Nat /\ i * h <= Inf
  BY DEF Hundred, Inf
<1> HIDE DEF h, i
<1>2. y \in Nat \ {0} /\ a * p \in Int
  <2>1. \A m, n \in Nat \ {0} : m * n \in Nat \ {0}
    OBVIOUS
  <2> QED BY <2>1
<1>3. x \in Nat
  <2>1. a * p - y \in Nat
    BY <1>2
  <2> QED BY <1>1, <2>1, TimesGrows
<1>4. x <= Inf * y
  <2>1. a * p <= v * p
    BY TimesGrows
  <2>2. v * p <= v * (i * best)
    <3>1. i * best \in Int
      BY <1>1
    <3> QED BY <3>1, TimesGrows DEF i
  <2>3. v * (i * best) = i * y
    BY <1>1
  <2>4. i * y \in Int /\ v * p \in Int
    BY <1>1, <1>2
  <2>5. a * p - y <= i * y /\ a * p - y \in Int
    BY <1>2, <2>1, <2>2, <2>3, <2>4
  <2> HIDE DEF y
  <2>6. h * (a * p - y) <= h * (i * y)
    BY <1>1, <2>4, <2>5, TimesGrows
  <2>7. h * (i * y) = (i * h) * y
    BY <1>1, <1>2
  <2>8. (i * h) * y <= Inf * y
    <3>1. i * h \in Int
      BY <1>1
    <3> QED BY <1>1, <1>2, <3>1, TimesGrows
  <2>9. h * (a * p - y) \in Int /\ (i * h) * y \in Int /\ Inf * y \in Int
    BY <1>1, <1>2, <2>5
  <2> QED BY <2>6, <2>7, <2>8, <2>9 DEF y
<1> DEFINE q == x \div y
<1> HIDE DEF x, y
<1>5. q \in Int
  BY <1>2, <1>3, DivIs
<1>6. q <= Inf \div 1
  <2>1. x * 1 <= Inf * y /\ x \in Int /\ Inf \in Int /\ 1 \in Nat \ {0}
    BY <1>1, <1>3, <1>4
  <2> QED BY <1>2, <2>1, DivGrows
<1>7. 0 \div 1 <= q
  <2>1. 0 * y <= x * 1 /\ x \in Int /\ 0 \in Int /\ 1 \in Nat \ {0}
    BY <1>2, <1>3
  <2> QED BY <1>2, <2>1, DivGrows
<1>8. Inf \div 1 = Inf /\ 0 \div 1 = 0
  BY <1>1
<1> HIDE DEF q
<1>9. q \in Int /\ 0 <= q /\ q <= Inf
  BY <1>5, <1>6, <1>7, <1>8
<1> QED BY <1>9 DEF q, x, y, h

LEMMA SlipGrows ==
    ASSUME NEW a \in Nat \ {0}, NEW b \in Nat \ {0}, NEW p \in Nat, NEW q \in Nat, NEW best \in Nat \ {0},
           NEW v \in Nat \ {0}, NEW w \in Nat \ {0}, (a * p) * w <= (b * q) * v
    PROVE  (Hundred * (a * p - best * v)) \div (best * v) <= (Hundred * (b * q - best * w)) \div (best * w)
<1> DEFINE x == Hundred * (a * p - best * v)
           y == Hundred * (b * q - best * w)
           s == best * v
           t == best * w
           c == Hundred * best
           m == (a * p) * w
           n == (b * q) * v
           o == (best * v) * w
<1>1. Hundred \in Nat
  BY DEF Hundred
<1>2. s \in Nat \ {0} /\ t \in Nat \ {0}
  <2>1. \A i, j \in Nat \ {0} : i * j \in Nat \ {0}
    OBVIOUS
  <2> QED BY <2>1
<1>3. x \in Int /\ y \in Int /\ m \in Int /\ n \in Int /\ o \in Int /\ c \in Nat
  BY <1>1, TimesGrows
<1>4. x * t = c * (m - o) /\ y * s = c * (n - o)
  BY <1>1
<1>5. m <= n
  OBVIOUS
<1> HIDE DEF x, y, s, t, c, m, n, o
<1>6. c * (m - o) <= c * (n - o)
  BY <1>3, <1>5, TimesGrows
<1>7. x \div s <= y \div t
  BY <1>2, <1>3, <1>4, <1>6, DivGrows
<1> QED BY <1>7 DEF x, y, s, t

LEMMA BooksAre ==
    ASSUME NEW book \in Books
    PROVE  /\ book.asks \in Seq(Levels) /\ book.asks # <<>> /\ Rising(book.asks)
           /\ book.bids \in Seq(Levels) /\ book.bids # <<>>
           /\ \A i, j \in DOMAIN book.bids : i < j => book.bids[i].price >= book.bids[j].price
           /\ \A i \in DOMAIN book.asks : book.asks[i].price <= (Inf \div Hundred) * book.asks[1].price
BY DEF Books, Rising

\* What is asked of a book for an amount.
Asked(book, a) == CalculateSlippage(book, "asks", a).slippage

LEMMA AskedIs ==
    ASSUME NEW book \in Books, NEW a \in Nat
    PROVE  /\ a = 0 => Asked(book, a) = 0
           /\ a # 0 => Asked(book, a) = BuySlippage(book.asks, a).slippage
<1>1. book["asks"] # <<>>
  BY BooksAre
<1> QED BY <1>1 DEF Asked, CalculateSlippage

LEMMA AskedWithin ==
    ASSUME NEW book \in Books, NEW a \in Nat
    PROVE  Asked(book, a) \in Int /\ 0 <= Asked(book, a) /\ Asked(book, a) <= Inf
<1> DEFINE side == book.asks
<1>1. side \in Seq(Levels) /\ side # <<>> /\ Rising(side)
      /\ \A i \in DOMAIN side : side[i].price <= (Inf \div Hundred) * side[1].price
  BY BooksAre
<1>2. Inf \in Nat /\ Money(side, Len(side)) \in Int
  <2>1. Len(side) \in 0 .. Len(side)
    BY <1>1, SideIs
  <2>2. Money(side, Len(side)) \in Nat
    BY <1>1, <2>1, SideRuns
  <2> QED BY <2>2 DEF Inf
<1>3. CASE a = 0
  BY <1>2, <1>3, AskedIs
<1>4. CASE a # 0 /\ Money(side, Len(side)) < a
  <2>1. a \in Nat \ {0}
    BY <1>4
  <2>2. BuySlippage(side, a).slippage = Inf
    BY <1>1, <1>4, <2>1, Bought
  <2> QED BY <1>2, <1>4, <2>2, AskedIs
<1>5. CASE a # 0 /\ a <= Money(side, Len(side))
  <2>1. a \in Nat \ {0}
    BY <1>5
  <2>2. PICK k \in 1 .. Len(side) :
           /\ Spent(side, a, k)
           /\ BuySlippage(side, a).slippage =
                (Hundred * (a * side[k].price - side[1].price * Bargain(side, a, k)))
                  \div (side[1].price * Bargain(side, a, k))
    BY <1>1, <1>5, <2>1, Bought
  <2> DEFINE p == side[k].price
             best == side[1].price
             v == Bargain(side, a, k)
  <2>3. v \in Nat \ {0} /\ a <= v /\ best * v <= a * p
    BY <1>1, <2>1, <2>2, BargainIs
  <2>4. p \in Nat \ {0} /\ best \in Nat \ {0} /\ p <= (Inf \div Hundred) * best
    <3>1. k \in DOMAIN side /\ 1 \in 1 .. Len(side)
      BY <1>1, SideIs
    <3> QED BY <1>1, <3>1, SideIs
  <2> DEFINE slip == (Hundred * (a * p - best * v)) \div (best * v)
  <2>5. slip \in Int /\ 0 <= slip /\ slip <= Inf
    <3> HIDE DEF p, best, v
    <3> QED BY <2>1, <2>3, <2>4, SlipIs
  <2>6. Asked(book, a) = slip
    BY <1>5, <2>2, AskedIs
  <2> QED BY <2>5, <2>6
<1> QED BY <1>2, <1>3, <1>4, <1>5

LEMMA AskedGrows ==
    ASSUME NEW book \in Books, NEW a \in Nat, NEW b \in Nat, a <= b
    PROVE  Asked(book, a) <= Asked(book, b)
<1> DEFINE side == book.asks
           all == Money(side, Len(side))
<1>1. side \in Seq(Levels) /\ side # <<>> /\ Rising(side)
  BY BooksAre
<1>2. all \in Int
  <2>1. Len(side) \in 0 .. Len(side)
    BY <1>1, SideIs
  <2> QED BY <1>1, <2>1, SideRuns
<1>3. CASE a = 0
  BY <1>3, AskedIs, AskedWithin
<1>4. CASE a # 0 /\ all < b
  <2>1. b \in Nat \ {0}
    BY <1>4
  <2>2. BuySlippage(side, b).slippage = Inf
    BY <1>1, <1>4, <2>1, Bought
  <2>3. Asked(book, b) = Inf
    BY <2>1, <2>2, AskedIs
  <2> QED BY <2>3, AskedWithin
<1>5. CASE a # 0 /\ b <= all
  <2>1. a \in Nat \ {0} /\ b \in Nat \ {0} /\ a <= all
    BY <1>2, <1>5
  <2> HIDE DEF all
  <2>2. PICK k \in 1 .. Len(side) :
           /\ Spent(side, a, k)
           /\ BuySlippage(side, a).slippage =
                (Hundred * (a * side[k].price - side[1].price * Bargain(side, a, k)))
                  \div (side[1].price * Bargain(side, a, k))
    BY <1>1, <2>1, Bought DEF all
  <2>3. PICK m \in 1 .. Len(side) :
           /\ Spent(side, b, m)
           /\ BuySlippage(side, b).slippage =
                (Hundred * (b * side[m].price - side[1].price * Bargain(side, b, m)))
                  \div (side[1].price * Bargain(side, b, m))
    BY <1>1, <1>5, <2>1, Bought DEF all
  <2> DEFINE p == side[k].price
             q == side[m].price
             best == side[1].price
             v == Bargain(side, a, k)
             w == Bargain(side, b, m)
  <2>4. v \in Nat \ {0} /\ w \in Nat \ {0} /\ a <= v
    BY <1>1, <2>1, <2>2, <2>3, BargainIs
  <2>5. p * w <= q * (b - a + v) /\ v * q <= w * p
    BY <1>1, <2>1, <2>2, <2>3, BargainsGrow
  <2>6. p \in Nat \ {0} /\ q \in Nat \ {0} /\ best \in Nat \ {0}
    <3>1. 1 \in 1 .. Len(side)
      BY <2>2
    <3> QED BY <1>1, <3>1, SideIs
  <2>7. Asked(book, a) = (Hundred * (a * p - best * v)) \div (best * v)
    BY <2>1, <2>2, AskedIs
  <2>8. Asked(book, b) = (Hundred * (b * q - best * w)) \div (best * w)
    BY <2>1, <2>3, AskedIs
  <2> HIDE DEF p, q, best, v, w
  <2>9. (a * p) * w <= (b * q) * v
    BY <2>4, <2>5, <2>6, AverageGrows
  <2>a. p \in Nat /\ q \in Nat
    BY <2>6
  <2>b. (Hundred * (a * p - best * v)) \div (best * v) <= (Hundred * (b * q - best * w)) \div (best * w)
    BY <2>1, <2>4, <2>6, <2>9, <2>a, SlipGrows
  <2> QED BY <2>7, <2>8, <2>b
<1> QED BY <1>2, <1>3, <1>4, <1>5

\* Through every book a larger purchase never slips less than a smaller one, and one that is
\* allowed can be filled.  (SlippageModel: calculate_slippage, check_liquidity_risk.)
THEOREM SlippageGrowsAlways ==
    ASSUME NEW book \in Books, NEW amounts \in SUBSET Nat
    PROVE  SlippageGrows(book, amounts)
<1> DEFINE side == book.asks
<1>1. side \in Seq(Levels) /\ side # <<>>
  BY BooksAre
<1>2. Money(side, Len(side)) \in Nat
  <2>1. Len(side) \in 0 .. Len(side)
    BY <1>1, SideIs
  <2> QED BY <1>1, <2>1, SideRuns
<1>3. ASSUME NEW b \in amounts, CheckLiquidityRisk(book, "asks", b).allowed PROVE Money(side, Len(side)) >= b
  <2>1. b \in Nat
    OBVIOUS
  <2>2. CASE b = 0
    BY <1>2, <2>2
  <2>3. CASE b # 0 /\ Money(side, Len(side)) < b
    <3> DEFINE enough == {k \in DOMAIN side : Upto(Worth, side, k) >= b}
    <3>1. enough = {}
      <4>1. \A k \in 1 .. Len(side) : k \in 0 .. Len(side) /\ Len(side) \in 0 .. Len(side) /\ k <= Len(side)
        BY <1>1, SideIs
      <4>2. \A k \in 1 .. Len(side) : Money(side, k) <= Money(side, Len(side)) /\ Money(side, k) \in Nat
        BY <1>1, <4>1, SideRuns
      <4>3. \A k \in 1 .. Len(side) : ~(Money(side, k) >= b)
        BY <1>2, <2>1, <2>3, <4>2
      <4> QED BY <1>1, <4>3, SideIs DEF Money
    <3>2. ~(BuySlippage(side, b).available)
      <4>1. BuySlippage(side, b) = NoQuote \/ BuySlippage(side, b) = [NoLiquidity EXCEPT !.levels = Len(side)]
        BY <3>1 DEF BuySlippage
      <4> QED BY <4>1 DEF NoQuote, NoLiquidity
    <3>3. CalculateSlippage(book, "asks", b) = BuySlippage(side, b)
      <4>1. book["asks"] # <<>> /\ ~(b <= 0)
        BY <1>1, <2>1, <2>3
      <4> QED BY <4>1 DEF CalculateSlippage
    <3>4. CheckLiquidityRisk(book, "asks", b).allowed => BuySlippage(side, b).available
      BY <3>3 DEF CheckLiquidityRisk
    <3> QED BY <1>3, <3>2, <3>4
  <2> QED BY <1>2, <2>1, <2>2, <2>3
<1>4. \A a, b \in amounts : a <= b => Asked(book, a) <= Asked(book, b)
  BY AskedGrows
<1> QED BY <1>3, <1>4 DEF SlippageGrows, Asked, Money

-----------------------------------------------------------------------------
(* The plans of an order.                                                  *)

-----------------------------------------------------------------------------
(* Plans.  What is left of n coins below a level, and what those down to a *)
(* level cost.                                                             *)

Left(side, n, j) == Max({0, n - Coins(side, j)})
Bill(side, n) == [j \in 1 .. Len(side) |-> (Left(side, n, j - 1) - Left(side, n, j)) * side[j].price]
Paid(side, n, j) == Running(1, Len(side), Bill(side, n))[j]

LEMMA LeftIs ==
    ASSUME NEW side \in Seq(Levels), NEW n \in Nat, NEW j \in 0 .. Len(side)
    PROVE  Left(side, n, j) = (IF n <= Coins(side, j) THEN 0 ELSE n - Coins(side, j)) /\ Left(side, n, j) \in 0 .. n
<1>1. Coins(side, j) \in Nat
  BY SideRuns
<1>2. n - Coins(side, j) \in Int /\ 0 \in Int
  BY <1>1
<1>3. Left(side, n, j) = IF 0 <= n - Coins(side, j) THEN n - Coins(side, j) ELSE 0
  BY <1>2, GreatestOfTwo DEF Left
<1> QED BY <1>1, <1>3

LEMMA PaidRuns ==
    ASSUME NEW side \in Seq(Levels), NEW n \in Nat
    PROVE  /\ \A j \in 0 .. Len(side) : Paid(side, n, j) \in Int
           /\ Paid(side, n, 0) = 0
           /\ \A j \in 1 .. Len(side) : Paid(side, n, j) = Paid(side, n, j - 1)
                                          + (Left(side, n, j - 1) - Left(side, n, j)) * side[j].price
           /\ side # <<>> => FillCost(side, n) = Paid(side, n, Len(side)) + Left(side, n, Len(side)) * side[Len(side)].price
<1> DEFINE L == Len(side)
           f == Bill(side, n)
           a == 1
           R == Running(a, L, f)
<1>1. L \in Nat /\ \A j \in 1 .. L : /\ j - 1 \in 0 .. L /\ j \in 0 .. L
                                     /\ side[j].price \in Nat \ {0} /\ side[j].size \in Nat \ {0}
  BY SideIs
<1>2. \A j \in 0 .. L : Left(side, n, j) \in Int
  BY LeftIs
<1>3. f \in [1 .. L -> Int] /\ \A j \in 1 .. L : f[j] = (Left(side, n, j - 1) - Left(side, n, j)) * side[j].price
  BY <1>1, <1>2 DEF Bill
<1>4. a \in Int /\ L \in Int /\ a <= L + 1 /\ f \in [a .. L -> Int] /\ a - 1 = 0 /\ a = 1
  BY <1>1, <1>3
<1> HIDE DEF a, f
<1>5. R \in [a - 1 .. L -> Int] /\ R[a - 1] = 0 /\ R[L] = SumFunction(f)
      /\ \A k \in a .. L : R[k] = R[k - 1] + f[k]
  <2> HIDE DEF L
  <2>1. RunsUp(a, L, f, R)
    BY <1>4, SumRunsUp
  <2> QED BY <2>1 DEF RunsUp
<1>6. \A j : Paid(side, n, j) = R[j]
  BY <1>4 DEF Paid, f
<1> HIDE DEF R
<1>7. /\ \A j \in 0 .. L : Paid(side, n, j) \in Int
      /\ Paid(side, n, 0) = 0 /\ Paid(side, n, L) = SumFunction(f)
      /\ \A j \in 1 .. L : Paid(side, n, j) = Paid(side, n, j - 1) + f[j]
  <2> HIDE DEF L
  <2>1. \A j \in 0 .. L : R[j] \in Int
    BY <1>4, <1>5
  <2>2. R[0] = 0 /\ R[L] = SumFunction(f)
    BY <1>4, <1>5
  <2>3. \A j \in 1 .. L : R[j] = R[j - 1] + f[j]
    BY <1>4, <1>5
  <2> QED BY <1>6, <2>1, <2>2, <2>3
<1>8. ASSUME side # <<>>
      PROVE  FillCost(side, n) = Paid(side, n, L) + Left(side, n, L) * side[L].price
  <2> DEFINE filled(j) == Max({0, Min({side[j].size, n - Upto(Size, side, j - 1)})})
             g == [j \in 1 .. L |-> filled(j) * side[j].price]
             rest == Max({0, n - Upto(Size, side, Len(side))})
  <2>1. FillCost(side, n) = SumFunction(g) + rest * side[L].price
    BY DEF FillCost, Total
  <2>2. rest = Left(side, n, L)
    <3>1. L \in 0 .. L
      BY <1>1
    <3>2. Upto(Size, side, L) = Coins(side, L)
      BY <3>1, SideRuns
    <3> QED BY <3>2 DEF Left
  <2>3. ASSUME NEW j \in 1 .. L PROVE filled(j) = Left(side, n, j - 1) - Left(side, n, j)
    <3> DEFINE c == Coins(side, j - 1)
               s == side[j].size
    <3>1. j - 1 \in 0 .. L /\ j \in 0 .. L /\ s \in Nat
      BY <1>1
    <3>2. Upto(Size, side, j - 1) = c /\ c \in Nat /\ Coins(side, j) = c + s
      BY <3>1, SideRuns
    <3>3. Left(side, n, j - 1) = (IF n <= c THEN 0 ELSE n - c) /\ Left(side, n, j) = IF n <= c + s THEN 0 ELSE n - (c + s)
      BY <3>1, <3>2, LeftIs
    <3> HIDE DEF c, s
    <3>4. n - c \in Int /\ s \in Int
      BY <3>1, <3>2
    <3>5. Min({s, n - c}) = IF s <= n - c THEN s ELSE n - c
      BY <3>4, LeastOfTwo
    <3> DEFINE m == Min({s, n - c})
    <3>6. m \in Int /\ 0 \in Int
      BY <3>4, <3>5
    <3> HIDE DEF m
    <3>7. Max({0, m}) = IF 0 <= m THEN m ELSE 0
      BY <3>6, GreatestOfTwo
    <3>8. filled(j) = Max({0, m})
      BY <3>2 DEF m, s
    <3> QED BY <3>1, <3>2, <3>3, <3>5, <3>7, <3>8 DEF m
  <2>4. g = f
    <3> HIDE DEF filled, L
    <3>1. \A j \in 1 .. L : filled(j) * side[j].price = (Left(side, n, j - 1) - Left(side, n, j)) * side[j].price
      BY <2>3
    <3> QED BY <3>1 DEF f, Bill, L
  <2> HIDE DEF g, rest
  <2> QED BY <1>7, <2>1, <2>2, <2>4
<1>9. \A j \in 1 .. L : Paid(side, n, j) = Paid(side, n, j - 1) + (Left(side, n, j - 1) - Left(side, n, j)) * side[j].price
  BY <1>3, <1>7
<1> QED BY <1>7, <1>8, <1>9

\* The cost if all that is left below a level were there.
AllAt(side, n, j) == Paid(side, n, j) + Left(side, n, j) * side[j].price

LEMMA AllAtRuns ==
    ASSUME NEW side \in Seq(Levels), side # <<>>, NEW n \in Nat
    PROVE  /\ \A j \in 1 .. Len(side) : AllAt(side, n, j) \in Int
           /\ AllAt(side, n, 1) = n * side[1].price
           /\ \A j \in 2 .. Len(side) : AllAt(side, n, j) = AllAt(side, n, j - 1)
                                          + Left(side, n, j - 1) * (side[j].price - side[j - 1].price)
           /\ AllAt(side, n, Len(side)) = FillCost(side, n)
<1> DEFINE L == Len(side)
           x(j) == Left(side, n, j)
           p(j) == side[j].price
<1>1. L \in Nat /\ 1 \in 1 .. L /\ \A j \in 1 .. L : j - 1 \in 0 .. L /\ j \in 0 .. L /\ p(j) \in Nat
  BY SideIs
<1>2. \A j \in 0 .. L : Left(side, n, j) \in Int /\ Paid(side, n, j) \in Int
  <2>1. \A j \in 0 .. L : Left(side, n, j) \in Int
    BY LeftIs
  <2>2. \A j \in 0 .. L : Paid(side, n, j) \in Int
    BY PaidRuns
  <2> QED BY <2>1, <2>2
<1>3. \A j \in 1 .. L : Paid(side, n, j) = Paid(side, n, j - 1) + (x(j - 1) - x(j)) * p(j)
  BY PaidRuns
<1>4. ASSUME NEW j \in 1 .. L PROVE AllAt(side, n, j) = Paid(side, n, j - 1) + x(j - 1) * p(j) /\ AllAt(side, n, j) \in Int
  <2>1. x(j - 1) \in Int /\ x(j) \in Int /\ p(j) \in Int /\ Paid(side, n, j - 1) \in Int /\ Paid(side, n, j) \in Int
    BY <1>1, <1>2
  <2>2. AllAt(side, n, j) = (Paid(side, n, j - 1) + (x(j - 1) - x(j)) * p(j)) + x(j) * p(j)
    BY <1>3 DEF AllAt
  <2> DEFINE u == x(j - 1)
             v == x(j)
             w == p(j)
  <2>a. u \in Int /\ v \in Int /\ w \in Int
    BY <2>1
  <2> HIDE DEF u, v, w
  <2>3. (u - v) * w = u * w - v * w /\ u * w \in Int /\ v * w \in Int
    BY <2>a
  <2>4. AllAt(side, n, j) = (Paid(side, n, j - 1) + (u - v) * w) + v * w
    BY <2>2 DEF u, v, w
  <2>5. AllAt(side, n, j) = Paid(side, n, j - 1) + u * w /\ AllAt(side, n, j) \in Int
    BY <2>1, <2>3, <2>4
  <2> QED BY <2>5 DEF u, w
<1>5. AllAt(side, n, 1) = n * p(1)
  <2>1. AllAt(side, n, 1) = Paid(side, n, 1 - 1) + x(1 - 1) * p(1)
    BY <1>1, <1>4
  <2>2. Coins(side, 0) = 0 /\ 0 \in 0 .. L
    BY <1>1, SideRuns
  <2>3. x(0) = n
    BY <2>2, LeftIs, SMTT(30)
  <2>4. Paid(side, n, 0) = 0
    BY PaidRuns
  <2>5. n * p(1) \in Int
    BY <1>1
  <2> QED BY <2>1, <2>3, <2>4, <2>5
<1>6. ASSUME NEW j \in 2 .. L PROVE AllAt(side, n, j) = AllAt(side, n, j - 1) + x(j - 1) * (p(j) - p(j - 1))
  <2>1. j \in 1 .. L /\ j - 1 \in 1 .. L /\ j - 1 \in 0 .. L
    BY <1>1
  <2>2. AllAt(side, n, j) = Paid(side, n, j - 1) + x(j - 1) * p(j)
    BY <1>4, <2>1
  <2>3. AllAt(side, n, j - 1) = Paid(side, n, j - 1) + x(j - 1) * p(j - 1)
    BY DEF AllAt
  <2>4. x(j - 1) \in Int /\ Paid(side, n, j - 1) \in Int /\ p(j) \in Int /\ p(j - 1) \in Int
    BY <1>1, <1>2, <2>1
  <2> HIDE DEF x, p
  <2>5. x(j - 1) * (p(j) - p(j - 1)) = x(j - 1) * p(j) - x(j - 1) * p(j - 1)
        /\ x(j - 1) * p(j) \in Int /\ x(j - 1) * p(j - 1) \in Int
    BY <2>4
  <2> QED BY <2>2, <2>3, <2>4, <2>5
<1>7. AllAt(side, n, L) = FillCost(side, n)
  BY PaidRuns DEF AllAt
<1> QED BY <1>4, <1>5, <1>6, <1>7

\* A side on which prices go up, with sign 1, or down, with sign -1.
Sloped(side, sign) == \A j \in 2 .. Len(side) : 0 <= sign * (side[j].price - side[j - 1].price)

\* More coins at the same prices cost no more, or bring no less, and at best the first price.
LEMMA DeeperFills ==
    ASSUME NEW side \in Seq(Levels), side # <<>>, NEW other \in Seq(Levels), Len(other) = Len(side),
           \A j \in 1 .. Len(side) : other[j].price = side[j].price,
           \A j \in 0 .. Len(side) : Coins(side, j) <= Coins(other, j),
           NEW sign \in {1, -1}, Sloped(side, sign), NEW n \in Nat
    PROVE  /\ sign * FillCost(other, n) <= sign * FillCost(side, n)
           /\ sign * (n * side[1].price) <= sign * FillCost(side, n)
           /\ FillCost(side, n) \in Int
<1> DEFINE L == Len(side)
           x(j) == Left(side, n, j)
           y(j) == Left(other, n, j)
           T(j) == AllAt(side, n, j)
           U(j) == AllAt(other, n, j)
           step(j) == sign * (side[j].price - side[j - 1].price)
           G == {j \in 0 .. L - 1 : sign * U(j + 1) <= sign * T(j + 1) /\ sign * T(1) <= sign * T(j + 1)}
<1>1. L \in Nat /\ L - 1 \in Nat /\ 1 \in 1 .. L /\ other # <<>> /\ sign \in Int
      /\ \A j \in 1 .. L : side[j].price \in Nat /\ other[j].price \in Nat
  BY SideIs
<1>2. \A j \in 1 .. L : T(j) \in Int /\ U(j) \in Int
  BY <1>1, AllAtRuns
<1>3. T(1) = n * side[1].price /\ U(1) = n * side[1].price
  BY <1>1, AllAtRuns
<1>4. \A j \in 2 .. L : T(j) = T(j - 1) + x(j - 1) * (side[j].price - side[j - 1].price)
  BY AllAtRuns
<1>5. \A j \in 2 .. L : U(j) = U(j - 1) + y(j - 1) * (side[j].price - side[j - 1].price)
  <2>1. \A j \in 2 .. L : j \in 1 .. L /\ j - 1 \in 1 .. L
    OBVIOUS
  <2>2. \A j \in 2 .. L : U(j) = U(j - 1) + y(j - 1) * (other[j].price - other[j - 1].price)
    BY <1>1, AllAtRuns
  <2> QED BY <2>1, <2>2
<1>6. \A j \in 0 .. L : x(j) \in Nat /\ y(j) \in Nat /\ y(j) <= x(j)
  <2> TAKE j \in 0 .. L
  <2>1. Coins(side, j) \in Nat /\ Coins(other, j) \in Nat /\ Coins(side, j) <= Coins(other, j)
    BY SideRuns
  <2>2. x(j) = (IF n <= Coins(side, j) THEN 0 ELSE n - Coins(side, j)) /\ x(j) \in 0 .. n
    BY LeftIs
  <2>3. y(j) = (IF n <= Coins(other, j) THEN 0 ELSE n - Coins(other, j)) /\ y(j) \in 0 .. n
    BY LeftIs
  <2> QED BY <2>1, <2>2, <2>3
<1>7. \A j \in 2 .. L : step(j) \in Nat
  <2> TAKE j \in 2 .. L
  <2>1. j \in 1 .. L /\ j - 1 \in 1 .. L
    OBVIOUS
  <2>2. 0 <= step(j)
    BY DEF Sloped
  <2>3. side[j].price - side[j - 1].price \in Int
    BY <1>1, <2>1
  <2> QED BY <1>1, <2>2, <2>3
<1> HIDE DEF x, y, T, U
<1>8. 0 \in G
  <2>1. 0 \in 0 .. L - 1 /\ 0 + 1 = 1 /\ sign * T(1) \in Int
    BY <1>1, <1>2
  <2> QED BY <1>1, <1>3, <2>1
<1>9. ASSUME NEW i \in 1 .. L - 1, i - 1 \in G PROVE i \in G
  <2> DEFINE j == i + 1
             d == side[j].price - side[j - 1].price
  <2>1. j \in 2 .. L /\ j - 1 \in 1 .. L /\ j - 1 = i /\ (i - 1) + 1 = i /\ i \in 0 .. L - 1 /\ j - 1 \in 0 .. L /\ j \in 1 .. L
    BY <1>1
  <2>2. sign * U(i) <= sign * T(i) /\ sign * T(1) <= sign * T(i)
    BY <1>9, <2>1
  <2>3. T(j) = T(i) + x(i) * d /\ U(j) = U(i) + y(i) * d
    BY <1>4, <1>5, <2>1
  <2>4. d \in Int /\ sign * d \in Nat /\ x(i) \in Nat /\ y(i) \in Nat /\ y(i) <= x(i)
    BY <1>1, <1>6, <1>7, <2>1
  <2> HIDE DEF d, j
  <2>5. y(i) * (sign * d) <= x(i) * (sign * d) /\ 0 * (sign * d) <= x(i) * (sign * d)
    <3> DEFINE e == sign * d
    <3>1. e \in Nat
      BY <2>4
    <3> HIDE DEF e
    <3>2. y(i) * e <= x(i) * e /\ 0 * e <= x(i) * e
      BY <2>4, <3>1, TimesGrows
    <3> QED BY <3>2 DEF e
  <2>6. T(i) \in Int /\ U(i) \in Int /\ T(1) \in Int /\ sign \in Int
    BY <1>1, <1>2, <2>1
  <2>7. sign * T(j) = sign * T(i) + x(i) * (sign * d)
    BY <2>3, <2>4, <2>6
  <2>8. sign * U(j) = sign * U(i) + y(i) * (sign * d)
    BY <2>3, <2>4, <2>6
  <2>9. sign * T(i) \in Int /\ sign * U(i) \in Int /\ sign * T(1) \in Int
        /\ x(i) * (sign * d) \in Int /\ y(i) * (sign * d) \in Int /\ 0 * (sign * d) = 0
    BY <2>4, <2>6, SMTT(30)
  <2>10. sign * U(j) <= sign * T(j) /\ sign * T(1) <= sign * T(j)
    BY <2>2, <2>5, <2>7, <2>8, <2>9
  <2> QED BY <2>1, <2>10 DEF j
<1>10. L - 1 \in G
  <2> DEFINE m == L - 1
  <2> HIDE DEF G, m
  <2>1. \A k \in 0 .. m : k \in G
    BY <1>1, <1>8, <1>9, Climb DEF m
  <2>2. m \in 0 .. m
    BY <1>1 DEF m
  <2> QED BY <2>1, <2>2 DEF m
<1>11. sign * U(L) <= sign * T(L) /\ sign * T(1) <= sign * T(L)
  <2>1. (L - 1) + 1 = L
    BY <1>1
  <2> QED BY <1>10, <2>1
<1>12. T(L) = FillCost(side, n) /\ U(L) = FillCost(other, n) /\ T(L) \in Int
  <2>1. L \in 1 .. L
    BY <1>1
  <2> QED BY <1>1, <1>2, <2>1, AllAtRuns DEF T, U
<1> QED BY <1>3, <1>11, <1>12

\* The level at which the last of n coins is found, and what they cost.
Reached(side, n, k) == k \in 1 .. Len(side) /\ Coins(side, k - 1) < n /\ n <= Coins(side, k)

LEMMA ReachedFirst ==
    ASSUME NEW side \in Seq(Levels), NEW n \in Nat \ {0}, n <= Coins(side, Len(side))
    PROVE  LET enough == {k \in DOMAIN side : Coins(side, k) >= n} IN enough # {} /\ Reached(side, n, Min(enough))
<1> DEFINE L == Len(side)
           enough == {k \in DOMAIN side : Coins(side, k) >= n}
           k == Min(enough)
<1>1. L \in Nat /\ DOMAIN side = 1 .. L
  BY SideIs
<1>2. \A j \in 0 .. L : Coins(side, j) \in Nat
  BY SideRuns
<1>3. Coins(side, 0) = 0
  BY SideRuns
<1>4. L \in 1 .. L
  BY <1>1, <1>3
<1>5. L \in enough /\ enough \in SUBSET Nat
  BY <1>1, <1>2, <1>4
<1>6. \E m \in enough : \A i \in enough : m <= i
  <2> HIDE DEF enough
  <2> QED BY <1>5, Least
<1>7. k \in enough /\ \A i \in enough : k <= i
  BY <1>6 DEF Min
<1> HIDE DEF k
<1>8. k \in 1 .. L /\ n <= Coins(side, k)
  BY <1>1, <1>2, <1>7
<1>9. Coins(side, k - 1) < n
  <2>1. CASE k = 1
    BY <1>3, <2>1
  <2>2. CASE k # 1
    <3>1. k - 1 \in 1 .. L /\ k - 1 \in 0 .. L /\ ~(k <= k - 1)
      BY <1>8, <2>2
    <3>2. k - 1 \notin enough
      BY <1>7, <3>1
    <3>3. ~(Coins(side, k - 1) >= n) /\ Coins(side, k - 1) \in Nat
      BY <1>1, <1>2, <3>1, <3>2
    <3> QED BY <3>3
  <2> QED BY <2>1, <2>2
<1> QED BY <1>5, <1>8, <1>9 DEF Reached, k

LEMMA FilledAt ==
    ASSUME NEW side \in Seq(Levels), side # <<>>, NEW n \in Nat \ {0}, NEW k, Reached(side, n, k)
    PROVE  FillCost(side, n) = Money(side, k - 1) + (n - Coins(side, k - 1)) * side[k].price
<1> DEFINE L == Len(side)
           x(j) == Left(side, n, j)
           P(j) == Paid(side, n, j)
           M(j) == Money(side, j)
           C(j) == Coins(side, j)
           p(j) == side[j].price
           G == {j \in 0 .. k - 1 : P(j) = M(j)}
           H == {j \in 0 .. L : j >= k => P(j) = P(k)}
<1>1. L \in Nat /\ k \in 1 .. L /\ k - 1 \in Nat /\ k - 1 \in 0 .. L /\ k \in 0 .. L /\ n \in Nat
  BY SideIs DEF Reached
<1>2. \A j \in 0 .. L : C(j) \in Nat /\ M(j) \in Nat /\ P(j) \in Int
  <2>1. \A j \in 0 .. L : C(j) \in Nat /\ M(j) \in Nat
    BY SideRuns
  <2>2. \A j \in 0 .. L : P(j) \in Int
    BY <1>1, PaidRuns
  <2> QED BY <2>1, <2>2
<1>3. \A j \in 1 .. L : P(j) = P(j - 1) + (x(j - 1) - x(j)) * p(j)
  BY <1>1, PaidRuns
<1>4. \A j \in 0 .. k - 1 : j \in 0 .. L /\ x(j) = n - C(j)
  <2> TAKE j \in 0 .. k - 1
  <2>1. j \in 0 .. L
    BY <1>1
  <2>2. C(j) <= C(k - 1)
    BY <1>1, <2>1, SideRuns
  <2>3. C(j) < n
    BY <1>1, <1>2, <2>1, <2>2, SMTT(30) DEF Reached
  <2>4. x(j) = IF n <= C(j) THEN 0 ELSE n - C(j)
    BY <1>1, <2>1, LeftIs
  <2>5. C(j) \in Nat
    BY <1>2, <2>1
  <2> QED BY <2>1, <2>3, <2>4, <2>5
<1>5. \A j \in k .. L : j \in 0 .. L /\ x(j) = 0
  <2> TAKE j \in k .. L
  <2>1. j \in 0 .. L
    BY <1>1
  <2>2. C(k) <= C(j)
    BY <1>1, <2>1, SideRuns
  <2>3. n <= C(j)
    BY <1>1, <1>2, <2>1, <2>2 DEF Reached
  <2>4. x(j) = IF n <= C(j) THEN 0 ELSE n - C(j)
    BY <1>1, <2>1, LeftIs
  <2> QED BY <2>1, <2>3, <2>4
<1>6. \A j \in 1 .. L : /\ C(j) = C(j - 1) + side[j].size /\ M(j) = M(j - 1) + p(j) * side[j].size
                        /\ p(j) \in Nat /\ side[j].size \in Nat
  <2>1. \A j \in 1 .. L : C(j) = C(j - 1) + side[j].size /\ M(j) = M(j - 1) + p(j) * side[j].size
    BY SideRuns
  <2>2. \A j \in 1 .. L : p(j) \in Nat /\ side[j].size \in Nat
    BY SideIs
  <2> QED BY <2>1, <2>2
<1>7. P(0) = 0 /\ M(0) = 0
  BY <1>1, PaidRuns, SideRuns
<1> HIDE DEF x, P, M, C, p, L
<1>8. 0 \in G
  BY <1>1, <1>7
<1>9. ASSUME NEW j \in 1 .. k - 1, j - 1 \in G PROVE j \in G
  <2>1. j \in 1 .. L /\ j - 1 \in 0 .. k - 1 /\ j \in 0 .. k - 1 /\ j - 1 \in 0 .. L
    BY <1>1
  <2>2. x(j - 1) - x(j) = side[j].size
    BY <1>2, <1>4, <1>6, <2>1, SMTT(30)
  <2>3. P(j) = M(j - 1) + side[j].size * p(j)
    BY <1>3, <1>9, <2>1, <2>2, SMTT(30)
  <2>4. side[j].size * p(j) = p(j) * side[j].size
    BY <1>6, <2>1
  <2> QED BY <1>6, <2>1, <2>3, <2>4
<1>10. P(k - 1) = M(k - 1)
  <2> DEFINE m == k - 1
  <2>1. m \in Nat /\ m \in 0 .. m
    BY <1>1
  <2>2. \A j \in 1 .. m : j - 1 \in G => j \in G
    BY <1>9
  <2> HIDE DEF G, m
  <2>3. m \in G
    BY <1>8, <2>1, <2>2, Climb
  <2> QED BY <2>3 DEF G, m
<1>11. P(k) = M(k - 1) + (n - C(k - 1)) * p(k)
  <2>1. x(k) = 0 /\ x(k - 1) = n - C(k - 1) /\ C(k - 1) \in Nat
    BY <1>1, <1>2, <1>4, <1>5
  <2>2. x(k - 1) - x(k) = n - C(k - 1)
    BY <1>1, <2>1
  <2> QED BY <1>1, <1>3, <1>10, <2>2
<1>12. 0 \in H
  BY <1>1
<1>13. ASSUME NEW j \in 1 .. L, j - 1 \in H PROVE j \in H
  <2>1. CASE j <= k
    BY <1>1, <2>1
  <2>2. CASE j > k
    <3>1. j - 1 \in k .. L /\ j \in k .. L /\ j \in 0 .. L
      BY <1>1, <2>2
    <3>2. x(j - 1) = 0 /\ x(j) = 0 /\ P(j - 1) = P(k)
      BY <1>1, <1>5, <1>13, <3>1
    <3>3. (0 - 0) * p(j) = 0 /\ P(k) \in Int
      BY <1>1, <1>2, <1>6
    <3>4. P(j) = P(k)
      BY <1>3, <3>2, <3>3
    <3> QED BY <3>1, <3>4
  <2> QED BY <1>1, <2>1, <2>2
<1>14. P(L) = P(k)
  <2>1. L \in 0 .. L /\ L >= k
    BY <1>1
  <2> HIDE DEF H
  <2>2. L \in H
    BY <1>1, <1>12, <1>13, <2>1, Climb
  <2> QED BY <2>1, <2>2 DEF H
<1>15. FillCost(side, n) = P(L) + x(L) * p(L)
  BY <1>1, PaidRuns DEF P, x, p, L
<1>16. x(L) = 0 /\ p(L) \in Nat /\ P(L) \in Int
  BY <1>1, <1>2, <1>5, <1>6, SMTT(30)
<1>17. FillCost(side, n) = P(k)
  BY <1>14, <1>15, <1>16
<1> QED BY <1>11, <1>17 DEF M, C, p

\* What n coins cost lies within what the level they reach is worth.
LEMMA FilledWithin ==
    ASSUME NEW side \in Seq(Levels), side # <<>>, NEW n \in Nat \ {0}, NEW k, Reached(side, n, k)
    PROVE  /\ FillCost(side, n) \in Nat \ {0}
           /\ Money(side, k - 1) < FillCost(side, n) /\ FillCost(side, n) <= Money(side, k)
           /\ FillCost(side, n) <= Money(side, Len(side))
<1> DEFINE c == Coins(side, k - 1)
           m == Money(side, k - 1)
           p == side[k].price
           s == side[k].size
<1>1. k \in 1 .. Len(side) /\ c < n /\ n <= Coins(side, k) /\ n \in Nat
  BY DEF Reached
<1>2. k - 1 \in 0 .. Len(side) /\ k \in 0 .. Len(side) /\ Len(side) \in 0 .. Len(side) /\ k <= Len(side)
  BY <1>1, SideIs
<1>3. p \in Nat \ {0} /\ s \in Nat /\ c \in Nat /\ m \in Nat
  BY <1>1, <1>2, SideIs, SideRuns
<1>4. Coins(side, k) = c + s /\ Money(side, k) = m + p * s
  BY <1>1, SideRuns
<1>5. FillCost(side, n) = m + (n - c) * p
  BY FilledAt
<1>6. Money(side, k) <= Money(side, Len(side)) /\ Money(side, Len(side)) \in Int
  BY <1>2, SideRuns
<1> HIDE DEF c, m, p, s
<1>7. n - c \in Nat /\ n - c # 0 /\ n - c <= s
  BY <1>1, <1>3, <1>4
<1>8. (n - c) * p <= s * p /\ 1 * p <= (n - c) * p
  BY <1>3, <1>7, TimesGrows
<1>9. (n - c) * p \in Int /\ s * p = p * s /\ p * s \in Int /\ 1 * p = p
  BY <1>3, <1>7
<1> DEFINE u == (n - c) * p
           w == p * s
<1>10. u \in Int /\ w \in Int /\ u <= w /\ p <= u
  BY <1>8, <1>9
<1>11. FillCost(side, n) = m + u /\ Money(side, k) = m + w
  BY <1>4, <1>5
<1> HIDE DEF u, w
<1> QED BY <1>3, <1>6, <1>10, <1>11 DEF m

\* An order for n coins that the asks can fill: its estimate is what the coins cost over the best price.
LEMMA AskEstimate ==
    ASSUME NEW book \in Books, NEW n \in Nat \ {0}, n <= Coins(book.asks, Len(book.asks))
    PROVE  LET cost == FillCost(book.asks, n)
               best == n * book.asks[1].price
           IN CalculateSlippage(book, "asks", cost).slippage = (Hundred * (cost - best)) \div best
<1> DEFINE side == book.asks
           cost == FillCost(side, n)
           b == side[1].price
<1>1. side \in Seq(Levels) /\ side # <<>>
  BY BooksAre
<1>2. PICK k : Reached(side, n, k)
  BY <1>1, ReachedFirst
<1>3. cost \in Nat \ {0} /\ Money(side, k - 1) < cost /\ cost <= Money(side, k) /\ cost <= Money(side, Len(side))
  BY <1>1, <1>2, FilledWithin
<1>4. cost = Money(side, k - 1) + (n - Coins(side, k - 1)) * side[k].price
  BY <1>1, <1>2, FilledAt
<1>5. CalculateSlippage(book, "asks", cost).slippage = BuySlippage(side, cost).slippage
  BY <1>3, AskedIs DEF Asked
<1> HIDE DEF cost
<1>6. PICK i \in 1 .. Len(side) :
         /\ Spent(side, cost, i)
         /\ BuySlippage(side, cost).slippage =
              (Hundred * (cost * side[i].price - side[1].price * Bargain(side, cost, i)))
                \div (side[1].price * Bargain(side, cost, i))
  BY <1>1, <1>3, Bought
<1>7. i = k
  <2>1. k \in 1 .. Len(side) /\ Len(side) \in Nat
    BY <1>1, <1>2, SideIs DEF Reached
  <2>2. i - 1 \in 0 .. Len(side) /\ i \in 0 .. Len(side) /\ k - 1 \in 0 .. Len(side) /\ k \in 0 .. Len(side)
    BY <2>1
  <2>3. Money(side, i - 1) < cost /\ cost <= Money(side, i)
    BY <1>6 DEF Spent
  <2>4. \A j \in 0 .. Len(side) : Money(side, j) \in Int
    BY <1>1, SideRuns
  <2>5. CASE i <= k - 1
    <3>1. Money(side, i) <= Money(side, k - 1)
      BY <1>1, <2>2, <2>5, SideRuns
    <3> QED BY <1>3, <2>2, <2>3, <2>4, <3>1
  <2>6. CASE k <= i - 1
    <3>1. Money(side, k) <= Money(side, i - 1)
      BY <1>1, <2>2, <2>6, SideRuns
    <3> QED BY <1>3, <2>2, <2>3, <2>4, <3>1
  <2> QED BY <2>1, <2>5, <2>6
<1> DEFINE p == side[k].price
           c == Coins(side, k - 1)
           m == Money(side, k - 1)
           v == Bargain(side, cost, k)
<1>8. p \in Nat \ {0} /\ b \in Nat \ {0} /\ c \in Nat /\ m \in Nat
  <2>1. k \in 1 .. Len(side) /\ 1 \in 1 .. Len(side) /\ k - 1 \in 0 .. Len(side)
    BY <1>1, <1>2, SideIs DEF Reached
  <2> QED BY <1>1, <2>1, SideIs, SideRuns
<1>9. v = n * p
  <2>1. v = c * p + (cost - m) /\ cost = m + (n - c) * p
    BY <1>4 DEF Bargain
  <2> HIDE DEF v, c, p, m
  <2>2. (n - c) * p = n * p - c * p /\ n * p \in Int /\ c * p \in Int
    BY <1>8
  <2> QED BY <1>8, <2>1, <2>2
<1>10. BuySlippage(side, cost).slippage = (Hundred * (cost * p - b * v)) \div (b * v)
  BY <1>6, <1>7
<1> HIDE DEF p, b, c, m, v
<1> DEFINE r == n * b
           e == Hundred * (cost - r)
<1>11. b * v = r * p /\ r \in Nat \ {0} /\ r \in Int
  <2>1. \A j, l \in Nat \ {0} : j * l \in Nat \ {0}
    OBVIOUS
  <2>2. r \in Nat \ {0}
    BY <1>8, <2>1
  <2> QED BY <1>8, <1>9, <2>2
<1>12. Hundred \in Nat
  BY DEF Hundred
<1> HIDE DEF r
<1>13. Hundred * (cost * p - r * p) = e * p /\ e \in Int
  BY <1>3, <1>8, <1>11, <1>12
<1> HIDE DEF e
<1>14. (e * p) \div (r * p) = e \div r
  BY <1>8, <1>11, <1>13, DivCancel
<1>15. BuySlippage(side, cost).slippage = e \div r
  BY <1>10, <1>11, <1>13, <1>14
<1> QED BY <1>5, <1>15 DEF e, r, b, cost

LEMMA BidEstimate ==
    ASSUME NEW book \in Books, NEW n \in Nat \ {0}, n <= Coins(book.bids, Len(book.bids))
    PROVE  LET got == FillCost(book.bids, n)
               best == n * book.bids[1].price
           IN CalculateSlippage(book, "bids", n).slippage = (Hundred * (best - got)) \div best
<1> DEFINE side == book.bids
           b == side[1].price
           enough == {k \in DOMAIN side : Coins(side, k) >= n}
           k == Min(enough)
           got == Money(side, k - 1) + side[k].price * (n - Coins(side, k - 1))
           paid == [available |-> TRUE, levels |-> Used(side, k), slippage |-> (Hundred * (b * n - got)) \div (b * n)]
<1>1. side \in Seq(Levels) /\ side # <<>>
  BY BooksAre
<1>2. enough # {} /\ Reached(side, n, k)
  BY <1>1, ReachedFirst
<1>3. FillCost(side, n) = Money(side, k - 1) + (n - Coins(side, k - 1)) * side[k].price
  BY <1>1, <1>2, FilledAt
<1>4. b \in Nat \ {0} /\ side[k].price \in Nat /\ Coins(side, k - 1) \in Nat
  <2>1. k \in 1 .. Len(side) /\ 1 \in 1 .. Len(side) /\ k - 1 \in 0 .. Len(side)
    BY <1>1, <1>2, SideIs DEF Reached
  <2> HIDE DEF k
  <2> QED BY <1>1, <2>1, SideIs, SideRuns
<1>5. CalculateSlippage(book, "bids", n) = SellSlippage(side, n)
  <2>1. ~(n <= 0) /\ book["bids"] # <<>> /\ "bids" # "asks"
    BY <1>1
  <2> QED BY <2>1 DEF CalculateSlippage
<1>6. SellSlippage(side, n) = IF b <= 0 THEN NoQuote
                              ELSE IF enough = {} THEN [NoLiquidity EXCEPT !.levels = Len(side)] ELSE paid
  BY DEF SellSlippage, Money, Coins
<1>7. paid.slippage = (Hundred * (b * n - got)) \div (b * n)
  <2> HIDE DEF got, k, b
  <2> QED BY DEF paid
<1>8. SellSlippage(side, n) = paid
  <2> HIDE DEF paid, enough
  <2>1. ~(b <= 0)
    BY <1>4
  <2> HIDE DEF b
  <2> QED BY <1>2, <1>6, <2>1
<1>9. got = FillCost(side, n)
  <2> DEFINE p == side[k].price
             c == Coins(side, k - 1)
  <2>1. p \in Nat /\ c \in Nat
    BY <1>4
  <2>2. got = Money(side, k - 1) + p * (n - c) /\ FillCost(side, n) = Money(side, k - 1) + (n - c) * p
    BY <1>3
  <2> HIDE DEF p, c, got, k
  <2>3. p * (n - c) = (n - c) * p
    BY <2>1
  <2> QED BY <2>2, <2>3
<1> HIDE DEF paid, got, enough, k
<1>10. b * n = n * b
  BY <1>4
<1> QED BY <1>5, <1>7, <1>8, <1>9, <1>10

\* A side with k times the coins on every level.
Scaled(side, k) == [j \in DOMAIN side |-> [side[j] EXCEPT !.size = k * @]]

LEMMA ScaledIs ==
    ASSUME NEW side \in Seq(Levels), NEW k \in Nat \ {0}
    PROVE  /\ Scaled(side, k) \in Seq(Levels) /\ Len(Scaled(side, k)) = Len(side)
           /\ \A j \in 1 .. Len(side) : Scaled(side, k)[j].price = side[j].price
           /\ \A j \in 0 .. Len(side) : Coins(Scaled(side, k), j) = k * Coins(side, j)
<1> DEFINE n == Len(side)
           S == Scaled(side, k)
           G == {j \in 0 .. n : Coins(S, j) = k * Coins(side, j)}
<1>1. n \in Nat /\ DOMAIN side = 1 .. n /\ \A j \in 1 .. n : side[j].price \in Nat \ {0} /\ side[j].size \in Nat \ {0}
  BY SideIs
<1>2. \A j \in 1 .. n : k * side[j].size \in Nat \ {0}
  <2>1. \A a, b \in Nat \ {0} : a * b \in Nat \ {0}
    OBVIOUS
  <2> QED BY <1>1, <2>1
<1>3. \A j \in 1 .. n : side[j] \in Levels
  BY <1>1
<1>4. \A j \in 1 .. n : S[j] \in Levels /\ S[j].price = side[j].price /\ S[j].size = k * side[j].size
  <2> TAKE j \in 1 .. n
  <2>1. S[j] = [side[j] EXCEPT !.size = k * @]
    BY <1>1 DEF Scaled
  <2>2. [side[j] EXCEPT !.size = k * @] = [price |-> side[j].price, size |-> k * side[j].size]
    <3>1. side[j] \in [price : Nat \ {0}, size : Nat \ {0}]
      BY <1>3 DEF Levels
    <3> QED BY <3>1
  <2> HIDE DEF S
  <2> QED BY <1>1, <1>2, <2>1, <2>2 DEF Levels
<1>5. S \in [1 .. n -> Levels]
  <2>1. S = [j \in 1 .. n |-> S[j]]
    BY <1>1 DEF Scaled
  <2> HIDE DEF S, n
  <2> QED BY <1>4, <2>1
<1>6. S \in Seq(Levels) /\ Len(S) = n
  <2> HIDE DEF S, n
  <2> QED BY <1>1, <1>5
<1>7. 0 \in G
  <2>1. Coins(S, 0) = 0 /\ Coins(side, 0) = 0
    BY <1>6, SideRuns
  <2> QED BY <1>1, <2>1
<1>8. ASSUME NEW j \in 1 .. n, j - 1 \in G PROVE j \in G
  <2>1. Coins(S, j) = Coins(S, j - 1) + S[j].size /\ Coins(side, j) = Coins(side, j - 1) + side[j].size
    <3>1. j \in 1 .. Len(S)
      BY <1>6
    <3> QED BY <1>6, <3>1, SideRuns
  <2>2. Coins(side, j - 1) \in Nat /\ Coins(S, j - 1) = k * Coins(side, j - 1) /\ j \in 0 .. n
    <3>1. j - 1 \in 0 .. n /\ j \in 0 .. n
      BY <1>1
    <3> QED BY <1>8, <3>1, SideRuns
  <2>3. S[j].size = k * side[j].size /\ side[j].size \in Nat
    BY <1>1, <1>4
  <2> DEFINE c == Coins(side, j - 1)
             s == side[j].size
  <2>4. Coins(S, j) = k * c + k * s /\ Coins(side, j) = c + s /\ c \in Nat /\ s \in Nat
    BY <2>1, <2>2, <2>3
  <2> HIDE DEF c, s
  <2>5. k * c + k * s = k * (c + s)
    BY <2>4
  <2> QED BY <2>2, <2>4, <2>5
<1>9. \A j \in 0 .. n : j \in G
  <2> HIDE DEF G, n
  <2> QED BY <1>1, <1>7, <1>8, Climb
<1> QED BY <1>4, <1>6, <1>9

\* Splitting further costs no more, or brings no less, and never beats the best price.
LEMMA SplitsHelp ==
    ASSUME NEW side \in Seq(Levels), side # <<>>, NEW sign \in {1, -1}, Sloped(side, sign),
           NEW n \in Nat, NEW k \in Nat \ {0}
    PROVE  /\ sign * SplitCost(side, n, k + 1) <= sign * SplitCost(side, n, k)
           /\ sign * SplitCost(side, n, k) <= sign * FillCost(side, n)
           /\ sign * (n * side[1].price) <= sign * SplitCost(side, n, k)
           /\ SplitCost(side, n, k) \in Int /\ SplitCost(side, n, k + 1) \in Int /\ FillCost(side, n) \in Int
<1> DEFINE S(i) == Scaled(side, i)
<1>1. Len(side) \in Nat /\ Len(side) # 0 /\ 1 \in 1 .. Len(side) /\ \A j \in 1 .. Len(side) : side[j].price \in Nat
  <2>1. Len(side) \in Nat /\ Len(side) # 0
    BY SideIs
  <2> QED BY <2>1, SideIs
<1>2. \A i \in Nat \ {0} : /\ S(i) \in Seq(Levels) /\ Len(S(i)) = Len(side) /\ S(i) # <<>>
                           /\ \A j \in 1 .. Len(side) : S(i)[j].price = side[j].price
                           /\ \A j \in 0 .. Len(side) : Coins(S(i), j) = i * Coins(side, j)
  <2> TAKE i \in Nat \ {0}
  <2>1. /\ S(i) \in Seq(Levels) /\ Len(S(i)) = Len(side)
        /\ \A j \in 1 .. Len(side) : S(i)[j].price = side[j].price
        /\ \A j \in 0 .. Len(side) : Coins(S(i), j) = i * Coins(side, j)
    BY ScaledIs
  <2> HIDE DEF S
  <2> QED BY <1>1, <2>1
<1>3. \A i : SplitCost(side, n, i) = FillCost(S(i), n)
  BY DEF SplitCost, Scaled
<1>4. \A j \in 0 .. Len(side) : Coins(side, j) \in Nat
  BY SideRuns
<1>5. \A i \in Nat \ {0} : Sloped(S(i), sign)
  <2> TAKE i \in Nat \ {0}
  <2>1. \A j \in 2 .. Len(side) : j \in 1 .. Len(side) /\ j - 1 \in 1 .. Len(side)
    BY <1>1
  <2> HIDE DEF S
  <2> QED BY <1>2, <2>1 DEF Sloped
<1> HIDE DEF S
<1>6. k + 1 \in Nat \ {0}
  OBVIOUS
<1>7. \A j \in 0 .. Len(side) : Coins(side, j) <= Coins(S(k), j) /\ Coins(S(k), j) <= Coins(S(k + 1), j)
  <2> TAKE j \in 0 .. Len(side)
  <2> DEFINE c == Coins(side, j)
  <2>1. Coins(S(k), j) = k * c /\ Coins(S(k + 1), j) = (k + 1) * c /\ c \in Nat
    BY <1>2, <1>4, <1>6
  <2> HIDE DEF c
  <2>2. 1 * c <= k * c /\ k * c <= (k + 1) * c /\ 1 * c = c
    <3>1. k \in Int /\ k + 1 \in Int /\ 1 \in Int /\ 1 <= k /\ k <= k + 1
      OBVIOUS
    <3> QED BY <2>1, <3>1, TimesGrows
  <2> QED BY <2>1, <2>2 DEF c
<1>8. /\ sign * FillCost(S(k), n) <= sign * FillCost(side, n)
      /\ FillCost(side, n) \in Int
  BY <1>2, <1>7, DeeperFills
<1>9. /\ sign * FillCost(S(k + 1), n) <= sign * FillCost(S(k), n)
      /\ sign * (n * S(k)[1].price) <= sign * FillCost(S(k), n)
      /\ FillCost(S(k), n) \in Int
  <2> DEFINE s == S(k)
             o == S(k + 1)
  <2>1. s \in Seq(Levels) /\ s # <<>> /\ o \in Seq(Levels) /\ Len(o) = Len(s) /\ Len(s) = Len(side) /\ Sloped(s, sign)
    BY <1>2, <1>5, <1>6
  <2>2. \A j \in 1 .. Len(s) : o[j].price = s[j].price
    BY <1>2, <1>6, <2>1
  <2>3. \A j \in 0 .. Len(s) : Coins(s, j) <= Coins(o, j)
    BY <1>7, <2>1
  <2> HIDE DEF s, o
  <2>4. /\ sign * FillCost(o, n) <= sign * FillCost(s, n)
        /\ sign * (n * s[1].price) <= sign * FillCost(s, n)
        /\ FillCost(s, n) \in Int
    BY <2>1, <2>2, <2>3, DeeperFills
  <2> QED BY <2>4 DEF s, o
<1>10. FillCost(S(k + 1), n) \in Int
  <2> DEFINE o == S(k + 1)
  <2>1. o \in Seq(Levels) /\ o # <<>> /\ Sloped(o, sign) /\ \A j \in 1 .. Len(o) : o[j].price = o[j].price
    BY <1>2, <1>5, <1>6
  <2>2. \A j \in 0 .. Len(o) : Coins(o, j) <= Coins(o, j)
    <3>1. \A j \in 0 .. Len(o) : Coins(o, j) \in Nat
      BY <2>1, SideRuns
    <3> QED BY <3>1
  <2> HIDE DEF o
  <2>3. FillCost(o, n) \in Int
    BY <2>1, <2>2, DeeperFills
  <2> QED BY <2>3 DEF o
<1>11. S(k)[1].price = side[1].price
  BY <1>1, <1>2
<1> QED BY <1>3, <1>8, <1>9, <1>10, <1>11

LEMMA SplitsAre ==
    ASSUME NEW side \in Seq(Levels), NEW n \in Nat
    PROVE  OptimalSplits(side, n) \in Int
<1> DEFINE top == Min({5, Len(side)})
           mean == Upto(Size, side, top)
           q == (n * top) \div mean
           least == Min({q, 10})
<1>1. CASE side = <<>> \/ n * top <= mean
  BY <1>1 DEF OptimalSplits
<1>2. CASE ~(side = <<>> \/ n * top <= mean)
  <2>1. Len(side) \in Nat /\ Len(side) # 0
    BY <1>2, SideIs
  <2>2. top = IF 5 <= Len(side) THEN 5 ELSE Len(side)
    <3>1. 5 \in Int /\ Len(side) \in Int
      BY <2>1
    <3> QED BY <3>1, LeastOfTwo
  <2>3. top \in 1 .. Len(side) /\ top \in 0 .. Len(side)
    BY <2>1, <2>2
  <2>4. mean = Coins(side, top) /\ Coins(side, top - 1) \in Nat /\ Coins(side, top) = Coins(side, top - 1) + side[top].size
    <3>1. top - 1 \in 0 .. Len(side)
      BY <2>1, <2>3
    <3> HIDE DEF top
    <3> QED BY <2>3, <3>1, SideRuns
  <2>5. side[top].size \in Nat \ {0}
    BY <2>3, SideIs
  <2>6. mean \in Nat \ {0}
    BY <2>4, <2>5
  <2>7. n * top \in Int
    BY <2>3
  <2>8. OptimalSplits(side, n) = Max({2, least})
    BY <1>2 DEF OptimalSplits
  <2> HIDE DEF mean, top
  <2>9. q \in Int /\ 10 \in Int /\ 2 \in Int
    BY <2>6, <2>7, DivIs
  <2> HIDE DEF q
  <2>10. least \in Int
    BY <2>9, LeastOfTwo
  <2> HIDE DEF least
  <2> QED BY <2>8, <2>9, <2>10, GreatestOfTwo
<1> QED BY <1>1, <1>2

LEMMA CountIs ==
    ASSUME NEW n \in Nat, NEW k \in Nat \ {0}
    PROVE  SplitCount(n, k, 2) = 1 \/ 2 * SplitCount(n, k, 2) <= n
<1> DEFINE h == n \div 2
           m == Min({k, h})
<1>1. h \in Int /\ 2 * h <= n /\ k \in Int /\ 1 \in Int
  <2>1. n \in Int /\ 2 \in Nat \ {0}
    OBVIOUS
  <2> QED BY <2>1, DivIs
<1>2. SplitCount(n, k, 2) = Max({1, m})
  BY DEF SplitCount
<1> HIDE DEF h
<1>3. m = IF k <= h THEN k ELSE h
  BY <1>1, LeastOfTwo
<1>4. m \in Int /\ m <= h
  BY <1>1, <1>3
<1> HIDE DEF m
<1>5. Max({1, m}) = IF 1 <= m THEN m ELSE 1
  BY <1>1, <1>4, GreatestOfTwo
<1> QED BY <1>1, <1>2, <1>4, <1>5

\* Through every book, splitting an order costs no more than placing it whole, gains nothing on the
\* best price, and makes no part smaller than the least size; the estimate of an order that the
\* book can fill is what it will cost.  (OrderPlans; SlippageModel: calculate_slippage.)
THEOREM PlansAgreeAlways ==
    ASSUME NEW book \in Books, NEW sizes \in SUBSET (Nat \ {0})
    PROVE  PlansAgree(book, sizes)
<1> DEFINE asks == book.asks
           bids == book.bids
<1>1. asks \in Seq(Levels) /\ asks # <<>> /\ bids \in Seq(Levels) /\ bids # <<>> /\ Rising(asks)
      /\ \A i, j \in DOMAIN bids : i < j => bids[i].price >= bids[j].price
  BY BooksAre
<1>2. Sloped(asks, 1)
  <2> SUFFICES ASSUME NEW j \in 2 .. Len(asks) PROVE 0 <= 1 * (asks[j].price - asks[j - 1].price)
    BY DEF Sloped
  <2>1. j \in 1 .. Len(asks) /\ j - 1 \in 1 .. Len(asks) /\ DOMAIN asks = 1 .. Len(asks) /\ j - 1 < j
    BY <1>1, SideIs
  <2>2. asks[j - 1].price <= asks[j].price
    BY <1>1, <2>1 DEF Rising
  <2>3. asks[j - 1].price \in Nat /\ asks[j].price \in Nat
    BY <1>1, <2>1, SideIs
  <2> QED BY <2>2, <2>3
<1>3. Sloped(bids, -1)
  <2> SUFFICES ASSUME NEW j \in 2 .. Len(bids) PROVE 0 <= (-1) * (bids[j].price - bids[j - 1].price)
    BY DEF Sloped
  <2>1. j \in 1 .. Len(bids) /\ j - 1 \in 1 .. Len(bids) /\ DOMAIN bids = 1 .. Len(bids) /\ j - 1 < j
    BY <1>1, SideIs
  <2>2. bids[j - 1].price >= bids[j].price
    BY <1>1, <2>1
  <2>3. bids[j - 1].price \in Nat /\ bids[j].price \in Nat
    BY <1>1, <2>1, SideIs
  <2> QED BY <2>2, <2>3
<1>4. ASSUME NEW n \in sizes, NEW k \in 1 .. OptimalSplits(asks, n)
      PROVE  /\ SplitCost(asks, n, k) \in n * asks[1].price .. FillCost(asks, n)
             /\ SplitCost(asks, n, k + 1) <= SplitCost(asks, n, k)
             /\ SplitCount(n, k, 2) = 1 \/ 2 * SplitCount(n, k, 2) <= n
  <2>1. n \in Nat
    OBVIOUS
  <2>2. k \in Nat \ {0} /\ 1 \in {1, -1}
    <3>1. OptimalSplits(asks, n) \in Int
      BY <1>1, <2>1, SplitsAre
    <3> QED BY <3>1
  <2>3. /\ 1 * SplitCost(asks, n, k + 1) <= 1 * SplitCost(asks, n, k)
        /\ 1 * SplitCost(asks, n, k) <= 1 * FillCost(asks, n)
        /\ 1 * (n * asks[1].price) <= 1 * SplitCost(asks, n, k)
        /\ SplitCost(asks, n, k) \in Int /\ SplitCost(asks, n, k + 1) \in Int /\ FillCost(asks, n) \in Int
    BY <1>1, <1>2, <2>1, <2>2, SplitsHelp
  <2>4. n * asks[1].price \in Int
    <3>1. 1 \in 1 .. Len(asks)
      BY <1>1
    <3>2. asks[1].price \in Nat
      BY <1>1, <3>1, SideIs
    <3> QED BY <2>1, <3>2
  <2>5. SplitCount(n, k, 2) = 1 \/ 2 * SplitCount(n, k, 2) <= n
    BY <2>1, <2>2, CountIs
  <2> DEFINE a == SplitCost(asks, n, k + 1)
             b == SplitCost(asks, n, k)
             c == FillCost(asks, n)
             d == n * asks[1].price
  <2>6. 1 * a <= 1 * b /\ 1 * b <= 1 * c /\ 1 * d <= 1 * b /\ a \in Int /\ b \in Int /\ c \in Int /\ d \in Int
    BY <2>3, <2>4
  <2> HIDE DEF a, b, c, d
  <2>7. a <= b /\ b \in d .. c
    BY <2>6
  <2> QED BY <2>5, <2>7 DEF a, b, c, d
<1>5. ASSUME NEW n \in sizes, NEW k \in 1 .. OptimalSplits(bids, n)
      PROVE  SplitCost(bids, n, k) \in FillCost(bids, n) .. n * bids[1].price
  <2>1. n \in Nat
    OBVIOUS
  <2>2. k \in Nat \ {0} /\ -1 \in {1, -1}
    <3>1. OptimalSplits(bids, n) \in Int
      BY <1>1, <2>1, SplitsAre
    <3> QED BY <3>1
  <2>3. /\ (-1) * SplitCost(bids, n, k) <= (-1) * FillCost(bids, n)
        /\ (-1) * (n * bids[1].price) <= (-1) * SplitCost(bids, n, k)
        /\ SplitCost(bids, n, k) \in Int /\ FillCost(bids, n) \in Int
    BY <1>1, <1>3, <2>1, <2>2, SplitsHelp
  <2>4. n * bids[1].price \in Int
    <3>1. 1 \in 1 .. Len(bids)
      BY <1>1
    <3>2. bids[1].price \in Nat
      BY <1>1, <3>1, SideIs
    <3> QED BY <2>1, <3>2
  <2> DEFINE b == SplitCost(bids, n, k)
             c == FillCost(bids, n)
             d == n * bids[1].price
  <2>6. (-1) * b <= (-1) * c /\ (-1) * d <= (-1) * b /\ b \in Int /\ c \in Int /\ d \in Int
    BY <2>3, <2>4
  <2> HIDE DEF b, c, d
  <2>7. b \in c .. d
    BY <2>6
  <2> QED BY <2>7 DEF b, c, d
<1>6. Upto(Size, asks, Len(asks)) = Coins(asks, Len(asks)) /\ Upto(Size, bids, Len(bids)) = Coins(bids, Len(bids))
  <2>1. Len(asks) \in 0 .. Len(asks) /\ Len(bids) \in 0 .. Len(bids)
    BY <1>1, SideIs
  <2> QED BY <1>1, <2>1, SideRuns
<1>7. ASSUME NEW n \in sizes, n <= Upto(Size, asks, Len(asks))
      PROVE  CalculateSlippage(book, "asks", FillCost(asks, n)).slippage =
               (Hundred * (FillCost(asks, n) - n * asks[1].price)) \div (n * asks[1].price)
  <2>1. n \in Nat \ {0}
    OBVIOUS
  <2> QED BY <1>6, <1>7, <2>1, AskEstimate
<1>8. ASSUME NEW n \in sizes, n <= Upto(Size, bids, Len(bids))
      PROVE  CalculateSlippage(book, "bids", n).slippage =
               (Hundred * (n * bids[1].price - FillCost(bids, n))) \div (n * bids[1].price)
  <2>1. n \in Nat \ {0}
    OBVIOUS
  <2> QED BY <1>6, <1>8, <2>1, BidEstimate
<1>9. book["asks"] = asks /\ book["bids"] = bids
  OBVIOUS
<1> HIDE DEF asks, bids
<1> QED BY <1>4, <1>5, <1>7, <1>8, <1>9 DEF PlansAgree, asks, bids

-----------------------------------------------------------------------------
(* The votes.                                                              *)

-----------------------------------------------------------------------------
(* Votes.  What a rule says is points for buying, points for selling and a *)
(* number of sentences.                                                    *)

Points == [buy : Nat, sell : Nat, said : Nat]

LEMMA SayIs ==
    /\ \A p \in Nat : Buy(p) \in Points /\ Buy(p).buy = p /\ Buy(p).sell = 0
    /\ \A p \in Nat : Sell(p) \in Points /\ Sell(p).buy = 0 /\ Sell(p).sell = p
    /\ Silent \in Points /\ Silent.buy = 0 /\ Silent.sell = 0
    /\ Remark \in Points /\ Remark.buy = 0 /\ Remark.sell = 0
BY DEF Points, Buy, Sell, Silent, Remark

LEMMA AddUp ==
    ASSUME NEW s \in Points, NEW t \in Points
    PROVE  Plus(s, t) \in Points /\ Unsaid(s) \in Points
BY DEF Points, Plus, Unsaid

\* The sum of natural numbers is one.
LEMMA SumNat ==
    ASSUME NEW n \in Nat, NEW f \in [1 .. n -> Nat]
    PROVE  SumFunction(f) \in Nat
<1> DEFINE z == [j \in 1 .. n |-> 0]
<1>1. z \in [1 .. n -> Int] /\ f \in [1 .. n -> Int] /\ 1 \in Int /\ n \in Int /\ 1 <= n + 1
  OBVIOUS
<1>2. \A j \in 1 .. n : z[j] <= f[j]
  OBVIOUS
<1>3. SumFunction(z) = 0 * (n - 1 + 1)
  <2>1. 0 \in Int
    OBVIOUS
  <2> QED BY <1>1, <2>1, SumConst
<1>4. SumFunction(f) \in Int
  BY <1>1, SumInt
<1> HIDE DEF z
<1>5. SumFunction(z) <= SumFunction(f)
  BY <1>1, <1>2, SumLe
<1> QED BY <1>1, <1>3, <1>4, <1>5

LEMMA AllIs ==
    ASSUME NEW rules \in Seq(Points)
    PROVE  AllOf(rules) \in Points
<1> DEFINE n == Len(rules)
           b == [i \in 1 .. n |-> rules[i].buy]
           s == [i \in 1 .. n |-> rules[i].sell]
           t == [i \in 1 .. n |-> rules[i].said]
<1>1. n \in Nat /\ \A i \in 1 .. n : rules[i] \in Points
  OBVIOUS
<1>2. b \in [1 .. n -> Nat] /\ s \in [1 .. n -> Nat] /\ t \in [1 .. n -> Nat]
  BY <1>1 DEF Points
<1>3. AllOf(rules) = [buy |-> SumFunction(b), sell |-> SumFunction(s), said |-> SumFunction(t)]
  BY DEF AllOf, Total
<1> HIDE DEF b, s, t, n
<1>4. SumFunction(b) \in Nat /\ SumFunction(s) \in Nat /\ SumFunction(t) \in Nat
  BY <1>1, <1>2, SumNat
<1> QED BY <1>3, <1>4 DEF Points

\* The sum of four numbers.
LEMMA SumFour ==
    ASSUME NEW f \in [1 .. 4 -> Nat]
    PROVE  SumFunction(f) = f[1] + f[2] + f[3] + f[4]
<1> DEFINE a == 1
           b == 4
           R == Running(a, b, f)
<1>1. f \in [a .. b -> Int] /\ a <= b + 1 /\ a \in Int /\ b \in Int
  OBVIOUS
<1>b. a = 1 /\ b = 4
  OBVIOUS
<1> HIDE DEF a, b
<1>a. /\ Running(a, b, f) \in [a - 1 .. b -> Int] /\ Running(a, b, f)[a - 1] = 0
      /\ \A k \in a .. b : Running(a, b, f)[k] = Running(a, b, f)[k - 1] + f[k]
      /\ Running(a, b, f)[b] = SumFunction(f)
  <2>1. RunsUp(a, b, f, Running(a, b, f))
    BY <1>1, SumRunsUp
  <2> QED BY <2>1 DEF RunsUp
<1>2. R \in [a - 1 .. b -> Int] /\ R[a - 1] = 0 /\ R[b] = SumFunction(f) /\ \A k \in a .. b : R[k] = R[k - 1] + f[k]
  BY <1>a
<1> HIDE DEF R
<1>3. R[0] = 0 /\ R[4] = SumFunction(f) /\ \A k \in 1 .. 4 : R[k] = R[k - 1] + f[k]
  BY <1>b, <1>2
<1>4. R[1] = R[0] + f[1] /\ R[2] = R[1] + f[2] /\ R[3] = R[2] + f[3] /\ R[4] = R[3] + f[4]
  BY <1>3
<1>5. f[1] \in Nat /\ f[2] \in Nat /\ f[3] \in Nat /\ f[4] \in Nat
  OBVIOUS
<1> QED BY <1>3, <1>4, <1>5

LEMMA FourRules ==
    ASSUME NEW p \in Points, NEW q \in Points, NEW r \in Points, NEW s \in Points
    PROVE  /\ AllOf(<<p, q, r, s>>) \in Points
           /\ AllOf(<<p, q, r, s>>).buy = p.buy + q.buy + r.buy + s.buy
           /\ AllOf(<<p, q, r, s>>).sell = p.sell + q.sell + r.sell + s.sell
<1> DEFINE all == <<p, q, r, s>>
           f == [i \in 1 .. 4 |-> all[i].buy]
           g == [i \in 1 .. 4 |-> all[i].sell]
<1>1. all \in Seq(Points) /\ Len(all) = 4
  OBVIOUS
<1>2. all[1] = p /\ all[2] = q /\ all[3] = r /\ all[4] = s
  OBVIOUS
<1>3. \A i \in 1 .. 4 : all[i] \in Points
  BY <1>1
<1> HIDE DEF all
<1>4. f \in [1 .. 4 -> Nat] /\ g \in [1 .. 4 -> Nat]
  BY <1>3 DEF Points
<1>5. AllOf(all).buy = SumFunction(f) /\ AllOf(all).sell = SumFunction(g)
  BY <1>1 DEF AllOf, Total
<1>6. /\ f[1] = p.buy /\ f[2] = q.buy /\ f[3] = r.buy /\ f[4] = s.buy
      /\ g[1] = p.sell /\ g[2] = q.sell /\ g[3] = r.sell /\ g[4] = s.sell
  BY <1>2
<1> HIDE DEF f, g
<1>7. AllOf(all) \in Points
  BY <1>1, AllIs
<1> QED BY <1>4, <1>5, <1>6, <1>7, SumFour DEF all

LEMMA LeadsIs ==
    ASSUME NEW r, NEW s, NEW p \in Nat
    PROVE  Leads(r, s, p) \in Points
BY SayIs DEF Leads

LEMMA ExtremesIs ==
    ASSUME NEW r, NEW low, NEW high, NEW p \in Nat
    PROVE  /\ Extremes(r, low, high, p) \in Points
           /\ Extremes(r, low, high, p).buy <= p /\ Extremes(r, low, high, p).sell <= p
           /\ Extremes(r, low, high, p).buy > 0 => Under(r, low)
           /\ Extremes(r, low, high, p).sell > 0 => Over(r, high)
<1> DEFINE e == Extremes(r, low, high, p)
<1>1. CASE Truthy(r) /\ Under(r, low)
  <2>1. e = Buy(p)
    BY <1>1 DEF Extremes
  <2>2. Buy(p) \in Points /\ Buy(p).buy \in {0, p} /\ Buy(p).sell \in {0, p} /\ Buy(p).sell = 0
    BY SayIs
  <2> HIDE DEF e
  <2>3. e \in Points /\ e.buy <= p /\ e.sell <= p /\ ~(e.sell > 0)
    BY <2>1, <2>2
  <2> QED BY <1>1, <2>3 DEF e
<1>2. CASE ~(Truthy(r) /\ Under(r, low)) /\ Truthy(r) /\ Over(r, high)
  <2>1. e = Sell(p)
    BY <1>2 DEF Extremes
  <2>2. Sell(p) \in Points /\ Sell(p).buy \in {0, p} /\ Sell(p).sell \in {0, p} /\ Sell(p).buy = 0
    BY SayIs
  <2> HIDE DEF e
  <2>3. e \in Points /\ e.buy <= p /\ e.sell <= p /\ ~(e.buy > 0)
    BY <2>1, <2>2
  <2> QED BY <1>2, <2>3 DEF e
<1>3. CASE ~(Truthy(r) /\ Under(r, low)) /\ ~(Truthy(r) /\ Over(r, high))
  <2>1. e = Silent
    BY <1>3 DEF Extremes
  <2> HIDE DEF e
  <2>2. e \in Points /\ e.buy = 0 /\ e.sell = 0
    BY <2>1, SayIs
  <2>3. e.buy <= p /\ e.sell <= p /\ ~(e.buy > 0) /\ ~(e.sell > 0)
    BY <2>2
  <2> QED BY <2>2, <2>3 DEF e
<1> QED BY <1>1, <1>2, <1>3

LEMMA TrendIs ==
    ASSUME NEW d
    PROVE  Trend(d) \in Points
<1> DEFINE price == {100 * d[Len(d)].close}
           ma == [i \in 1 .. 3 |-> Ma(d, MaPeriods[i])]
           histogram == Macd(d) - MacdSignal(d)
           r1 == Leads(ma[1], ma[2], 2)
           r2 == Leads(ma[2], ma[3], 2)
           r3 == Leads(price, ma[2], 1)
           r4 == Leads(Ema(d, EmaPeriods[1]), Ema(d, EmaPeriods[2]), 2)
           r5 == IF 0 \in {Macd(d), MacdSignal(d)} THEN Silent ELSE Leads({Macd(d)}, {MacdSignal(d)}, 3)
           h == IF histogram > 0 THEN Buy(1) ELSE IF histogram < 0 THEN Sell(1) ELSE Silent
           r6 == Unsaid(h)
           rules == AllOf(<<r1, r2, r3, r4, r5, r6>>)
           adx == Adx(d)
<1>1. Trend(d) = IF ~Truthy(adx) \/ ~(Over(adx, 2500) \/ Under(adx, 2000)) THEN rules
                 ELSE IF Under(adx, 2000) \/ rules.buy = rules.sell THEN Plus(rules, Remark)
                 ELSE Plus(rules, IF rules.buy > rules.sell THEN Buy(1) ELSE Sell(1))
  BY DEF Trend
<1>2. r1 \in Points /\ r2 \in Points /\ r3 \in Points /\ r4 \in Points
  <2> HIDE DEF price, ma
  <2> QED BY LeadsIs
<1>3. r5 \in Points
  BY LeadsIs, SayIs
<1>4. h \in Points
  <2> HIDE DEF histogram
  <2> QED BY SayIs
<1>5. r6 \in Points
  <2> HIDE DEF h
  <2> QED BY <1>4, AddUp
<1> HIDE DEF r1, r2, r3, r4, r5, r6, adx
<1>6. rules \in Points
  <2>1. <<r1, r2, r3, r4, r5, r6>> \in Seq(Points)
    BY <1>2, <1>3, <1>5
  <2> QED BY <2>1, AllIs
<1> HIDE DEF rules
<1>7. Plus(rules, Remark) \in Points /\ Plus(rules, Buy(1)) \in Points /\ Plus(rules, Sell(1)) \in Points
  BY <1>6, AddUp, SayIs
<1> QED BY <1>1, <1>6, <1>7

LEMMA StochasticIs ==
    ASSUME NEW k, NEW e
    PROVE  /\ StochasticRule(k, e) \in Points
           /\ StochasticRule(k, e).buy <= 3 /\ StochasticRule(k, e).sell <= 3
           /\ ~Under(k, 2000) => StochasticRule(k, e).buy < 3
           /\ ~Over(k, 8000) => StochasticRule(k, e).sell < 3
<1> DEFINE r == StochasticRule(k, e)
<1>1. r \in {Silent, Buy(3), Sell(3), Buy(1), Sell(1)} /\ (~Under(k, 2000) => r # Buy(3))
  <2>1. r \in {Silent, Buy(3), Sell(3), Buy(1), Sell(1)}
    BY DEF StochasticRule
  <2>2. Buy(3) # Silent /\ Buy(3) # Sell(3) /\ Buy(3) # Buy(1) /\ Buy(3) # Sell(1)
    BY DEF Buy, Sell, Silent
  <2>3. ~Under(k, 2000) => r # Buy(3)
    BY <2>2 DEF StochasticRule
  <2> QED BY <2>1, <2>3
<1>2. ~Over(k, 8000) => r # Sell(3)
  <2>1. Sell(3) # Silent /\ Sell(3) # Buy(3) /\ Sell(3) # Buy(1) /\ Sell(3) # Sell(1)
    BY DEF Buy, Sell, Silent
  <2> QED BY <2>1 DEF StochasticRule
<1>3. ~Under(k, 2000) => r # Buy(3)
  BY <1>1
<1> HIDE DEF r
<1>4. /\ Buy(3) \in Points /\ Buy(3).buy = 3 /\ Buy(3).sell = 0
      /\ Sell(3) \in Points /\ Sell(3).buy = 0 /\ Sell(3).sell = 3
      /\ Buy(1) \in Points /\ Buy(1).buy = 1 /\ Buy(1).sell = 0
      /\ Sell(1) \in Points /\ Sell(1).buy = 0 /\ Sell(1).sell = 1
      /\ Silent \in Points /\ Silent.buy = 0 /\ Silent.sell = 0
  BY SayIs
<1> QED BY <1>1, <1>2, <1>3, <1>4 DEF r

-----------------------------------------------------------------------------
(* The relative strength.                                                  *)

LEMMA ChangeIs ==
    ASSUME NEW d \in Seq(PriceBars), NEW j \in 1 .. Len(d)
    PROVE  /\ Change(d, j) \in Int
           /\ Max({Change(d, j), 0}) \in Nat /\ Max({0 - Change(d, j), 0}) \in Nat
           /\ Max({Change(d, j), 0}) - Max({0 - Change(d, j), 0}) = Change(d, j)
<1> DEFINE c == Change(d, j)
<1>1. c \in Int
  <2>1. d[j].close \in Nat
    BY BarsAre
  <2>2. CASE j = 1
    BY <2>2 DEF Change
  <2>3. CASE j # 1
    <3>1. j - 1 \in 1 .. Len(d)
      BY <2>3
    <3>2. d[j - 1].close \in Nat
      BY <3>1, BarsAre
    <3> QED BY <2>1, <2>3, <3>2 DEF Change
  <2> QED BY <2>2, <2>3
<1> HIDE DEF c
<1>2. c \in Int /\ 0 - c \in Int /\ 0 \in Int
  BY <1>1
<1>3. Max({c, 0}) = (IF c <= 0 THEN 0 ELSE c) /\ Max({0 - c, 0}) = IF 0 - c <= 0 THEN 0 ELSE 0 - c
  BY <1>2, GreatestOfTwo
<1>4. Max({c, 0}) \in Nat /\ Max({0 - c, 0}) \in Nat /\ Max({c, 0}) - Max({0 - c, 0}) = c
  BY <1>1, <1>3
<1> QED BY <1>1, <1>4 DEF c

\* What went up less what went down over the last bars is the move of the price.
Ups(d, i) == Total(LAMBDA j : Max({Change(d, j), 0}), i - Period + 1, i)
Downs(d, i) == Total(LAMBDA j : Max({0 - Change(d, j), 0}), i - Period + 1, i)

LEMMA MovesAddUp ==
    ASSUME NEW d \in Seq(PriceBars), NEW i \in 1 .. Len(d), Period <= i
    PROVE  /\ Ups(d, i) \in Nat /\ Downs(d, i) \in Nat
           /\ Ups(d, i) - Downs(d, i) = d[i].close - d[Max({1, i - Period})].close
<1> DEFINE a == i - Period + 1
           u == [j \in a .. i |-> Max({Change(d, j), 0})]
           v == [j \in a .. i |-> Max({0 - Change(d, j), 0})]
           past == Max({1, i - Period})
           z == [j \in a .. i |-> 0]
           U == Running(a, i, u)
           V == Running(a, i, v)
           G == {k \in 0 .. Period - 1 : U[a + k] - V[a + k] = d[a + k].close - d[past].close}
<1>1. Period \in Nat \ {0} /\ i \in Nat /\ a \in Int /\ 1 <= a /\ a <= i /\ a <= i + 1 /\ i \in Int
      /\ \A j \in a .. i : j \in 1 .. Len(d)
  BY BarsAre, PeriodsAre
<1>2. u \in [a .. i -> Nat] /\ v \in [a .. i -> Nat]
  BY <1>1, ChangeIs
<1>3. \A j \in a .. i : u[j] - v[j] = Change(d, j) /\ u[j] \in Nat /\ v[j] \in Nat
  <2> TAKE j \in a .. i
  <2>1. j \in 1 .. Len(d)
    BY <1>1
  <2> QED BY <1>2, <2>1, ChangeIs
<1>4. Ups(d, i) = SumFunction(u) /\ Downs(d, i) = SumFunction(v)
  BY DEF Ups, Downs, Total
<1>5. past = IF 1 <= i - Period THEN i - Period ELSE 1
  <2>1. 1 \in Int /\ i - Period \in Int
    BY <1>1
  <2> QED BY <2>1, GreatestOfTwo
<1> HIDE DEF u, v
<1>6. u \in [a .. i -> Int] /\ v \in [a .. i -> Int] /\ z \in [a .. i -> Int]
  BY <1>2
<1>7. /\ U \in [a - 1 .. i -> Int] /\ U[a - 1] = 0 /\ U[i] = SumFunction(u)
      /\ \A k \in a .. i : U[k] = U[k - 1] + u[k]
  <2> HIDE DEF a
  <2>1. RunsUp(a, i, u, U)
    BY <1>1, <1>6, SumRunsUp
  <2> QED BY <2>1 DEF RunsUp
<1>8. /\ V \in [a - 1 .. i -> Int] /\ V[a - 1] = 0 /\ V[i] = SumFunction(v)
      /\ \A k \in a .. i : V[k] = V[k - 1] + v[k]
  <2> HIDE DEF a
  <2>1. RunsUp(a, i, v, V)
    BY <1>1, <1>6, SumRunsUp
  <2> QED BY <2>1 DEF RunsUp
<1> HIDE DEF U, V
<1>9. SumFunction(u) \in Nat /\ SumFunction(v) \in Nat
  <2>1. SumFunction(z) = 0
    <3>1. SumFunction(z) = 0 * (i - a + 1)
      <4>1. 0 \in Int
        OBVIOUS
      <4> HIDE DEF a
      <4> QED BY <1>1, <4>1, SumConst
    <3> QED BY <1>1, <3>1
  <2>2. \A j \in a .. i : z[j] <= u[j] /\ z[j] <= v[j]
    BY <1>3
  <2>3. SumFunction(u) \in Int /\ SumFunction(v) \in Int
    <3> HIDE DEF a
    <3> QED BY <1>1, <1>6, SumInt
  <2> HIDE DEF z, a
  <2>4. SumFunction(z) <= SumFunction(u) /\ SumFunction(z) <= SumFunction(v)
    BY <1>1, <1>6, <2>2, SumLe
  <2> QED BY <2>1, <2>3, <2>4
<1>10. \A j \in 1 .. Len(d) : d[j].close \in Nat
  BY BarsAre
<1>11. past \in 1 .. Len(d) /\ (a = 1 => past = 1) /\ (a # 1 => past = a - 1)
  BY <1>1, <1>5
<1> HIDE DEF past
<1>12. \A k \in a .. i : Change(d, k) = (IF k = 1 THEN 0 ELSE d[k].close - d[k - 1].close)
  BY DEF Change
<1>13. 0 \in G
  <2>1. 0 \in 0 .. Period - 1 /\ a + 0 = a /\ a \in a .. i
    BY <1>1
  <2>2. U[a] = 0 + u[a] /\ V[a] = 0 + v[a]
    BY <1>7, <1>8, <2>1
  <2>3. U[a] - V[a] = Change(d, a)
    BY <1>3, <2>1, <2>2
  <2>4. Change(d, a) = d[a].close - d[past].close
    <3>1. d[a].close \in Nat /\ d[past].close \in Nat
      BY <1>1, <1>10, <1>11, <2>1
    <3>2. CASE a = 1
      <4>1. Change(d, a) = 0 /\ past = a
        BY <1>11, <3>2 DEF Change
      <4> QED BY <3>1, <4>1
    <3>3. CASE a # 1
      <4>1. Change(d, a) = d[a].close - d[a - 1].close
        BY <3>3 DEF Change
      <4> QED BY <1>11, <3>3, <4>1
    <3> QED BY <3>2, <3>3
  <2> QED BY <2>1, <2>3, <2>4
<1>14. ASSUME NEW k \in 1 .. Period - 1, k - 1 \in G PROVE k \in G
  <2> DEFINE m == a + k
  <2>1. m \in a .. i /\ m - 1 \in a .. i /\ m - 1 = a + (k - 1) /\ k \in 0 .. Period - 1 /\ m # 1 /\ m - 1 \in a - 1 .. i
    BY <1>1
  <2>2. U[m - 1] - V[m - 1] = d[m - 1].close - d[past].close
    BY <1>14, <2>1
  <2> HIDE DEF m
  <2>3. U[m] = U[m - 1] + u[m] /\ V[m] = V[m - 1] + v[m]
    BY <1>7, <1>8, <2>1
  <2>4. u[m] - v[m] = d[m].close - d[m - 1].close /\ u[m] \in Nat /\ v[m] \in Nat
    BY <1>3, <1>12, <2>1
  <2>5. U[m - 1] \in Int /\ V[m - 1] \in Int /\ d[m].close \in Nat /\ d[m - 1].close \in Nat /\ d[past].close \in Nat
    <3>1. m \in 1 .. Len(d) /\ m - 1 \in 1 .. Len(d)
      BY <1>1, <2>1
    <3> QED BY <1>7, <1>8, <1>10, <1>11, <2>1, <3>1
  <2>6. U[m] - V[m] = d[m].close - d[past].close
    <3>1. U[m] - V[m] = (U[m - 1] - V[m - 1]) + (u[m] - v[m])
      BY <2>3, <2>4, <2>5, SMTT(30)
    <3> QED BY <2>2, <2>4, <2>5, <3>1, SMTT(30)
  <2> QED BY <2>1, <2>6 DEF m
<1>15. U[i] - V[i] = d[i].close - d[past].close
  <2> DEFINE m == Period - 1
  <2>1. m \in Nat /\ m \in 0 .. m /\ a + m = i
    BY <1>1
  <2>2. \A k \in 1 .. m : k - 1 \in G => k \in G
    BY <1>14
  <2> HIDE DEF G, m
  <2>3. m \in G
    BY <1>13, <2>1, <2>2, Climb
  <2> HIDE DEF a
  <2> QED BY <2>1, <2>3 DEF G
<1> QED BY <1>4, <1>7, <1>8, <1>9, <1>15 DEF past

\* A reading is one number at most, and on the side of the middle to which the price moved.
LEMMA RsiIs ==
    ASSUME NEW d \in Seq(PriceBars), NEW i \in 1 .. Len(d), NEW x \in Rsi(d, i)
    PROVE  /\ Rsi(d, i) = {x} /\ x \in Int
           /\ x > 5000 => d[i].close > d[Max({1, i - Period})].close
           /\ x < 5000 => d[i].close < d[Max({1, i - Period})].close
<1> DEFINE U == Ups(d, i)
           V == Downs(d, i)
           past == Max({1, i - Period})
<1>1. Period \in Nat /\ i \in Int /\ ~(i - Period + 1 < 1)
  BY BarsAre, PeriodsAre DEF Rsi
<1>2. Rsi(d, i) = Share(U, V)
  BY <1>1 DEF Rsi, Ups, Downs
<1>3. Period <= i
  BY <1>1
<1>4. U \in Nat /\ V \in Nat /\ U - V = d[i].close - d[past].close
  BY <1>3, MovesAddUp
<1>5. d[i].close \in Int /\ d[past].close \in Int
  <2>1. past \in 1 .. Len(d)
    <3>1. 1 \in Int /\ i - Period \in Int
      BY <1>1
    <3>2. past = IF 1 <= i - Period THEN i - Period ELSE 1
      BY <3>1, GreatestOfTwo
    <3> QED BY <1>1, <3>2, BarsAre
  <2> HIDE DEF past
  <2> QED BY <2>1, BarsAre
<1> HIDE DEF U, V, past
<1>6. U + V # 0 /\ Rsi(d, i) = {(Hundred * U) \div (U + V)}
  BY <1>2 DEF Share
<1> DEFINE s == U + V
           h == Hundred * U
<1>7. x = h \div s /\ s \in Nat \ {0} /\ h = 10000 * U /\ h \in Int
  BY <1>4, <1>6 DEF Hundred
<1>8. x \in Int /\ s * x <= h /\ h < s * x + s
  <2> HIDE DEF s, h
  <2>1. h \in Int /\ s \in Nat \ {0} /\ x = h \div s
    BY <1>7
  <2>2. h \div s \in Int /\ s * (h \div s) <= h /\ h < s * (h \div s) + s
    BY <2>1, DivIs
  <2> QED BY <2>1, <2>2
<1>9. ASSUME x > 5000 PROVE U > V
  <2>1. 5001 * s <= x * s
    <3>1. 5001 \in Int /\ 5001 <= x /\ s \in Nat
      BY <1>7, <1>8, <1>9
    <3> HIDE DEF s
    <3> QED BY <1>8, <3>1, TimesGrows
  <2>2. x * s = s * x /\ s * x \in Int
    BY <1>7, <1>8
  <2>3. 5001 * s <= 10000 * U
    BY <1>7, <1>8, <2>1, <2>2
  <2> QED BY <1>4, <1>7, <2>3
<1>10. ASSUME x < 5000 PROVE U < V
  <2>1. x * s <= 4999 * s
    <3>1. 4999 \in Int /\ x <= 4999 /\ s \in Nat
      BY <1>7, <1>8, <1>10
    <3> HIDE DEF s
    <3> QED BY <1>8, <3>1, TimesGrows
  <2>2. x * s = s * x /\ s * x \in Int
    BY <1>7, <1>8
  <2>3. 10000 * U < 4999 * s + s
    BY <1>7, <1>8, <2>1, <2>2
  <2> QED BY <1>4, <2>3
<1>11. Rsi(d, i) = {x}
  BY <1>6
<1> QED BY <1>4, <1>5, <1>8, <1>9, <1>10, <1>11 DEF past

-----------------------------------------------------------------------------
(* The true range, the Keltner channel and the flash crash.                *)

LEMMA TrueRangeIs ==
    ASSUME NEW d \in Seq(PriceBars), NEW j \in 1 .. Len(d)
    PROVE  /\ TrueRange(d, j) \in Nat /\ d[j].high - d[j].low <= TrueRange(d, j)
           /\ j # 1 => /\ d[j].high - d[j - 1].close <= TrueRange(d, j)
                       /\ d[j - 1].close - d[j].low <= TrueRange(d, j)
<1> DEFINE h == d[j].high
           l == d[j].low
           closes == IF j = 1 THEN {} ELSE {d[j - 1].close}
           S == {h - l} \cup {Abs(h - c) : c \in closes} \cup {Abs(l - c) : c \in closes}
           p == d[j - 1].close
<1>1. h \in Nat /\ l \in Nat /\ l <= h
  <2>1. d[j].high \in Nat /\ d[j].low \in Nat /\ d[j].low <= d[j].close /\ d[j].close <= d[j].high /\ d[j].close \in Nat
    BY BarsAre
  <2> QED BY <2>1
<1>2. j # 1 => p \in Nat
  <2>1. j # 1 => j - 1 \in 1 .. Len(d)
    BY BarsAre
  <2> QED BY <2>1, BarsAre
<1>3. TrueRange(d, j) = Max(S)
  BY DEF TrueRange
<1> HIDE DEF h, l, p
<1>4. CASE j = 1
  <2>1. S = {h - l}
    BY <1>4
  <2>a. h - l \in Nat /\ IsFiniteSet({h - l})
    <3>1. h - l \in Nat
      BY <1>1
    <3>2. IsFiniteSet({h - l})
      BY FS_Singleton
    <3> QED BY <3>1, <3>2
  <2>b. IsFiniteSet(S)
    BY <2>1, <2>a
  <2>2. h - l \in Nat /\ S \in SUBSET Int /\ IsFiniteSet(S) /\ S # {}
    BY <2>1, <2>a, <2>b
  <2> HIDE DEF S
  <2>3. Max(S) \in S
    BY <2>2, TopOf
  <2> QED BY <1>3, <1>4, <2>1, <2>2, <2>3 DEF h, l
<1>5. CASE j # 1
  <2> DEFINE x == Abs(h - p)
             y == Abs(l - p)
  <2>1. S = {h - l, x, y}
    BY <1>5 DEF p
  <2>2. p \in Nat
    BY <1>2, <1>5
  <2>3. h - p \in Int /\ l - p \in Int
    BY <1>1, <2>2
  <2>4. x = (IF h - p < 0 THEN 0 - (h - p) ELSE h - p) /\ y = (IF l - p < 0 THEN 0 - (l - p) ELSE l - p)
    BY <2>3, AbsIs
  <2>5. x \in Nat /\ y \in Nat /\ h - p <= x /\ p - l <= y /\ h - l \in Nat
    BY <1>1, <2>2, <2>3, <2>4
  <2> HIDE DEF x, y, S
  <2>6. IsFiniteSet(S)
    <3>1. IsFiniteSet({h - l}) /\ IsFiniteSet({x}) /\ IsFiniteSet({y})
      BY FS_Singleton
    <3>2. IsFiniteSet({h - l} \cup {x})
      BY <3>1, FS_Union
    <3>3. IsFiniteSet(({h - l} \cup {x}) \cup {y})
      BY <3>1, <3>2, FS_Union
    <3>4. S = ({h - l} \cup {x}) \cup {y}
      BY <2>1
    <3> QED BY <3>3, <3>4
  <2>7. S \in SUBSET Int /\ S # {} /\ h - l \in S /\ x \in S /\ y \in S
    BY <2>1, <2>5
  <2>8. Max(S) \in S /\ Max(S) >= h - l /\ Max(S) >= x /\ Max(S) >= y
    <3>1. Max(S) \in S /\ \A z \in S : Max(S) >= z
      BY <2>6, <2>7, TopOf
    <3> QED BY <2>7, <3>1
  <2> DEFINE t == Max(S)
  <2>9. t \in Nat /\ h - l <= t /\ h - p <= t /\ p - l <= t
    <3>1. t \in Nat
      BY <2>1, <2>5, <2>8
    <3>2. h - p \in Int /\ p - l \in Int /\ h - l \in Int
      BY <1>1, <2>2
    <3> HIDE DEF t
    <3>3. t >= h - l /\ t >= x /\ t >= y
      BY <2>8 DEF t
    <3> QED BY <2>5, <3>1, <3>2, <3>3
  <2> QED BY <1>3, <2>9 DEF h, l, p
<1> QED BY <1>4, <1>5

\* The range of the last bars is no more than the sum of their true ranges.
LEMMA RangeWithinSum ==
    ASSUME NEW d \in Seq(PriceBars), NEW n \in 1 .. Len(d), Period <= n
    PROVE  RangeSum(d, n) \in Nat /\ Highest(d, Period, n) - Lowest(d, Period, n) <= RangeSum(d, n)
<1> DEFINE a == n - Period + 1
           f == [j \in a .. n |-> TrueRange(d, j)]
           R == Running(a, n, f)
           G == {k \in 0 .. Period - 1 : \A i, j \in a .. a + k : d[i].high - d[j].low <= R[a + k]}
           z == [j \in a .. n |-> 0]
<1>1. Period \in Nat \ {0} /\ n \in Nat /\ a \in Int /\ n \in Int /\ 1 <= a /\ a <= n /\ a <= n + 1
      /\ \A j \in a .. n : j \in 1 .. Len(d)
  BY BarsAre, PeriodsAre
<1>2. f \in [a .. n -> Nat] /\ \A j \in a .. n : f[j] = TrueRange(d, j)
  BY <1>1, TrueRangeIs
<1>3. RangeSum(d, n) = SumFunction(f)
  BY DEF RangeSum, Total
<1>4. \A j \in a .. n : /\ d[j].high - d[j].low <= f[j]
                        /\ j # 1 => d[j].high - d[j - 1].close <= f[j] /\ d[j - 1].close - d[j].low <= f[j]
  BY <1>1, <1>2, TrueRangeIs
<1> HIDE DEF f
<1>5. f \in [a .. n -> Int]
  BY <1>2
<1>6. /\ R \in [a - 1 .. n -> Int] /\ R[a - 1] = 0 /\ R[n] = SumFunction(f)
      /\ \A k \in a .. n : R[k] = R[k - 1] + f[k]
  <2> HIDE DEF a
  <2>1. RunsUp(a, n, f, R)
    BY <1>1, <1>5, SumRunsUp
  <2> QED BY <2>1 DEF RunsUp
<1> HIDE DEF R
<1>7. \A j \in 1 .. Len(d) : d[j].close \in Nat /\ d[j].high \in Nat /\ d[j].low \in Nat
                             /\ d[j].low <= d[j].close /\ d[j].close <= d[j].high
  BY BarsAre
<1>8. 0 \in G
  <2>1. 0 \in 0 .. Period - 1 /\ a + 0 = a /\ a \in a .. n /\ \A i \in a .. a + 0 : i = a
    BY <1>1
  <2>2. R[a] = 0 + f[a] /\ f[a] \in Nat
    BY <1>2, <1>6, <2>1
  <2>3. d[a].high - d[a].low <= R[a]
    BY <1>4, <2>1, <2>2
  <2> QED BY <2>1, <2>3
<1>9. ASSUME NEW k \in 1 .. Period - 1, k - 1 \in G PROVE k \in G
  <2> DEFINE m == a + k
  <2>1. m \in a .. n /\ m - 1 \in a .. n /\ m - 1 = a + (k - 1) /\ k \in 0 .. Period - 1 /\ m # 1 /\ m - 1 \in a - 1 .. n
        /\ m \in Int
    BY <1>1
  <2>2. \A i, j \in a .. m - 1 : d[i].high - d[j].low <= R[m - 1]
    BY <1>9, <2>1
  <2> HIDE DEF m
  <2>3. R[m] = R[m - 1] + f[m] /\ R[m - 1] \in Int /\ f[m] \in Nat
    BY <1>2, <1>6, <2>1
  <2>4. /\ d[m].high - d[m].low <= f[m] /\ d[m].high - d[m - 1].close <= f[m] /\ d[m - 1].close - d[m].low <= f[m]
    BY <1>4, <2>1
  <2> DEFINE c == d[m - 1].close
             hi == d[m].high
             lo == d[m].low
  <2>5. c \in Nat /\ d[m - 1].low <= c /\ c <= d[m - 1].high /\ hi \in Nat /\ lo \in Nat
    <3>1. m - 1 \in 1 .. Len(d) /\ m \in 1 .. Len(d)
      BY <1>1, <2>1
    <3> QED BY <1>7, <3>1
  <2>6. 0 <= R[m - 1]
    <3>1. m - 1 \in a .. m - 1 /\ m - 1 \in 1 .. Len(d)
      BY <1>1, <2>1
    <3>2. d[m - 1].high - d[m - 1].low <= R[m - 1]
      BY <2>2, <3>1
    <3>3. d[m - 1].high \in Nat /\ d[m - 1].low \in Nat
      BY <1>7, <3>1
    <3> QED BY <2>3, <2>5, <3>2, <3>3, SMTT(30)
  <2>7. ASSUME NEW i \in a .. m, NEW j \in a .. m PROVE d[i].high - d[j].low <= R[m]
    <3> DEFINE x == d[i].high
               y == d[j].low
    <3>1. x \in Nat /\ y \in Nat
      <4>1. i \in 1 .. Len(d) /\ j \in 1 .. Len(d)
        BY <1>1, <2>1
      <4> QED BY <1>7, <4>1
    <3>2. (i = m \/ i \in a .. m - 1) /\ (j = m \/ j \in a .. m - 1) /\ m - 1 \in a .. m - 1
      BY <2>1
    <3>3. CASE i \in a .. m - 1 /\ j \in a .. m - 1
      <4>1. x - y <= R[m - 1]
        BY <2>2, <3>3
      <4> QED BY <2>3, <3>1, <4>1
    <3>4. CASE i \in a .. m - 1 /\ j = m
      <4>1. x - d[m - 1].low <= R[m - 1] /\ y = lo
        BY <2>2, <3>2, <3>4
      <4>2. d[m - 1].low \in Int
        BY <1>1, <1>7, <2>1
      <4>3. c - lo <= f[m] /\ d[m - 1].low <= c
        BY <2>4, <2>5
      <4> DEFINE b == d[m - 1].low
                 e == R[m - 1]
                 g == f[m]
      <4>a. x - b <= e /\ b \in Int /\ b <= c /\ c - lo <= g /\ R[m] = e + g /\ e \in Int /\ g \in Int
            /\ x \in Int /\ y = lo /\ lo \in Int /\ c \in Int
        BY <2>3, <2>5, <3>1, <4>1, <4>2, <4>3, SMTT(30)
      <4> HIDE DEF c, lo, x, y, b, e, g
      <4>4. x - y <= R[m]
        BY <4>a
      <4> QED BY <4>4 DEF x, y
    <3>5. CASE i = m /\ j \in a .. m - 1
      <4>1. d[m - 1].high - y <= R[m - 1] /\ x = hi
        BY <2>2, <3>2, <3>5
      <4>2. d[m - 1].high \in Int
        BY <1>1, <1>7, <2>1
      <4>3. hi - c <= f[m] /\ c <= d[m - 1].high
        BY <2>4, <2>5
      <4> DEFINE b == d[m - 1].high
                 e == R[m - 1]
                 g == f[m]
      <4>a. b - y <= e /\ b \in Int /\ c <= b /\ hi - c <= g /\ R[m] = e + g /\ e \in Int /\ g \in Int
            /\ y \in Int /\ x = hi /\ hi \in Int /\ c \in Int
        BY <2>3, <2>5, <3>1, <4>1, <4>2, <4>3, SMTT(30)
      <4> HIDE DEF c, hi, x, y, b, e, g
      <4>4. x - y <= R[m]
        BY <4>a
      <4> QED BY <4>4 DEF x, y
    <3>6. CASE i = m /\ j = m
      <4>1. x - y <= f[m]
        BY <2>4, <3>6
      <4> QED BY <2>3, <2>6, <3>1, <4>1
    <3> QED BY <3>2, <3>3, <3>4, <3>5, <3>6
  <2> QED BY <2>1, <2>7 DEF m
<1>10. \A i, j \in a .. n : d[i].high - d[j].low <= R[n]
  <2> DEFINE m == Period - 1
  <2>1. m \in Nat /\ m \in 0 .. m /\ a + m = n
    BY <1>1
  <2>2. \A k \in 1 .. m : k - 1 \in G => k \in G
    BY <1>9
  <2> HIDE DEF G, m
  <2>3. m \in G
    BY <1>8, <2>1, <2>2, Climb
  <2> HIDE DEF a
  <2> QED BY <2>1, <2>3 DEF G
<1>11. SumFunction(f) \in Nat
  <2>1. SumFunction(z) = 0
    <3>1. SumFunction(z) = 0 * (n - a + 1)
      <4>1. 0 \in Int
        OBVIOUS
      <4> HIDE DEF a
      <4> QED BY <1>1, <4>1, SumConst
    <3> QED BY <1>1, <3>1
  <2>2. (\A j \in a .. n : z[j] <= f[j]) /\ z \in [a .. n -> Int]
    BY <1>2
  <2>3. SumFunction(f) \in Int
    <3> HIDE DEF a
    <3> QED BY <1>1, <1>5, SumInt
  <2> HIDE DEF z, a
  <2>4. SumFunction(z) <= SumFunction(f)
    BY <1>1, <1>5, <2>2, SumLe
  <2> QED BY <2>1, <2>3, <2>4
<1>12. PICK i \in a .. n : Highest(d, Period, n) = d[i].high
  BY <1>1, RangeIs
<1>13. PICK j \in a .. n : Lowest(d, Period, n) = d[j].low
  BY <1>1, RangeIs
<1> QED BY <1>3, <1>6, <1>10, <1>11, <1>12, <1>13

\* %R: how far the price is below the top of the range.
LEMMA WilliamsBelow ==
    ASSUME NEW d \in Seq(PriceBars), d # <<>>, NEW w \in WilliamsR(d)
    PROVE  LET n == Len(d)
               r == Highest(d, Period, n) - Lowest(d, Period, n)
               down == Highest(d, Period, n) - d[n].close
           IN Period <= n /\ r \in Nat \ {0} /\ down \in Nat /\ 0 - w = (Hundred * down) \div r
<1> DEFINE n == Len(d)
           H == Highest(d, Period, n)
           L == Lowest(d, Period, n)
           c == d[n].close
           r == H - L
           down == H - c
           x == Hundred * down
<1>1. n \in 1 .. Len(d) /\ Period \in Nat \ {0} /\ n \in Nat /\ d[n].low <= c /\ c <= d[n].high
      /\ c \in Nat /\ d[n].low \in Nat /\ d[n].high \in Nat
  <2>1. n \in 1 .. Len(d)
    BY BarsAre
  <2> QED BY <2>1, BarsAre, PeriodsAre
<1>2. Period <= n
  BY <1>1 DEF WilliamsR
<1>3. H \in Nat /\ L \in Nat /\ L <= d[n].low /\ d[n].high <= H
  <2>1. n \in n - Period + 1 .. n
    BY <1>1
  <2> QED BY <1>1, <1>2, <2>1, RangeIs
<1>4. w \in Ratio(0 - x, r)
  BY <1>1, <1>2 DEF WilliamsR
<1> HIDE DEF H, L, c
<1>5. down \in Nat /\ r \in Nat /\ (r = 0 => down = 0)
  BY <1>1, <1>3
<1>6. x \in Nat /\ (down = 0 => x = 0)
  BY <1>5 DEF Hundred
<1> HIDE DEF x, down, r
<1>7. r # 0
  <2>a. ASSUME r = 0 PROVE 0 - x = 0
    <3>1. x = 0
      BY <1>5, <1>6, <2>a
    <3> QED BY <3>1
  <2>1. r = 0 => Ratio(0 - x, r) = {}
    BY <2>a DEF Ratio
  <2> QED BY <1>4, <2>1
<1>8. w = Quot(0 - x, r) /\ r \in Nat \ {0}
  BY <1>4, <1>5, <1>7 DEF Ratio
<1>9. 0 - w = x \div r
  <2>1. x \div r \in Int
    BY <1>6, <1>8, DivIs
  <2>2. CASE x = 0
    <3>1. w = 0 \div r
      BY <1>8, <2>2, QuotIs
    <3>2. 0 \div r = 0
      BY <1>8, DivBetween
    <3> QED BY <2>2, <3>1, <3>2
  <2>3. CASE x # 0
    <3>1. 0 - x \in Int /\ 0 - x < 0 /\ 0 - (0 - x) = x
      BY <1>6, <2>3
    <3>2. w = 0 - x \div r
      BY <1>8, <3>1, QuotIs
    <3> QED BY <2>1, <3>2
  <2> QED BY <2>2, <2>3
<1> QED BY <1>2, <1>5, <1>8, <1>9 DEF x, down, r, H, L, c

\* In a crash the price lies further below the top of the range than the crash asks for.
LEMMA CrashIsDeep ==
    ASSUME NEW d \in Seq(PriceBars), d # <<>>, FlashCrash(d), NEW w \in WilliamsR(d)
    PROVE  0 - w >= (2 * TrendBars * Hundred) \div Period
<1> DEFINE n == Len(d)
           c == d[n].close
           top == Highest(d, TrendBars, n)
           H == Highest(d, Period, n)
           r == H - Lowest(d, Period, n)
           S == RangeSum(d, n)
           down == H - c
           T == TrendBars
           P == Period
           x == Hundred * down
           y == 2 * T * Hundred
<1>1. n \in 1 .. Len(d) /\ P \in Nat \ {0} /\ T \in Nat \ {0} /\ n \in Nat /\ c \in Nat
  <2>1. n \in 1 .. Len(d)
    BY BarsAre
  <2> QED BY <2>1, BarsAre, PeriodsAre
<1>2. P <= n /\ r \in Nat \ {0} /\ down \in Nat /\ 0 - w = x \div r
  BY WilliamsBelow
<1>3. n >= T + Lookback /\ P * (top - c) > 2 * T * S /\ T <= P
  BY IndicatorsAssumption DEF FlashCrash
<1>4. S \in Nat /\ r <= S
  BY <1>1, <1>2, RangeWithinSum
<1>5. T <= n
  BY <1>1, <1>3, PeriodsAre
<1>6. top \in Nat /\ H \in Nat /\ top <= H
  <2>1. top \in Nat /\ H \in Nat
    BY <1>1, <1>2, <1>5, RangeIs
  <2>2. PICK j \in n - T + 1 .. n : top = d[j].high
    BY <1>1, <1>5, RangeIs
  <2>3. j \in n - P + 1 .. n
    BY <1>1, <1>3
  <2>4. d[j].high <= H
    BY <1>1, <1>2, <2>3, RangeIs
  <2> QED BY <2>1, <2>2, <2>4
<1>7. Hundred \in Nat
  BY DEF Hundred
<1>8. w \in Int
  <2>3. WilliamsR(d) = Ratio(0 - Hundred * (H - c), r)
    BY <1>1, <1>2 DEF WilliamsR
  <2>4. w = Quot(0 - x, r)
    <3>1. r # 0
      BY <1>2
    <3> HIDE DEF H, c, r
    <3> QED BY <2>3, <3>1 DEF Ratio
  <2>5. 0 - x \in Int
    BY <1>2, <1>7
  <2> HIDE DEF x, r
  <2> QED BY <1>2, <2>4, <2>5, QuotIs
<1> HIDE DEF c, top, H, r, S, n, T, P
<1>9. P * (top - c) <= P * down
  <2>1. top - c \in Int /\ down \in Int /\ top - c <= down /\ P \in Nat
    BY <1>1, <1>6
  <2> QED BY <2>1, TimesGrows
<1>10. (2 * T) * r <= (2 * T) * S
  <2>1. 2 * T \in Nat /\ r \in Int /\ S \in Int
    BY <1>1, <1>2, <1>4
  <2> QED BY <1>4, <2>1, TimesGrows
<1>11. (2 * T) * r <= down * P
  <2>1. P * (top - c) \in Int /\ P * down \in Int /\ (2 * T) * r \in Int /\ (2 * T) * S \in Int /\ P * down = down * P
        /\ 2 * T * S = (2 * T) * S
    BY <1>1, <1>2, <1>4, <1>6
  <2> QED BY <1>3, <1>9, <1>10, <2>1
<1> HIDE DEF down
<1>12. y * r <= x * P
  <2> DEFINE u == (2 * T) * r
             v == down * P
  <2>1. u \in Int /\ v \in Int /\ y * r = u * Hundred /\ x * P = v * Hundred
    BY <1>1, <1>2, <1>7
  <2> HIDE DEF u, v, x, y
  <2>2. u * Hundred <= v * Hundred
    BY <1>7, <1>11, <2>1, TimesGrows DEF u, v
  <2> QED BY <2>1, <2>2
<1>13. x \in Int /\ y \in Int
  BY <1>1, <1>2, <1>7
<1> HIDE DEF x, y
<1>14. y \div P <= x \div r
  BY <1>1, <1>2, <1>12, <1>13, DivGrows
<1>15. y \div P \in Int
  BY <1>1, <1>13, DivIs
<1> QED BY <1>2, <1>8, <1>14, <1>15 DEF y, T, P

\* A sum of multiples.
LEMMA SumTimes ==
    ASSUME NEW a \in Int, NEW b \in Int, a <= b + 1, NEW f \in [a .. b -> Int], NEW c \in Int,
           NEW g \in [a .. b -> Int], \A j \in a .. b : g[j] = c * f[j]
    PROVE  SumFunction(g) = c * SumFunction(f)
<1> DEFINE F == Running(a, b, f)
           H == Running(a, b, g)
           n == b - a + 1
           G == {i \in 0 .. n : H[a - 1 + i] = c * F[a - 1 + i]}
<1>1. g \in [a .. b -> Int] /\ \A j \in a .. b : g[j] = c * f[j] /\ f[j] \in Int
  OBVIOUS
<1>2. /\ F \in [a - 1 .. b -> Int] /\ F[a - 1] = 0 /\ F[b] = SumFunction(f)
      /\ \A k \in a .. b : F[k] = F[k - 1] + f[k]
  <2>1. RunsUp(a, b, f, F)
    BY SumRunsUp
  <2> QED BY <2>1 DEF RunsUp
<1>3. /\ H \in [a - 1 .. b -> Int] /\ H[a - 1] = 0 /\ H[b] = SumFunction(g)
      /\ \A k \in a .. b : H[k] = H[k - 1] + g[k]
  <2>1. RunsUp(a, b, g, H)
    BY SumRunsUp
  <2> QED BY <2>1 DEF RunsUp
<1> HIDE DEF F, H
<1>4. n \in Nat /\ a - 1 + n = b /\ a - 1 + 0 = a - 1 /\ n \in 0 .. n /\ 0 \in 0 .. n
  OBVIOUS
<1>5. 0 \in G
  <2>1. c * 0 = 0
    OBVIOUS
  <2> QED BY <1>2, <1>3, <1>4, <2>1
<1>6. ASSUME NEW i \in 1 .. n, i - 1 \in G PROVE i \in G
  <2> DEFINE k == a - 1 + i
  <2>1. k \in a .. b /\ k - 1 \in a - 1 .. b /\ k - 1 = a - 1 + (i - 1) /\ i \in 0 .. n
    BY <1>4
  <2>2. H[k - 1] = c * F[k - 1]
    BY <1>6, <2>1
  <2> HIDE DEF k
  <2>3. H[k] = H[k - 1] + c * f[k] /\ F[k] = F[k - 1] + f[k] /\ F[k - 1] \in Int /\ f[k] \in Int
    BY <1>1, <1>2, <1>3, <2>1
  <2>4. c * (F[k - 1] + f[k]) = c * F[k - 1] + c * f[k]
    BY <2>3
  <2> QED BY <2>1, <2>2, <2>3, <2>4 DEF k
<1>7. n \in G
  <2> HIDE DEF G, n
  <2> QED BY <1>4, <1>5, <1>6, Climb
<1>8. H[b] = c * F[b]
  <2>1. H[a - 1 + n] = c * F[a - 1 + n]
    BY <1>7
  <2> HIDE DEF n
  <2> QED BY <1>4, <2>1
<1> QED BY <1>2, <1>3, <1>8

\* Above the Keltner channel the price is above its mean.
LEMMA KeltnerIsHigh ==
    ASSUME NEW d \in Seq(PriceBars), d # <<>>, AboveKeltner(d)
    PROVE  Len(d) >= BandPeriod /\ Deviation(d) \in Int /\ Deviation(d) > 0
<1> DEFINE n == Len(d)
           B == BandPeriod
           a == n - B + 1
           p == d[n].close
           f == [j \in a .. n |-> d[j].close]
           f100 == [j \in a .. n |-> CHOOSE x \in {100 * d[j].close} : TRUE]
           t == [j \in a .. n |-> TrueRange(d, j)]
           t100 == [j \in a .. n |-> CHOOSE x \in {100 * TrueRange(d, j)} : TRUE]
           S == SumFunction(f)
           R == SumFunction(t)
<1>1. n \in Nat /\ n \in 1 .. Len(d) /\ B \in Nat \ {0} /\ a \in Int /\ p \in Nat
  <2>1. n \in 1 .. Len(d)
    BY BarsAre
  <2> QED BY <2>1, BarsAre, PeriodsAre
<1>2. PICK m \in Ma(d, B), e \in Atr(d, B) : 100 * p > m + 2 * e
  BY DEF AboveKeltner
<1>3. ~(a < 1) /\ m = Quot(SumFunction(f100), B)
  <2>1. Ma(d, B) = MeanOf(LAMBDA j : {100 * d[j].close}, a, n)
    BY DEF Ma, Rolling
  <2>2. n - a + 1 = B
    BY <1>1
  <2> HIDE DEF a, n
  <2>3. Ma(d, B) = IF a < 1 \/ \E j \in a .. n : {100 * d[j].close} = {} THEN {} ELSE {Quot(SumFunction(f100), n - a + 1)}
    BY <2>1 DEF MeanOf, Total
  <2> HIDE DEF f100
  <2> QED BY <1>2, <2>2, <2>3
<1>4. e = Quot(SumFunction(t100), B)
  <2>1. Atr(d, B) = MeanOf(LAMBDA j : {100 * TrueRange(d, j)}, a, n)
    BY DEF Atr, Rolling
  <2>2. n - a + 1 = B
    BY <1>1
  <2> HIDE DEF a, n
  <2>3. Atr(d, B) = IF a < 1 \/ \E j \in a .. n : {100 * TrueRange(d, j)} = {} THEN {} ELSE {Quot(SumFunction(t100), n - a + 1)}
    BY <2>1 DEF MeanOf, Total
  <2> HIDE DEF t100
  <2> QED BY <1>2, <2>2, <2>3
<1>5. a <= n /\ 1 <= a /\ a <= n + 1 /\ n \in Int /\ B <= n /\ \A j \in a .. n : j \in 1 .. Len(d)
  BY <1>1, <1>3
<1>6. \A j \in a .. n : d[j].close \in Nat /\ TrueRange(d, j) \in Nat
  BY <1>5, BarsAre, TrueRangeIs
<1>7. f \in [a .. n -> Int] /\ t \in [a .. n -> Int] /\ \A j \in a .. n : 0 <= t[j] /\ 0 <= f[j]
  BY <1>6
<1>8. f100 = [j \in a .. n |-> 100 * f[j]] /\ t100 = [j \in a .. n |-> 100 * t[j]]
  <2> HIDE DEF a, n
  <2>1. \A j \in a .. n : f[j] = d[j].close /\ t[j] = TrueRange(d, j)
    OBVIOUS
  <2>2. \A j \in a .. n : (CHOOSE x \in {100 * d[j].close} : TRUE) = 100 * d[j].close
    OBVIOUS
  <2>3. \A j \in a .. n : (CHOOSE x \in {100 * TrueRange(d, j)} : TRUE) = 100 * TrueRange(d, j)
    OBVIOUS
  <2> QED BY <2>1, <2>2, <2>3
<1>9. BandSum(d) = S
  BY DEF BandSum, Total
<1>10. S \in Nat /\ R \in Nat
  <2> DEFINE z == [j \in a .. n |-> 0]
  <2>1. z \in [a .. n -> Int] /\ \A j \in a .. n : z[j] <= f[j] /\ z[j] <= t[j]
    BY <1>7
  <2>2. SumFunction(z) = 0
    <3>1. SumFunction(z) = 0 * (n - a + 1)
      <4>1. 0 \in Int
        OBVIOUS
      <4> HIDE DEF a, n
      <4> QED BY <1>1, <1>5, <4>1, SumConst
    <3> QED BY <1>1, <3>1
  <2> HIDE DEF z, f, t, a, n
  <2>3. S \in Int /\ R \in Int
    BY <1>1, <1>5, <1>7, SumInt
  <2>4. SumFunction(z) <= S /\ SumFunction(z) <= R
    BY <1>1, <1>5, <1>7, <2>1, SumLe
  <2> QED BY <2>2, <2>3, <2>4
<1>11. SumFunction(f100) = 100 * S /\ SumFunction(t100) = 100 * R
  <2> DEFINE h == 100
  <2>1. h \in Int
    OBVIOUS
  <2> HIDE DEF f, t, f100, t100, a, n, h
  <2>a. a \in Int /\ n \in Int /\ a <= n + 1
    BY <1>1, <1>5
  <2>b. f \in [a .. n -> Int] /\ t \in [a .. n -> Int]
    BY <1>7
  <2>c. /\ f100 \in [a .. n -> Int] /\ \A j \in a .. n : f100[j] = h * f[j]
        /\ t100 \in [a .. n -> Int] /\ \A j \in a .. n : t100[j] = h * t[j]
    BY <1>8, <2>b DEF h
  <2>2. SumFunction(f100) = h * S
    BY <2>a, <2>b, <2>c, <2>1, SumTimes, ZenonT(40)
  <2>3. SumFunction(t100) = h * R
    BY <2>a, <2>b, <2>c, <2>1, SumTimes, ZenonT(40)
  <2> QED BY <1>8, <2>2, <2>3 DEF h
<1>12. Deviation(d) = B * p - S
  BY <1>9 DEF Deviation
<1> HIDE DEF S, R, f100, t100
<1> DEFINE u == 100 * S
           v == 100 * R
<1>13. u \in Int /\ u >= 0 /\ v \in Int /\ v >= 0
  BY <1>10
<1> HIDE DEF u, v
<1>14. m = u \div B /\ m \in Int
  BY <1>1, <1>3, <1>11, <1>13, QuotIs DEF u
<1>15. e = v \div B /\ e \in Int
  BY <1>1, <1>4, <1>11, <1>13, QuotIs DEF v
<1>16. 0 <= e
  <2>1. v < B * e + B
    BY <1>1, <1>13, <1>15, DivIs
  <2>2. ASSUME e < 0 PROVE FALSE
    <3>1. e + 1 <= 0 /\ e + 1 \in Int /\ 0 \in Int /\ B \in Nat
      BY <1>1, <1>15, <2>2
    <3>2. (e + 1) * B <= 0 * B
      BY <3>1, TimesGrows
    <3>3. (e + 1) * B = B * e + B /\ 0 * B = 0 /\ B * e + B \in Int
      BY <1>1, <1>15
    <3> QED BY <1>13, <2>1, <3>2, <3>3
  <2> QED BY <1>15, <2>2
<1>17. u < B * (100 * p)
  <2>1. u < B * m + B
    BY <1>1, <1>13, <1>14, DivIs
  <2>2. m + 1 <= 100 * p /\ m + 1 \in Int /\ 100 * p \in Int /\ B \in Nat
    BY <1>1, <1>2, <1>14, <1>15, <1>16, SMTT(30)
  <2> DEFINE q == 100 * p
             k == m + 1
  <2>3. k <= q /\ k \in Int /\ q \in Int
    BY <2>2
  <2> HIDE DEF q, k
  <2>4. B * k <= B * q
    BY <2>2, <2>3, TimesGrows
  <2>5. B * k = B * m + B
    BY <1>1, <1>14 DEF k
  <2>6. B * k \in Int /\ B * q \in Int
    BY <2>2, <2>3
  <2>7. u < B * q
    BY <1>13, <2>1, <2>4, <2>5, <2>6
  <2> QED BY <2>7 DEF q
<1>18. B * (100 * p) = 100 * (B * p) /\ B * p \in Int
  BY <1>1
<1>19. S < B * p
  BY <1>10, <1>17, <1>18 DEF u
<1> QED BY <1>5, <1>10, <1>12, <1>18, <1>19

LEMMA KeltnerSide ==
    ASSUME NEW d \in Seq(PriceBars), d # <<>>, AboveKeltner(d)
    PROVE  BandSide(d) \in {"upper", "above"}
<1>1. Len(d) >= BandPeriod /\ Deviation(d) \in Int /\ Deviation(d) > 0
  BY KeltnerIsHigh
<1>2. ~(Len(d) < BandPeriod) /\ ~(Deviation(d) <= 0) /\ ~(Deviation(d) < 0)
  <2>1. Len(d) \in Nat /\ BandPeriod \in Nat
    BY BarsAre, PeriodsAre
  <2> QED BY <1>1, <2>1
<1> QED BY <1>2 DEF BandSide

-----------------------------------------------------------------------------
(* Peaks.                                                                  *)

\* A position in the middle of a plateau from p to q.
Plateau(s, i, p, q) ==
    /\ p \in 1 .. Len(s) /\ q \in 1 .. Len(s) /\ 1 < p /\ p <= i /\ i <= q /\ i \in 1 .. Len(s)
    /\ \A k \in p .. q : s[k] = s[p]
    /\ Above(s[p], s[p - 1])

LEMMA PeakIs ==
    ASSUME NEW s, Len(s) \in Nat, NEW c, NEW i \in FindPeaks(s, c)
    PROVE  \E p, q : Plateau(s, i, p, q)
<1> DEFINE n == Len(s)
           edges == {p \in (1 .. n) \X (1 .. n) :
                       /\ 1 < p[1] /\ p[1] <= p[2] /\ p[2] < n
                       /\ \A k \in p[1] .. p[2] : s[k] = s[p[1]] /\ s[k] # {}
                       /\ Above(s[p[1]], s[p[1] - 1]) /\ Above(s[p[2]], s[p[2] + 1])}
<1>1. \E e \in edges : i = (e[1] + e[2]) \div 2
  BY DEF FindPeaks
<1>2. PICK e \in edges : i = (e[1] + e[2]) \div 2
  BY <1>1
<1> DEFINE p == e[1]
           q == e[2]
<1>3. p \in 1 .. n /\ q \in 1 .. n /\ 1 < p /\ p <= q
  OBVIOUS
<1>4. (\A k \in p .. q : s[k] = s[p]) /\ Above(s[p], s[p - 1])
  OBVIOUS
<1>5. i = (p + q) \div 2
  BY <1>2
<1> HIDE DEF p, q, edges
<1>6. p <= i /\ i <= q /\ i \in Int
  <2>1. p + q \in Int /\ 2 \in Nat \ {0}
    BY <1>3
  <2>2. i \in Int /\ 2 * i <= p + q /\ p + q < 2 * i + 2
    BY <1>5, <2>1, DivIs
  <2> QED BY <1>3, <2>2
<1>7. i \in 1 .. n
  BY <1>3, <1>6
<1>8. Plateau(s, i, p, q)
  BY <1>3, <1>4, <1>6, <1>7 DEF Plateau
<1> QED BY <1>8

\* No position is a peak and a trough.
LEMMA PeakOrTrough ==
    ASSUME NEW n \in Nat, NEW s \in [1 .. n -> SUBSET Int], NEW c,
           \A k \in 1 .. n : \A x, y \in s[k] : x = y
    PROVE  FindPeaks(s, c) \cap FindPeaks(Negated(s), c) = {}
<1> DEFINE t == Negated(s)
<1>1. Len(s) = n /\ DOMAIN s = 1 .. n
  OBVIOUS
<1>2. t = [k \in 1 .. n |-> {0 - x : x \in s[k]}]
  BY <1>1 DEF Negated
<1>3. Len(t) = n
  BY <1>2
<1> SUFFICES ASSUME NEW i \in FindPeaks(s, c), i \in FindPeaks(t, c) PROVE FALSE
  OBVIOUS
<1>4. PICK p, q : Plateau(s, i, p, q)
  BY <1>1, PeakIs
<1>5. PICK u, v : Plateau(t, i, u, v)
  <2> HIDE DEF t
  <2> QED BY <1>3, PeakIs
<1>6. /\ p \in 2 .. n /\ q \in 1 .. n /\ i \in p .. q
      /\ \A k \in p .. q : s[k] = s[p]
  BY <1>1, <1>4 DEF Plateau
<1>7. /\ u \in 2 .. n /\ v \in 1 .. n /\ i \in u .. v
      /\ \A k \in u .. v : t[k] = t[u]
  <2> HIDE DEF t
  <2> QED BY <1>3, <1>5 DEF Plateau
<1>8. PICK x \in s[p], y \in s[p - 1] : x > y
  BY <1>4 DEF Plateau, Above
<1>9. PICK a \in t[u], b \in t[u - 1] : a > b
  <2> HIDE DEF t
  <2> QED BY <1>5 DEF Plateau, Above
<1>10. \A k \in 1 .. n : t[k] = {0 - z : z \in s[k]} /\ s[k] \subseteq Int
  BY <1>2
<1> HIDE DEF t
<1>11. p - 1 \in 1 .. n /\ u - 1 \in 1 .. n /\ p \in 1 .. n /\ u \in 1 .. n /\ i \in 1 .. n
  BY <1>6, <1>7
<1>12. PICK xa \in s[u], yb \in s[u - 1] : a = 0 - xa /\ b = 0 - yb
  BY <1>9, <1>10, <1>11
<1>13. x \in Int /\ y \in Int /\ xa \in Int /\ yb \in Int /\ xa < yb
  <2>1. x \in Int /\ y \in Int /\ xa \in Int /\ yb \in Int
    BY <1>10, <1>11
  <2> QED BY <1>9, <1>12, <2>1
<1>14. CASE p = u
  <2>1. x = xa /\ y = yb
    BY <1>11, <1>14
  <2> QED BY <1>8, <1>13, <2>1
<1>15. CASE u < p
  <2>1. p - 1 \in u .. v
    BY <1>6, <1>7, <1>15
  <2>2. t[p - 1] = t[i]
    BY <1>7, <2>1
  <2>3. s[i] = s[p]
    BY <1>6
  <2>4. 0 - x \in t[i] /\ 0 - y \in t[p - 1]
    BY <1>10, <1>11, <2>3, SMTT(30)
  <2>5. PICK z \in s[p - 1] : 0 - x = 0 - z
    BY <1>10, <1>11, <2>2, <2>4, SMTT(30)
  <2>6. z = y /\ z \in Int
    BY <1>11, <1>13
  <2> QED BY <1>8, <1>13, <2>5, <2>6
<1>16. CASE p < u
  <2>1. u - 1 \in p .. q
    BY <1>6, <1>7, <1>16
  <2>2. s[u - 1] = s[i]
    BY <1>6, <2>1
  <2>3. t[i] = t[u]
    BY <1>7
  <2>4. a \in t[i]
    BY <2>3
  <2>5. PICK z \in s[i] : a = 0 - z
    BY <1>10, <1>11, <2>4
  <2>6. z \in Int /\ z = yb
    BY <1>10, <1>11, <2>2
  <2> QED BY <1>12, <1>13, <2>5, <2>6
<1>17. p \in Int /\ u \in Int
  BY <1>6, <1>7
<1> QED BY <1>14, <1>15, <1>16, <1>17

-----------------------------------------------------------------------------
(* What the other rules can say against the relative strength.             *)

LEMMA RsiSays ==
    ASSUME NEW x \in Int
    PROVE  /\ x > 7000 => RsiRule({x}) = Sell(4)
           /\ 0 # x /\ x < 3000 => RsiRule({x}) = Buy(4)
           /\ RsiRule({x}) \in Points
<1>1. (Truthy({x}) <=> x # 0) /\ \A c \in Int : (Over({x}, c) <=> x > c) /\ (Under({x}, c) <=> x < c)
  BY DEF Truthy, Over, Under, Above
<1>2. 3000 \in Int /\ 4000 \in Int /\ 7000 \in Int /\ 6000 \in Int
  OBVIOUS
<1>3. RsiRule({x}) = IF x = 0 THEN Silent
                     ELSE IF x < 3000 THEN Buy(4) ELSE IF x < 4000 THEN Buy(2)
                     ELSE IF x > 7000 THEN Sell(4) ELSE IF x > 6000 THEN Sell(2) ELSE Remark
  BY <1>1, <1>2 DEF RsiRule
<1>4. Silent \in Points /\ Remark \in Points /\ Buy(4) \in Points /\ Buy(2) \in Points /\ Sell(4) \in Points /\ Sell(2) \in Points
  BY SayIs
<1> QED BY <1>3, <1>4

LEMMA VolumeSays ==
    ASSUME NEW d
    PROVE  VolumeRule(d) \in Points /\ VolumeRule(d).buy <= 2 /\ VolumeRule(d).sell <= 2
<1>1. VolumeRule(d) \in {Buy(2), Sell(2), Silent}
  BY DEF VolumeRule
<1>2. /\ Buy(2) \in Points /\ Buy(2).buy = 2 /\ Buy(2).sell = 0
      /\ Sell(2) \in Points /\ Sell(2).buy = 0 /\ Sell(2).sell = 2
      /\ Silent \in Points /\ Silent.buy = 0 /\ Silent.sell = 0
  BY SayIs
<1> QED BY <1>1, <1>2

LEMMA VolatilitySays ==
    ASSUME NEW d
    PROVE  /\ BandSide(d) = "upper" => Volatility(d) \in Points /\ Volatility(d).buy <= 2 /\ Volatility(d).sell >= 4
           /\ BandSide(d) = "lower" => Volatility(d) \in Points /\ Volatility(d).sell <= 2 /\ Volatility(d).buy >= 4
<1> DEFINE side == BandSide(d)
           price == d[Len(d)].close
           r1 == IF side = "lower" THEN Buy(4) ELSE IF side = "upper" THEN Sell(4)
                 ELSE IF side = "below" THEN Buy(1) ELSE Sell(1)
           r2 == IF WideBand(d) THEN Remark ELSE Silent
           r3 == Extremes(Cci(d), -10000, 10000, 2)
           r4 == IF \E a \in Atr(d, Period) : a > 5 * price THEN Remark ELSE Silent
<1>1. Volatility(d) = AllOf(<<r1, r2, r3, r4>>)
  BY DEF Volatility
<1>2. /\ Buy(4) \in Points /\ Buy(4).buy = 4 /\ Buy(4).sell = 0
      /\ Sell(4) \in Points /\ Sell(4).buy = 0 /\ Sell(4).sell = 4
      /\ Silent \in Points /\ Silent.buy = 0 /\ Silent.sell = 0
      /\ Remark \in Points /\ Remark.buy = 0 /\ Remark.sell = 0
  BY SayIs
<1>3. r2 \in Points /\ r2.buy = 0 /\ r2.sell = 0
  BY <1>2
<1>4. r4 \in Points /\ r4.buy = 0 /\ r4.sell = 0
  <2> HIDE DEF price
  <2> QED BY <1>2
<1>5. r3 \in Points /\ r3.buy <= 2 /\ r3.sell <= 2
  BY ExtremesIs
<1>6. r3.buy \in Nat /\ r3.sell \in Nat
  BY <1>5 DEF Points
<1>7. side = "upper" => r1 = Sell(4)
  BY DEF r1
<1>8. side = "lower" => r1 = Buy(4)
  BY DEF r1
<1> HIDE DEF r1, r2, r3, r4
<1>9. r1 \in Points => /\ AllOf(<<r1, r2, r3, r4>>) \in Points
                       /\ AllOf(<<r1, r2, r3, r4>>).buy = r1.buy + r2.buy + r3.buy + r4.buy
                       /\ AllOf(<<r1, r2, r3, r4>>).sell = r1.sell + r2.sell + r3.sell + r4.sell
  BY <1>3, <1>4, <1>5, FourRules
<1>10. ASSUME side = "upper" PROVE Volatility(d) \in Points /\ Volatility(d).buy <= 2 /\ Volatility(d).sell >= 4
  <2>1. r1 \in Points /\ r1.buy = 0 /\ r1.sell = 4
    BY <1>2, <1>7, <1>10
  <2> HIDE DEF side
  <2> QED BY <1>1, <1>3, <1>4, <1>5, <1>6, <1>9, <2>1
<1>11. ASSUME side = "lower" PROVE Volatility(d) \in Points /\ Volatility(d).sell <= 2 /\ Volatility(d).buy >= 4
  <2>1. r1 \in Points /\ r1.buy = 4 /\ r1.sell = 0
    BY <1>2, <1>8, <1>11
  <2> HIDE DEF side
  <2> QED BY <1>1, <1>3, <1>4, <1>5, <1>6, <1>9, <2>1
<1> QED BY <1>10, <1>11

\* With the relative strength at an extreme, the other oscillators say at most seven against it.
LEMMA MomentumSays ==
    ASSUME NEW d, NEW x \in Int, Rsi(d, Len(d)) = {x}
    PROVE  /\ x > 7000 => Momentum(d) \in Points /\ Momentum(d).buy <= 7 /\ Momentum(d).sell >= 4
           /\ x < 3000 /\ x # 0 => Momentum(d) \in Points /\ Momentum(d).sell <= 7 /\ Momentum(d).buy >= 4
<1> DEFINE n == Len(d)
           r1 == RsiRule(Rsi(d, n))
           r2 == StochasticRule(StochasticK(d, n), StochasticD(d))
           r3 == Extremes(Mfi(d), 2000, 8000, 2)
           r4 == Extremes(WilliamsR(d), -8000, -2000, 2)
<1>1. Momentum(d) = AllOf(<<r1, r2, r3, r4>>)
  BY DEF Momentum
<1>2. /\ Buy(4) \in Points /\ Buy(4).buy = 4 /\ Buy(4).sell = 0
      /\ Sell(4) \in Points /\ Sell(4).buy = 0 /\ Sell(4).sell = 4
  BY SayIs
<1>3. r1 \in Points /\ (x > 7000 => r1 = Sell(4)) /\ (x < 3000 /\ x # 0 => r1 = Buy(4))
  BY RsiSays
<1>4. r2 \in Points /\ r2.buy <= 3 /\ r2.sell <= 3
  BY StochasticIs
<1>5. r3 \in Points /\ r3.buy <= 2 /\ r3.sell <= 2
  BY ExtremesIs
<1>6. r4 \in Points /\ r4.buy <= 2 /\ r4.sell <= 2
  BY ExtremesIs
<1> HIDE DEF r1, r2, r3, r4
<1>7. r2.buy \in Nat /\ r2.sell \in Nat /\ r3.buy \in Nat /\ r3.sell \in Nat /\ r4.buy \in Nat /\ r4.sell \in Nat
  BY <1>4, <1>5, <1>6 DEF Points
<1>8. /\ Momentum(d) \in Points
      /\ Momentum(d).buy = r1.buy + r2.buy + r3.buy + r4.buy
      /\ Momentum(d).sell = r1.sell + r2.sell + r3.sell + r4.sell
  BY <1>1, <1>3, <1>4, <1>5, <1>6, FourRules
<1>9. ASSUME x > 7000 PROVE Momentum(d).buy <= 7 /\ Momentum(d).sell >= 4
  <2>1. r1.buy = 0 /\ r1.sell = 4
    BY <1>2, <1>3, <1>9
  <2> DEFINE b == Momentum(d).buy
             s == Momentum(d).sell
             b2 == r2.buy
             b3 == r3.buy
             b4 == r4.buy
             s2 == r2.sell
             s3 == r3.sell
             s4 == r4.sell
  <2>2. /\ b2 \in Nat /\ b3 \in Nat /\ b4 \in Nat /\ s2 \in Nat /\ s3 \in Nat /\ s4 \in Nat
        /\ b2 <= 3 /\ b3 <= 2 /\ b4 <= 2 /\ s2 <= 3 /\ s3 <= 2 /\ s4 <= 2
    BY <1>4, <1>5, <1>6, <1>7
  <2>3. b = 0 + b2 + b3 + b4 /\ s = 4 + s2 + s3 + s4
    BY <1>8, <2>1
  <2> HIDE DEF b, s, b2, b3, b4, s2, s3, s4
  <2>4. b <= 7 /\ s >= 4
    BY <2>2, <2>3
  <2> QED BY <2>4 DEF b, s
<1>10. ASSUME x < 3000, x # 0 PROVE Momentum(d).sell <= 7 /\ Momentum(d).buy >= 4
  <2>1. r1.buy = 4 /\ r1.sell = 0
    BY <1>2, <1>3, <1>10
  <2> DEFINE b == Momentum(d).buy
             s == Momentum(d).sell
             b2 == r2.buy
             b3 == r3.buy
             b4 == r4.buy
             s2 == r2.sell
             s3 == r3.sell
             s4 == r4.sell
  <2>2. /\ b2 \in Nat /\ b3 \in Nat /\ b4 \in Nat /\ s2 \in Nat /\ s3 \in Nat /\ s4 \in Nat
        /\ b2 <= 3 /\ b3 <= 2 /\ b4 <= 2 /\ s2 <= 3 /\ s3 <= 2 /\ s4 <= 2
    BY <1>4, <1>5, <1>6, <1>7
  <2>3. b = 4 + b2 + b3 + b4 /\ s = 0 + s2 + s3 + s4
    BY <1>8, <2>1
  <2> HIDE DEF b, s, b2, b3, b4, s2, s3, s4
  <2>4. s <= 7 /\ b >= 4
    BY <2>2, <2>3
  <2> QED BY <2>4 DEF b, s
<1> QED BY <1>8, <1>9, <1>10

\* The stochastic and %R, which is a hundred less, are not at opposite extremes.
LEMMA OscillatorsAgree ==
    ASSUME NEW d \in Seq(PriceBars), d # <<>>
    PROVE  LET n == Len(d)
               stochastic == StochasticRule(StochasticK(d, n), StochasticD(d))
               williams == Extremes(WilliamsR(d), -8000, -2000, 2)
           IN /\ williams.buy > 0 => stochastic.sell < 3
              /\ williams.sell > 0 => stochastic.buy < 3
<1> DEFINE n == Len(d)
           K == StochasticK(d, n)
           W == WilliamsR(d)
           stochastic == StochasticRule(K, StochasticD(d))
           williams == Extremes(W, -8000, -2000, 2)
<1>1. /\ williams.buy > 0 => Under(W, -8000)
      /\ williams.sell > 0 => Over(W, -2000)
  BY ExtremesIs
<1>2. /\ ~Under(K, 2000) => stochastic.buy < 3
      /\ ~Over(K, 8000) => stochastic.sell < 3
  BY StochasticIs
<1>3. \A k \in K, w \in W : k \in Int /\ w \in Int /\ k - w \in {10000, 9999}
  <2>1. \A k \in K, w \in W : k \in Int /\ w \in Int /\ k - w \in {Hundred, Hundred - 1}
    BY WilliamsIs
  <2>2. Hundred = 10000 /\ Hundred - 1 = 9999
    BY DEF Hundred
  <2> QED BY <2>1, <2>2
<1> HIDE DEF stochastic, williams, K, W
<1>4. ASSUME Under(W, -8000), Over(K, 8000) PROVE FALSE
  <2>1. PICK w \in W : w < -8000
    BY <1>4 DEF Under, Above
  <2>2. PICK k \in K : k > 8000
    BY <1>4 DEF Over, Above
  <2>3. k \in Int /\ w \in Int /\ k - w \in {10000, 9999}
    BY <1>3
  <2> QED BY <2>1, <2>2, <2>3
<1>5. ASSUME Over(W, -2000), Under(K, 2000) PROVE FALSE
  <2>1. PICK w \in W : w > -2000
    BY <1>5 DEF Over, Above
  <2>2. PICK k \in K : k < 2000
    BY <1>5 DEF Under, Above
  <2>3. k \in Int /\ w \in Int /\ k - w \in {10000, 9999}
    BY <1>3
  <2> QED BY <2>1, <2>2, <2>3
<1> QED BY <1>1, <1>2, <1>4, <1>5 DEF stochastic, williams, K, W

\* At a band with an extreme relative strength, the score against them is bounded.
LEMMA ScoreBounded ==
    ASSUME NEW d \in Seq(PriceBars), d # <<>>
    PROVE  LET total == AnalyzeSignals(d).total
               trend == Trend(d).buy - Trend(d).sell
               rsi == Rsi(d, Len(d))
           IN /\ BandSide(d) = "upper" /\ Over(rsi, 7000) => total <= trend + 3
              /\ BandSide(d) = "lower" /\ Truthy(rsi) /\ Under(rsi, 3000) => total >= trend - 3
<1> DEFINE n == Len(d)
           rsi == Rsi(d, n)
           t == Trend(d)
           m == Momentum(d)
           v == Volatility(d)
           o == VolumeRule(d)
           all == AllOf(<<t, m, v, o>>)
           total == AnalyzeSignals(d).total
<1>1. n \in 1 .. Len(d)
  BY BarsAre
<1>2. total = all.buy - all.sell
  BY DEF AnalyzeSignals, Verdict, Scores
<1>3. t \in Points /\ t.buy \in Nat /\ t.sell \in Nat
  <2>1. t \in Points
    BY TrendIs
  <2> HIDE DEF t
  <2> QED BY <2>1 DEF Points
<1>4. o \in Points /\ o.buy <= 2 /\ o.sell <= 2
  BY VolumeSays
<1>5. m \in Points /\ v \in Points => /\ all.buy = t.buy + m.buy + v.buy + o.buy
                                     /\ all.sell = t.sell + m.sell + v.sell + o.sell
  <2> HIDE DEF t, m, v, o
  <2> QED BY <1>3, <1>4, FourRules
<1>6. \A x \in rsi : rsi = {x} /\ x \in Int
  BY <1>1, RsiIs, Zenon
<1>7. ASSUME BandSide(d) = "upper", Over(rsi, 7000) PROVE total <= (t.buy - t.sell) + 3
  <2>1. PICK x \in rsi : x > 7000
    BY <1>7 DEF Over, Above
  <2>2. x \in Int /\ Rsi(d, Len(d)) = {x}
    BY <1>6
  <2>3. m \in Points /\ m.buy <= 7 /\ m.sell >= 4
    BY <2>1, <2>2, MomentumSays
  <2>4. v \in Points /\ v.buy <= 2 /\ v.sell >= 4
    BY <1>7, VolatilitySays
  <2> HIDE DEF t, m, v, o, all, total
  <2>5. /\ m.buy \in Nat /\ m.sell \in Nat /\ v.buy \in Nat /\ v.sell \in Nat /\ o.buy \in Nat /\ o.sell \in Nat
    BY <1>4, <2>3, <2>4 DEF Points
  <2>6. /\ all.buy = t.buy + m.buy + v.buy + o.buy
        /\ all.sell = t.sell + m.sell + v.sell + o.sell
    BY <1>5, <2>3, <2>4
  <2> DEFINE tb == t.buy
             ts == t.sell
             mb == m.buy
             ms == m.sell
             vb == v.buy
             vs == v.sell
             ob == o.buy
             os == o.sell
  <2>7. total = (tb + mb + vb + ob) - (ts + ms + vs + os)
    BY <1>2, <2>6
  <2>8. tb \in Nat /\ ts \in Nat /\ mb \in Nat /\ ms \in Nat /\ vb \in Nat /\ vs \in Nat /\ ob \in Nat /\ os \in Nat
        /\ ob <= 2 /\ os <= 2
    BY <1>3, <1>4, <2>5
  <2>9. mb <= 7 /\ ms >= 4 /\ vb <= 2 /\ vs >= 4
    BY <2>3, <2>4
  <2> HIDE DEF tb, ts, mb, ms, vb, vs, ob, os
  <2>10. total <= (tb - ts) + 3
    BY <2>7, <2>8, <2>9
  <2> QED BY <2>10 DEF tb, ts
<1>8. ASSUME BandSide(d) = "lower", Truthy(rsi), Under(rsi, 3000) PROVE total >= (t.buy - t.sell) - 3
  <2>1. PICK x \in rsi : x < 3000
    BY <1>8 DEF Under, Above
  <2>2. x \in Int /\ Rsi(d, Len(d)) = {x} /\ x # 0
    BY <1>6, <1>8 DEF Truthy
  <2>3. m \in Points /\ m.sell <= 7 /\ m.buy >= 4
    BY <2>1, <2>2, MomentumSays
  <2>4. v \in Points /\ v.sell <= 2 /\ v.buy >= 4
    BY <1>8, VolatilitySays
  <2> HIDE DEF t, m, v, o, all, total
  <2>5. /\ m.buy \in Nat /\ m.sell \in Nat /\ v.buy \in Nat /\ v.sell \in Nat /\ o.buy \in Nat /\ o.sell \in Nat
    BY <1>4, <2>3, <2>4 DEF Points
  <2>6. /\ all.buy = t.buy + m.buy + v.buy + o.buy
        /\ all.sell = t.sell + m.sell + v.sell + o.sell
    BY <1>5, <2>3, <2>4
  <2> DEFINE tb == t.buy
             ts == t.sell
             mb == m.buy
             ms == m.sell
             vb == v.buy
             vs == v.sell
             ob == o.buy
             os == o.sell
  <2>7. total = (tb + mb + vb + ob) - (ts + ms + vs + os)
    BY <1>2, <2>6
  <2>8. tb \in Nat /\ ts \in Nat /\ mb \in Nat /\ ms \in Nat /\ vb \in Nat /\ vs \in Nat /\ ob \in Nat /\ os \in Nat
        /\ ob <= 2 /\ os <= 2
    BY <1>3, <1>4, <2>5
  <2>9. ms <= 7 /\ mb >= 4 /\ vs <= 2 /\ vb >= 4
    BY <2>3, <2>4
  <2> HIDE DEF tb, ts, mb, ms, vb, vs, ob, os
  <2>10. total >= (tb - ts) - 3
    BY <2>7, <2>8, <2>9
  <2> QED BY <2>10 DEF tb, ts
<1> HIDE DEF total
<1> QED BY <1>7, <1>8 DEF total

\* On all bars, the votes of the rules do not contradict each other.  (TechnicalIndicators,
\* SignalAnalyzer.)
THEOREM VotesAgreeAlways ==
    ASSUME NEW bars \in Seq(PriceBars), bars # <<>>
    PROVE  VotesAgree(bars)
<1> DEFINE n == Len(bars)
           price == bars[n].close
           past == bars[Max({1, n - Period})].close
           rsi == [i \in 1 .. Lookback |-> Rsi(bars, n - Lookback + i)]
           total == AnalyzeSignals(bars).total
           trend == Trend(bars).buy - Trend(bars).sell
           stochastic == StochasticRule(StochasticK(bars, n), StochasticD(bars))
           williams == Extremes(WilliamsR(bars), -8000, -2000, 2)
<1>1. n \in 1 .. Len(bars) /\ n \in Nat /\ Lookback \in Nat \ {0}
  <2>1. n \in 1 .. Len(bars) /\ n \in Nat
    BY BarsAre
  <2> QED BY <2>1, PeriodsAre
<1>2. /\ williams.buy > 0 => stochastic.sell < 3
      /\ williams.sell > 0 => stochastic.buy < 3
  BY OscillatorsAgree
<1>3. ASSUME Over(Rsi(bars, n), 5000) PROVE price > past
  <2>1. PICK x \in Rsi(bars, n) : x > 5000
    BY <1>3 DEF Over, Above
  <2> QED BY <1>1, <2>1, RsiIs
<1>4. ASSUME Under(Rsi(bars, n), 5000) PROVE price < past
  <2>1. PICK x \in Rsi(bars, n) : x < 5000
    BY <1>4 DEF Under, Above
  <2> QED BY <1>1, <2>1, RsiIs
<1>5. AboveKeltner(bars) => BandSide(bars) \in {"upper", "above"}
  BY KeltnerSide
<1>6. FlashCrash(bars) => \A w \in WilliamsR(bars) : 0 - w >= (2 * TrendBars * Hundred) \div Period
  BY CrashIsDeep
<1>7. ASSUME n >= Lookback PROVE FindPeaks(rsi, 200) \cap FindPeaks(Negated(rsi), 200) = {}
  <2>1. \A i \in 1 .. Lookback : n - Lookback + i \in 1 .. Len(bars)
    BY <1>1, <1>7
  <2>2. \A i \in 1 .. Lookback : \A x \in Rsi(bars, n - Lookback + i) : Rsi(bars, n - Lookback + i) = {x} /\ x \in Int
    BY <2>1, RsiIs, Zenon
  <2> HIDE DEF n
  <2>3. rsi \in [1 .. Lookback -> SUBSET Int] /\ \A k \in 1 .. Lookback : \A x, y \in rsi[k] : x = y
    BY <2>2
  <2>4. Lookback \in Nat
    BY <1>1
  <2> HIDE DEF rsi
  <2> QED BY <2>3, <2>4, PeakOrTrough
<1>8. /\ BandSide(bars) = "upper" /\ Over(Rsi(bars, n), 7000) => total <= trend + 3
      /\ BandSide(bars) = "lower" /\ Truthy(Rsi(bars, n)) /\ Under(Rsi(bars, n), 3000) => total >= trend - 3
  BY ScoreBounded
<1> HIDE DEF n, price, past, rsi, total, trend, stochastic, williams
<1> QED BY <1>2, <1>3, <1>4, <1>5, <1>6, <1>7, <1>8 DEF VotesAgree, n, price, past, rsi, total, trend, stochastic, williams

-----------------------------------------------------------------------------
(* The risk ledgers.                                                       *)

\* Both ledgers, after each call.
LedgerRun(g, calls, k) ==
    g = [i \in 0 .. k |->
            IF i = 0 THEN [file |-> EmptyLedger, table |-> EmptyLedger]
            ELSE [file |-> OnFile(g[i - 1].file, calls[i]), table |-> OnRepository(g[i - 1].table, calls[i])]]

LEMMA LedgerRunExists ==
    ASSUME NEW n \in Nat, NEW calls
    PROVE  \E g : LedgerRun(g, calls, n)
<1> DEFINE G == {k \in 0 .. n : \E g : LedgerRun(g, calls, k)}
           Begun == [file |-> EmptyLedger, table |-> EmptyLedger]
           Then(l, c) == [file |-> OnFile(l.file, c), table |-> OnRepository(l.table, c)]
<1>1. \A g, k : LedgerRun(g, calls, k) <=>
                  g = [i \in 0 .. k |-> IF i = 0 THEN Begun ELSE Then(g[i - 1], calls[i])]
  BY DEF LedgerRun
<1> HIDE DEF Begun, Then
<1>2. 0 \in G
  <2> DEFINE g == [i \in 0 .. 0 |-> Begun]
  <2>1. g = [i \in 0 .. 0 |-> IF i = 0 THEN Begun ELSE Then(g[i - 1], calls[i])]
    OBVIOUS
  <2>2. LedgerRun(g, calls, 0)
    BY <1>1, <2>1
  <2> QED BY <2>2
<1>3. ASSUME NEW k \in 1 .. n, k - 1 \in G PROVE k \in G
  <2>1. PICK g : LedgerRun(g, calls, k - 1)
    BY <1>3
  <2>2. g = [i \in 0 .. k - 1 |-> IF i = 0 THEN Begun ELSE Then(g[i - 1], calls[i])]
    BY <1>1, <2>1
  <2> DEFINE h == [i \in 0 .. k |-> IF i < k THEN g[i] ELSE Then(g[k - 1], calls[k])]
  <2>3. \A i \in 0 .. k : h[i] = IF i = 0 THEN Begun ELSE Then(h[i - 1], calls[i])
    <3> TAKE i \in 0 .. k
    <3>1. CASE i < k
      <4>1. i \in 0 .. k - 1 /\ h[i] = g[i] /\ (i # 0 => i - 1 \in 0 .. k /\ i - 1 < k)
        BY <3>1
      <4>2. g[i] = IF i = 0 THEN Begun ELSE Then(g[i - 1], calls[i])
        BY <2>2, <4>1
      <4> QED BY <4>1, <4>2
    <3>2. CASE i = k
      BY <3>2
    <3> QED BY <3>1, <3>2
  <2>4. h = [i \in 0 .. k |-> h[i]]
    OBVIOUS
  <2> HIDE DEF h
  <2>5. h = [i \in 0 .. k |-> IF i = 0 THEN Begun ELSE Then(h[i - 1], calls[i])]
    BY <2>3, <2>4
  <2>6. LedgerRun(h, calls, k)
    BY <1>1, <2>5
  <2> QED BY <2>6
<1> HIDE DEF G
<1>4. n \in G
  <2>1. \A k \in 0 .. n : k \in G
    BY <1>2, <1>3, Climb
  <2> QED BY <2>1
<1> QED BY <1>4 DEF G

\* A ledger has a row for a day, and none of a day to come.
LedgerRows(rows, today) ==
    /\ IsFiniteSet(rows)
    /\ \A r \in rows : r.id = r.at /\ r.at \in Int /\ r.at <= today /\ r.pnl \in Int
    /\ \A r, q \in rows : r.id = q.id => r = q

\* The two have the same rows of the week and the day before.
Matched(l) ==
    /\ l.file = [today |-> l.file.today, rows |-> l.file.rows]
    /\ l.table = [today |-> l.file.today, rows |-> l.table.rows]
    /\ l.file.today \in Int
    /\ LedgerRows(l.file.rows, l.file.today) /\ LedgerRows(l.table.rows, l.file.today)
    /\ From(l.file.rows, l.file.today - Week) = From(l.table.rows, l.file.today - Week)

LEMMA UpsertRows ==
    ASSUME NEW rows, NEW today \in Int, LedgerRows(rows, today), NEW pnl \in Int,
           NEW row, row.id = today, row.at = today, row.pnl = pnl
    PROVE  LedgerRows(Upsert(rows, row), today)
<1>1. IsFiniteSet(Upsert(rows, row))
  <2>1. IsFiniteSet(rows \ Rows(rows, row.id))
    BY FS_Subset DEF LedgerRows
  <2> QED BY <2>1, FS_AddElement DEF Upsert
<1>2. ASSUME NEW r \in Upsert(rows, row) PROVE r = row \/ (r \in rows /\ r.id # today)
  <2>1. r = row \/ (r \in rows /\ r \notin Rows(rows, today))
    BY <1>2 DEF Upsert
  <2> QED BY <2>1 DEF Rows
<1> QED BY <1>1, <1>2 DEF LedgerRows

LEMMA FromRows ==
    ASSUME NEW rows, NEW today, LedgerRows(rows, today), NEW cutoff
    PROVE  LedgerRows(From(rows, cutoff), today)
<1>1. IsFiniteSet(From(rows, cutoff))
  BY FS_Subset DEF LedgerRows, From
<1> QED BY <1>1 DEF LedgerRows, From

LEMMA MatchedStep ==
    ASSUME NEW l, Matched(l), NEW c, c.do = "midnight" \/ c.pnl \in Int
    PROVE  Matched([file |-> OnFile(l.file, c), table |-> OnRepository(l.table, c)])
<1> DEFINE today == l.file.today
           f == l.file.rows
           t == l.table.rows
<1>0. Week \in Nat /\ today \in Int
  BY PortsAssumption DEF Matched
<1>1. /\ l.file = [today |-> today, rows |-> f] /\ l.table = [today |-> today, rows |-> t]
      /\ LedgerRows(f, today) /\ LedgerRows(t, today) /\ From(f, today - Week) = From(t, today - Week)
  BY DEF Matched
<1> HIDE DEF today, f, t
<1>2. CASE c.do = "midnight"
  <2>1. /\ OnFile(l.file, c) = [today |-> today + 1, rows |-> f]
        /\ OnRepository(l.table, c) = [today |-> today + 1, rows |-> t]
    BY <1>1, <1>2 DEF OnFile, OnRepository
  <2>2. LedgerRows(f, today + 1) /\ LedgerRows(t, today + 1)
    BY <1>0, <1>1 DEF LedgerRows
  <2>3. From(f, (today + 1) - Week) = From(t, (today + 1) - Week)
    <3>1. \A r \in f \cup t : r.at \in Int
      BY <1>1 DEF LedgerRows
    <3>2. \A r \in f \cup t : r.at >= (today + 1) - Week => r.at >= today - Week
      BY <1>0, <3>1
    <3> QED BY <1>1, <3>2 DEF From
  <2> QED BY <1>0, <2>1, <2>2, <2>3 DEF Matched
<1>3. CASE c.do # "midnight"
  <2> DEFINE row == [id |-> today, at |-> today, pnl |-> c.pnl]
             cutoff == today - Week
  <2>1. c.pnl \in Int /\ row.id = today /\ row.at = today /\ row.pnl = c.pnl
    BY <1>3
  <2>2. LedgerRow(l.file, c.pnl) = row /\ LedgerRow(l.table, c.pnl) = row
    BY <1>1 DEF LedgerRow
  <2> HIDE DEF row
  <2>3. /\ OnFile(l.file, c) = [today |-> today, rows |-> From(Upsert(f, row), cutoff)]
        /\ OnRepository(l.table, c) = [today |-> today, rows |-> Upsert(t, row)]
    BY <1>1, <1>3, <2>2 DEF OnFile, OnRepository
  <2>4. LedgerRows(Upsert(f, row), today) /\ LedgerRows(Upsert(t, row), today)
    BY <1>0, <1>1, <2>1, UpsertRows
  <2>5. LedgerRows(From(Upsert(f, row), cutoff), today)
    BY <2>4, FromRows
  <2>6. From(From(Upsert(f, row), cutoff), cutoff) = From(Upsert(t, row), cutoff)
    <3>1. \A r : r \in From(f, cutoff) <=> r \in From(t, cutoff)
      BY <1>1
    <3> QED BY <3>1 DEF From, Upsert, Rows
  <2> QED BY <1>0, <2>3, <2>4, <2>5, <2>6 DEF Matched
<1> QED BY <1>2, <1>3

\* What the two report of a matched week.
LEMMA MatchedWeek ==
    ASSUME NEW l, Matched(l)
    PROVE  RepositoryWeek(l.table) = FileWeek(l.file) + PnlOf(Rows(l.file.rows, l.file.today - Week))
<1> DEFINE today == l.file.today
           old == today - Week
           X == From(l.file.rows, old)
           A == {row \in l.file.rows : \E i \in 0 .. Week - 1 : row.at = today - i}
           B == Rows(l.file.rows, old)
           pnl == [row \in X |-> row.pnl]
<1>0. Week \in Nat /\ today \in Int /\ old \in Int
  BY PortsAssumption DEF Matched
<1>1. LedgerRows(l.file.rows, today) /\ X = From(l.table.rows, old) /\ l.table.today = today
  BY DEF Matched
<1>2. IsFiniteSet(X) /\ \A r \in X : r.pnl \in Int
  BY <1>1, FS_Subset DEF LedgerRows, From
<1>3. A = X \ B
  <2>1. ASSUME NEW r \in l.file.rows
        PROVE  (\E i \in 0 .. Week - 1 : r.at = today - i) <=> r.at >= old /\ r.id # old
    <3>1. r.at \in Int /\ r.id = r.at /\ r.at <= today
      BY <1>1 DEF LedgerRows
    <3>2. ASSUME r.at >= old, r.id # old PROVE \E i \in 0 .. Week - 1 : r.at = today - i
      <4>1. today - r.at \in 0 .. Week - 1 /\ r.at = today - (today - r.at)
        BY <1>0, <3>1, <3>2
      <4> QED BY <4>1
    <3>3. ASSUME NEW i \in 0 .. Week - 1, r.at = today - i PROVE r.at >= old /\ r.id # old
      BY <1>0, <3>1, <3>3
    <3> QED BY <3>2, <3>3
  <2> QED BY <2>1 DEF From, Rows
<1>4. B \subseteq X /\ \A r, q \in B : r = q
  <2>1. \A r \in l.file.rows : r.at \in Int /\ r.id = r.at
    BY <1>1 DEF LedgerRows
  <2>2. \A r \in B : r \in l.file.rows /\ r.id = old
    BY DEF Rows
  <2>3. \A r \in B : r \in X
    BY <1>0, <2>1, <2>2 DEF From
  <2>4. \A r, q \in B : r = q
    BY <1>1, <2>2 DEF LedgerRows
  <2> QED BY <2>3, <2>4
<1>5. RepositoryWeek(l.table) = SumFunction(pnl)
  BY <1>1 DEF RepositoryWeek, PnlOf
<1>6. FileWeek(l.file) = PnlOf(A)
  BY DEF FileWeek
<1>7. pnl \in [X -> Int] /\ \A r \in X : pnl[r] = r.pnl
  BY <1>2
<1>8. PnlOf(A) = SumFunction([r \in X \ B |-> pnl[r]])
  <2>1. [row \in A |-> row.pnl] = [r \in X \ B |-> pnl[r]]
    BY <1>3, <1>7
  <2> QED BY <2>1 DEF PnlOf
<1>9. PnlOf(A) + PnlOf(B) = SumFunction(pnl)
  <2> HIDE DEF X, A, B, pnl, old, today
  <2>1. SumFunction(pnl) \in Int
    BY <1>2, <1>7, SumWithout
  <2>2. CASE B = {}
    <3>1. PnlOf(B) = 0
      <4> DEFINE e == [row \in B |-> row.pnl]
      <4>1. e \in [B -> Int] /\ IsFiniteSet(B)
        BY <2>2, FS_EmptySet
      <4>2. SumFunction(e) = 0
        <5> HIDE DEF e
        <5> QED BY <2>2, <4>1, SumWithout
      <4> QED BY <4>2 DEF PnlOf
    <3>2. [r \in X \ B |-> pnl[r]] = pnl
      BY <1>7, <2>2
    <3>3. PnlOf(A) = SumFunction(pnl)
      BY <1>8, <3>2
    <3> QED BY <2>1, <3>1, <3>3
  <2>3. CASE B # {}
    <3>1. PICK b \in B : B = {b}
      BY <1>4, <2>3
    <3>2. b \in X /\ pnl[b] = b.pnl /\ b.pnl \in Int
      BY <1>2, <1>4, <1>7, <3>1
    <3>3. SumFunction(pnl) = pnl[b] + SumFunction([r \in X \ {b} |-> pnl[r]])
      <4>1. \A x \in X : SumFunction(pnl) = pnl[x] + SumFunction([r \in X \ {x} |-> pnl[r]])
        <5>1. IsFiniteSet(X) /\ pnl \in [X -> Int]
          BY <1>2, <1>7
        <5> QED BY <5>1, SumWithout
      <4> QED BY <3>2, <4>1
    <3>4. PnlOf(B) = b.pnl
      <4> DEFINE e == [row \in B |-> row.pnl]
      <4>1. e \in [B -> Int] /\ IsFiniteSet(B) /\ e[b] = b.pnl /\ b \in B
        BY <3>1, <3>2, FS_Singleton
      <4> DEFINE d == [r \in B \ {b} |-> e[r]]
      <4>2. d \in [B \ {b} -> Int] /\ IsFiniteSet(B \ {b}) /\ B \ {b} = {}
        BY <3>1, FS_EmptySet
      <4>3. SumFunction(d) = 0
        <5> HIDE DEF e, d
        <5> QED BY <4>2, SumWithout
      <4>4. SumFunction(e) = e[b] + SumFunction(d)
        <5> HIDE DEF e
        <5> QED BY <4>1, SumWithout
      <4>5. SumFunction(e) = b.pnl
        BY <3>2, <4>1, <4>3, <4>4
      <4> QED BY <4>5 DEF PnlOf
    <3>5. PnlOf(A) = SumFunction([r \in X \ {b} |-> pnl[r]])
      BY <1>8, <3>1
    <3> DEFINE rest == SumFunction([r \in X \ {b} |-> pnl[r]])
    <3>6. rest \in Int
      <4> DEFINE d == [r \in X \ {b} |-> pnl[r]]
      <4>1. d \in [X \ {b} -> Int] /\ IsFiniteSet(X \ {b})
        BY <1>2, <1>7, FS_Subset
      <4> HIDE DEF d
      <4>2. SumFunction(d) \in Int
        BY <4>1, SumWithout
      <4> QED BY <4>2 DEF d
    <3> HIDE DEF rest
    <3>7. SumFunction(pnl) = b.pnl + rest /\ PnlOf(A) = rest
      BY <3>2, <3>3, <3>5 DEF rest
    <3> QED BY <3>2, <3>4, <3>6, <3>7
  <2> QED BY <2>2, <2>3
<1> QED BY <1>5, <1>6, <1>9

\* For every history of days, saved as often as one likes, the two risk ledgers report weeks
\* that differ by the day that is a week old, and by nothing else.  (RiskStateManager's file,
\* and the repository of the daily risk state.)
THEOREM LedgersAgreeAlways ==
    ASSUME NEW calls, DayCalls(calls)
    PROVE  LedgersAgree(calls)
<1> DEFINE n == Len(calls)
           after == LedgersAlong(calls)
<1>1. n \in Nat /\ DOMAIN calls = 1 .. n
  BY DEF DayCalls
<1>2. \A i \in 1 .. n : calls[i].do = "midnight" \/ calls[i].pnl \in Int
  BY <1>1 DEF DayCalls
<1>3. LedgerRun(after, calls, n)
  <2>1. \E g : LedgerRun(g, calls, n)
    BY <1>1, LedgerRunExists
  <2>2. after = CHOOSE g : LedgerRun(g, calls, n)
    BY DEF LedgersAlong, LedgerRun
  <2> HIDE DEF after
  <2> QED BY <2>1, <2>2
<1> HIDE DEF after, n
<1>4. after[0] = [file |-> EmptyLedger, table |-> EmptyLedger]
  BY <1>1, <1>3 DEF LedgerRun
<1>5. \A i \in 1 .. n : after[i] = [file |-> OnFile(after[i - 1].file, calls[i]),
                                     table |-> OnRepository(after[i - 1].table, calls[i])]
  BY <1>1, <1>3 DEF LedgerRun
<1> DEFINE G == {k \in 0 .. n : Matched(after[k])}
<1>6. 0 \in G
  <2>1. Matched([file |-> EmptyLedger, table |-> EmptyLedger])
    BY FS_EmptySet DEF Matched, LedgerRows, EmptyLedger
  <2> QED BY <1>1, <1>4, <2>1
<1>7. ASSUME NEW k \in 1 .. n, k - 1 \in G PROVE k \in G
  <2>1. Matched(after[k - 1]) /\ k \in 0 .. n
    BY <1>1, <1>7
  <2>2. calls[k].do = "midnight" \/ calls[k].pnl \in Int
    BY <1>2
  <2>3. Matched([file |-> OnFile(after[k - 1].file, calls[k]), table |-> OnRepository(after[k - 1].table, calls[k])])
    BY <2>1, <2>2, MatchedStep
  <2> QED BY <1>5, <2>1, <2>3
<1>8. Matched(after[n])
  <2> HIDE DEF G
  <2>1. \A k \in 0 .. n : k \in G
    BY <1>1, <1>6, <1>7, Climb
  <2>2. n \in G
    BY <1>1, <2>1
  <2> QED BY <2>2 DEF G
<1>9. RepositoryWeek(after[n].table) =
        FileWeek(after[n].file) + PnlOf(Rows(after[n].file.rows, after[n].file.today - Week))
  BY <1>8, MatchedWeek
<1> QED BY <1>9 DEF LedgersAgree, after, n

-----------------------------------------------------------------------------
(* The stores.                                                             *)

\* What a store is made of.
StoreShape(s) == s = [f \in {"now", "trades", "orders", "decisions", "made", "snapshots", "keys"} |-> s[f]]

\* What a call leaves of each part in memory, and of each in PostgreSQL.
MemoryLeaves(s, c, t) ==
    /\ StoreShape(t)
    /\ t.now = IF c.do = "later" THEN s.now + 1 ELSE s.now
    /\ t.trades = IF c.do = "trade" THEN Upsert(s.trades, [id |-> c.id, at |-> c.at])
                  ELSE IF c.do = "cleanup" THEN From(s.trades, s.now - Keep) ELSE s.trades
    /\ t.orders = IF c.do = "order"
                  THEN Upsert(s.orders, [id |-> c.id, at |-> s.now, status |-> "pending", sized |-> c.sized])
                  ELSE IF c.do = "update" THEN MemoryUpdate(s, c).orders
                  ELSE IF c.do = "cleanup" THEN From(s.orders, s.now - Keep) ELSE s.orders
    /\ t.decisions = IF c.do = "decision"
                     THEN s.decisions \cup {[no |-> s.made, at |-> s.now, confidence |-> {c.confidence}]}
                     ELSE IF c.do = "cleanup" THEN From(s.decisions, s.now - Keep) ELSE s.decisions
    /\ t.made = IF c.do = "decision" THEN s.made + 1 ELSE s.made
    /\ t.snapshots = IF c.do = "snapshot" THEN s.snapshots \cup {[id |-> c.id, at |-> s.now]}
                     ELSE IF c.do = "cleanup" THEN From(s.snapshots, s.now - Keep) ELSE s.snapshots
    /\ t.keys = IF c.do \in {"mark", "check", "sweep"} THEN MemoryKeys(s, c).keys ELSE s.keys

PostgresLeaves(s, c, t) ==
    /\ StoreShape(t)
    /\ t.now = IF c.do = "later" THEN s.now + 1 ELSE s.now
    /\ t.trades = IF c.do = "trade" THEN PostgresSaveTrade(s, c).trades
                  ELSE IF c.do = "cleanup" THEN From(s.trades, Utc(s) - Keep) ELSE s.trades
    /\ t.orders = IF c.do = "order" THEN PostgresSaveOrder(s, c).orders
                  ELSE IF c.do = "update" THEN PostgresUpdate(s, c).orders
                  ELSE IF c.do = "cleanup" THEN From(s.orders, Utc(s) - Keep) ELSE s.orders
    /\ t.decisions = IF c.do = "decision"
                     THEN s.decisions \cup
                            {[no |-> s.made, at |-> Utc(s), confidence |-> {c.confidence} \ {0}]}
                     ELSE IF c.do = "cleanup" THEN From(s.decisions, Utc(s) - Keep) ELSE s.decisions
    /\ t.made = IF c.do = "decision" THEN s.made + 1 ELSE s.made
    /\ t.snapshots = IF c.do = "snapshot" THEN s.snapshots \cup {[id |-> c.id, at |-> Utc(s)]}
                     ELSE IF c.do = "cleanup" THEN From(s.snapshots, Utc(s) - Keep) ELSE s.snapshots
    /\ t.keys = IF c.do \in {"mark", "check", "sweep"} THEN PostgresKeys(s, c).keys ELSE s.keys

LEMMA MemoryParts ==
    ASSUME NEW s, StoreShape(s), NEW c, StoreCall(c), NEW t, t = OnMemory(s, c)
    PROVE  MemoryLeaves(s, c, t)
<1> USE DEF MemoryLeaves
<1>1. CASE c.do = "later"
  BY <1>1 DEF StoreShape, OnMemory, Later
<1>2. CASE c.do = "trade"
  BY <1>2 DEF StoreShape, OnMemory, MemorySaveTrade
<1>3. CASE c.do = "order"
  BY <1>3 DEF StoreShape, OnMemory, MemorySaveOrder
<1>4. CASE c.do = "update"
  BY <1>4 DEF StoreShape, OnMemory, MemoryUpdate
<1>5. CASE c.do = "decision"
  BY <1>5 DEF StoreShape, OnMemory, MemoryDecision
<1>6. CASE c.do = "snapshot"
  BY <1>6 DEF StoreShape, OnMemory, MemorySnapshot
<1>7. CASE c.do = "cleanup"
  <2> DEFINE cutoff == s.now - Keep
  <2>1. t = [s EXCEPT !.trades = From(@, cutoff), !.orders = From(@, cutoff), !.snapshots = From(@, cutoff),
                      !.decisions = From(@, cutoff)]
    BY <1>7 DEF OnMemory, MemoryCleanup
  <2> HIDE DEF cutoff
  <2>2. /\ StoreShape(t) /\ t.trades = From(s.trades, cutoff) /\ t.orders = From(s.orders, cutoff)
        /\ t.snapshots = From(s.snapshots, cutoff) /\ t.decisions = From(s.decisions, cutoff)
        /\ t.now = s.now /\ t.made = s.made /\ t.keys = s.keys
    BY <2>1 DEF StoreShape
  <2> QED BY <1>7, <2>2 DEF cutoff
<1>8. CASE c.do \in {"mark", "check", "sweep"}
  <2>1. t = MemoryKeys(s, c)
    BY <1>8 DEF OnMemory
  <2>2. \E x : MemoryKeys(s, c) = [s EXCEPT !.keys = x]
    BY <1>8 DEF MemoryKeys
  <2>3. \E x : t = [s EXCEPT !.keys = x]
    BY <2>1, <2>2
  <2>4. /\ c.do # "later" /\ c.do # "trade" /\ c.do # "order" /\ c.do # "update" /\ c.do # "decision"
        /\ c.do # "snapshot" /\ c.do # "cleanup"
    BY <1>8
  <2>5. /\ StoreShape(t) /\ t.now = s.now /\ t.trades = s.trades /\ t.orders = s.orders
        /\ t.decisions = s.decisions /\ t.made = s.made /\ t.snapshots = s.snapshots
    BY <2>3 DEF StoreShape
  <2> QED BY <1>8, <2>1, <2>4, <2>5
<1> QED BY <1>1, <1>2, <1>3, <1>4, <1>5, <1>6, <1>7, <1>8 DEF StoreCall

LEMMA PostgresParts ==
    ASSUME NEW s, StoreShape(s), NEW c, StoreCall(c), NEW t, t = OnPostgres(s, c)
    PROVE  PostgresLeaves(s, c, t)
<1> USE DEF PostgresLeaves
<1>1. CASE c.do = "later"
  BY <1>1 DEF StoreShape, OnPostgres, Later
<1>2. CASE c.do = "trade"
  <2>1. t = PostgresSaveTrade(s, c)
    BY <1>2 DEF OnPostgres
  <2>2. t = s \/ \E x : t = [s EXCEPT !.trades = x]
    BY <2>1 DEF PostgresSaveTrade
  <2>3. /\ StoreShape(t) /\ t.now = s.now /\ t.orders = s.orders /\ t.decisions = s.decisions
        /\ t.made = s.made /\ t.snapshots = s.snapshots /\ t.keys = s.keys
    BY <2>2 DEF StoreShape
  <2> QED BY <1>2, <2>1, <2>3
<1>3. CASE c.do \in {"order", "update"}
  <2>1. t = IF c.do = "order" THEN PostgresSaveOrder(s, c) ELSE PostgresUpdate(s, c)
    BY <1>3 DEF OnPostgres
  <2>2. t = s \/ \E x : t = [s EXCEPT !.orders = x]
    BY <2>1 DEF PostgresSaveOrder, PostgresUpdate
  <2>3. /\ StoreShape(t) /\ t.now = s.now /\ t.trades = s.trades /\ t.decisions = s.decisions
        /\ t.made = s.made /\ t.snapshots = s.snapshots /\ t.keys = s.keys
    BY <2>2 DEF StoreShape
  <2> QED BY <1>3, <2>1, <2>3
<1>4. CASE c.do = "decision"
  BY <1>4 DEF StoreShape, OnPostgres, PostgresDecision
<1>5. CASE c.do = "snapshot"
  BY <1>5 DEF StoreShape, OnPostgres, PostgresSnapshot
<1>6. CASE c.do = "cleanup"
  <2> DEFINE cutoff == Utc(s) - Keep
  <2>1. t = [s EXCEPT !.trades = From(@, cutoff), !.orders = From(@, cutoff), !.snapshots = From(@, cutoff),
                      !.decisions = From(@, cutoff)]
    BY <1>6 DEF OnPostgres, PostgresCleanup
  <2> HIDE DEF cutoff
  <2>2. /\ StoreShape(t) /\ t.trades = From(s.trades, cutoff) /\ t.orders = From(s.orders, cutoff)
        /\ t.snapshots = From(s.snapshots, cutoff) /\ t.decisions = From(s.decisions, cutoff)
        /\ t.now = s.now /\ t.made = s.made /\ t.keys = s.keys
    BY <2>1 DEF StoreShape
  <2> QED BY <1>6, <2>2 DEF cutoff
<1>7. CASE c.do \in {"mark", "check", "sweep"}
  <2>1. t = PostgresKeys(s, c)
    BY <1>7 DEF OnPostgres
  <2>2. t = s \/ \E x : t = [s EXCEPT !.keys = x]
    BY <1>7, <2>1 DEF PostgresKeys
  <2>4. /\ c.do # "later" /\ c.do # "trade" /\ c.do # "order" /\ c.do # "update" /\ c.do # "decision"
        /\ c.do # "snapshot" /\ c.do # "cleanup"
    BY <1>7
  <2>5. /\ StoreShape(t) /\ t.now = s.now /\ t.trades = s.trades /\ t.orders = s.orders
        /\ t.decisions = s.decisions /\ t.made = s.made /\ t.snapshots = s.snapshots
    BY <2>2 DEF StoreShape
  <2> QED BY <1>7, <2>1, <2>4, <2>5
<1> QED BY <1>1, <1>2, <1>3, <1>4, <1>5, <1>6, <1>7 DEF StoreCall

\* Two stores at one time.
Together(m, p) ==
    /\ StoreShape(m) /\ StoreShape(p)
    /\ m.now = p.now /\ p.now \in Int
    /\ m.made = p.made /\ p.made \in Int

\* A step of both stores.
StoresStep(calls, k, m, p, n, q) ==
    /\ StoreCalls(calls) /\ k \in 1 .. Len(calls)
    /\ Together(m, p)
    /\ n = OnMemory(m, calls[k]) /\ q = OnPostgres(p, calls[k])

LEMMA StoresStepIs ==
    ASSUME NEW calls, NEW k, NEW m, NEW p, NEW n, NEW q, StoresStep(calls, k, m, p, n, q)
    PROVE  /\ Len(calls) \in Nat /\ DOMAIN calls = 1 .. Len(calls) /\ k \in 1 .. Len(calls)
           /\ StoreCall(calls[k]) /\ StoreShape(m) /\ StoreShape(p)
           /\ MemoryLeaves(m, calls[k], n) /\ PostgresLeaves(p, calls[k], q)
           /\ p.now \in Int /\ m.now = p.now /\ p.made \in Int /\ m.made = p.made
           /\ Utc(p) = p.now - Offset /\ Utc(p) \in Int /\ Offset \in Nat /\ Keep \in Nat /\ Ttl \in Nat /\ Window \in Nat
<1>1. Len(calls) \in Nat /\ DOMAIN calls = 1 .. Len(calls)
  BY DEF StoresStep, StoreCalls
<1>2. StoreCall(calls[k])
  BY <1>1 DEF StoresStep, StoreCalls
<1>3. Offset \in Nat /\ Keep \in Nat /\ Ttl \in Nat /\ Window \in Nat
  BY PortsAssumption
<1>4. MemoryLeaves(m, calls[k], n) /\ PostgresLeaves(p, calls[k], q)
  <2>1. StoreShape(m) /\ StoreShape(p) /\ n = OnMemory(m, calls[k]) /\ q = OnPostgres(p, calls[k])
    BY DEF StoresStep, Together
  <2> QED BY <1>2, <2>1, MemoryParts, PostgresParts
<1> QED BY <1>1, <1>2, <1>3, <1>4 DEF StoresStep, Together, Utc

LEMMA TogetherStep ==
    ASSUME NEW calls, NEW k, NEW m, NEW p, NEW n, NEW q, StoresStep(calls, k, m, p, n, q)
    PROVE  Together(n, q)
<1> DEFINE c == calls[k]
<1>1. /\ StoreShape(n) /\ n.now = (IF c.do = "later" THEN m.now + 1 ELSE m.now)
      /\ n.made = (IF c.do = "decision" THEN m.made + 1 ELSE m.made)
  <2>1. MemoryLeaves(m, c, n)
    BY StoresStepIs
  <2> HIDE DEF c
  <2> QED BY <2>1 DEF MemoryLeaves
<1>2. /\ StoreShape(q) /\ q.now = (IF c.do = "later" THEN p.now + 1 ELSE p.now)
      /\ q.made = (IF c.do = "decision" THEN p.made + 1 ELSE p.made)
  <2>1. PostgresLeaves(p, c, q)
    BY StoresStepIs
  <2> HIDE DEF c
  <2> QED BY <2>1 DEF PostgresLeaves
<1>3. p.now \in Int /\ m.now = p.now /\ p.made \in Int /\ m.made = p.made
  BY StoresStepIs
<1> HIDE DEF c
<1> QED BY <1>1, <1>2, <1>3 DEF Together

\* The trades in memory are in PostgreSQL; each is from one of the calls.
SavedTrade(calls, k, r) ==
    /\ r = [id |-> r.id, at |-> r.at] /\ r.at \in Int
    /\ \E j \in 1 .. k : calls[j].do = "trade" /\ calls[j].id = r.id /\ calls[j].at = r.at
TradesMatch(m, p, calls, k) ==
    /\ \A r \in p.trades : SavedTrade(calls, k, r)
    /\ m.trades \subseteq p.trades

LEMMA TradesStep ==
    ASSUME NEW calls, NEW k, NEW m, NEW p, NEW n, NEW q, StoresStep(calls, k, m, p, n, q),
           TradesMatch(m, p, calls, k - 1)
    PROVE  TradesMatch(n, q, calls, k)
<1> DEFINE c == calls[k]
           new == [id |-> c.id, at |-> c.at]
<1>1. n.trades = IF c.do = "trade" THEN Upsert(m.trades, new)
                 ELSE IF c.do = "cleanup" THEN From(m.trades, m.now - Keep) ELSE m.trades
  <2>1. MemoryLeaves(m, c, n)
    BY StoresStepIs
  <2> HIDE DEF c
  <2> QED BY <2>1 DEF MemoryLeaves
<1>2. q.trades = IF c.do = "trade" THEN PostgresSaveTrade(p, c).trades
                 ELSE IF c.do = "cleanup" THEN From(p.trades, Utc(p) - Keep) ELSE p.trades
  <2>1. PostgresLeaves(p, c, q)
    BY StoresStepIs
  <2> HIDE DEF c
  <2> QED BY <2>1 DEF PostgresLeaves
<1>3. /\ p.now \in Int /\ m.now = p.now /\ Utc(p) = p.now - Offset /\ Offset \in Nat /\ Keep \in Nat
      /\ StoreShape(p) /\ k \in 1 .. Len(calls) /\ Len(calls) \in Nat /\ DOMAIN calls = 1 .. Len(calls)
  BY StoresStepIs
<1>4. \A r : SavedTrade(calls, k - 1, r) => SavedTrade(calls, k, r)
  <2>1. 1 .. k - 1 \subseteq 1 .. k
    BY <1>3
  <2> QED BY <2>1 DEF SavedTrade
<1>5. (\A r \in p.trades : SavedTrade(calls, k, r)) /\ m.trades \subseteq p.trades
  BY <1>4 DEF TradesMatch
<1>6. CASE c.do = "trade"
  <2>1. c.at \in Int
    BY <1>6, StoresStepIs DEF StoreCall
  <2>2. SavedTrade(calls, k, new) /\ new.id = c.id /\ new.at = c.at
    <3>1. k \in 1 .. k
      BY <1>3
    <3> QED BY <1>6, <2>1, <3>1 DEF SavedTrade
  <2>3. \A r \in p.trades : r.id = c.id => r = new
    <3> TAKE r \in p.trades
    <3> HAVE r.id = c.id
    <3>1. PICK j \in 1 .. k : calls[j].do = "trade" /\ calls[j].id = r.id /\ calls[j].at = r.at
      BY <1>5 DEF SavedTrade
    <3>2. j \in DOMAIN calls /\ k \in DOMAIN calls
      BY <1>3
    <3>3. \A x, y \in DOMAIN calls :
            calls[x].do = "trade" /\ calls[y].do = "trade" /\ calls[x].id = calls[y].id => calls[x].at = calls[y].at
      BY DEF StoresStep, StoreCalls
    <3>4. r.at = c.at
      BY <1>6, <3>1, <3>2, <3>3
    <3>5. r = [id |-> r.id, at |-> r.at]
      BY <1>5 DEF SavedTrade
    <3> QED BY <3>4, <3>5
  <2> HIDE DEF new
  <2>4. q.trades = p.trades \cup {new}
    <3>1. CASE Rows(p.trades, c.id) # {}
      <4>1. PICK r \in p.trades : r.id = c.id
        BY <3>1 DEF Rows
      <4>2. new \in p.trades
        BY <2>3, <4>1
      <4>3. PostgresSaveTrade(p, c).trades = p.trades
        BY <3>1 DEF PostgresSaveTrade
      <4> QED BY <1>2, <1>6, <4>2, <4>3
    <3>2. CASE Rows(p.trades, c.id) = {}
      <4>1. PostgresSaveTrade(p, c).trades = p.trades \cup {new}
        BY <1>3, <3>2 DEF PostgresSaveTrade, StoreShape, new
      <4> QED BY <1>2, <1>6, <4>1
    <3> QED BY <3>1, <3>2
  <2>5. n.trades \subseteq m.trades \cup {new}
    BY <1>1, <1>6 DEF Upsert
  <2> QED BY <1>5, <2>2, <2>4, <2>5 DEF TradesMatch
<1>7. CASE c.do = "cleanup"
  <2>1. n.trades = From(m.trades, m.now - Keep) /\ q.trades = From(p.trades, Utc(p) - Keep)
    BY <1>1, <1>2, <1>7
  <2>2. \A r \in p.trades : r.at \in Int
    BY <1>5 DEF SavedTrade
  <2>3. \A r \in p.trades : r.at >= m.now - Keep => r.at >= Utc(p) - Keep
    BY <1>3, <2>2
  <2> QED BY <1>5, <2>1, <2>3 DEF TradesMatch, From
<1>8. CASE c.do # "trade" /\ c.do # "cleanup"
  BY <1>1, <1>2, <1>5, <1>8 DEF TradesMatch
<1> QED BY <1>6, <1>7, <1>8

\* The snapshots are the same, but for the clock.
SnapshotsMatch(m, p) ==
    /\ \A r \in m.snapshots : r.at \in Int /\ \E s \in p.snapshots : s.id = r.id /\ s.at = r.at - Offset
    /\ \A s \in p.snapshots : s.at \in Int /\ \E r \in m.snapshots : s.id = r.id /\ s.at = r.at - Offset

LEMMA SnapshotsFrom ==
    ASSUME NEW m, NEW p, SnapshotsMatch(m, p), NEW cutoff \in Int,
           NEW n, n.snapshots = From(m.snapshots, cutoff), NEW q, q.snapshots = From(p.snapshots, cutoff - Offset)
    PROVE  SnapshotsMatch(n, q)
<1>0. Offset \in Nat
  BY PortsAssumption
<1>1. \A r \in m.snapshots : r.at \in Int
  BY DEF SnapshotsMatch
<1>2. ASSUME NEW r \in n.snapshots PROVE r.at \in Int /\ \E s \in q.snapshots : s.id = r.id /\ s.at = r.at - Offset
  <2>1. r \in m.snapshots /\ r.at >= cutoff /\ r.at \in Int
    BY <1>1, <1>2 DEF From
  <2>2. PICK s \in p.snapshots : s.id = r.id /\ s.at = r.at - Offset
    BY <2>1 DEF SnapshotsMatch
  <2>3. s.at >= cutoff - Offset
    BY <1>0, <2>1, <2>2
  <2> QED BY <2>1, <2>2, <2>3 DEF From
<1>3. ASSUME NEW s \in q.snapshots PROVE s.at \in Int /\ \E r \in n.snapshots : s.id = r.id /\ s.at = r.at - Offset
  <2>1. s \in p.snapshots /\ s.at >= cutoff - Offset
    BY <1>3 DEF From
  <2>2. s.at \in Int /\ \E r \in m.snapshots : s.id = r.id /\ s.at = r.at - Offset
    BY <2>1 DEF SnapshotsMatch
  <2>3. PICK r \in m.snapshots : s.id = r.id /\ s.at = r.at - Offset
    BY <2>2
  <2>4. r.at >= cutoff
    BY <1>0, <1>1, <2>1, <2>3
  <2> QED BY <2>2, <2>3, <2>4 DEF From
<1> QED BY <1>2, <1>3 DEF SnapshotsMatch

LEMMA SnapshotsStep ==
    ASSUME NEW calls, NEW k, NEW m, NEW p, NEW n, NEW q, StoresStep(calls, k, m, p, n, q), SnapshotsMatch(m, p)
    PROVE  SnapshotsMatch(n, q)
<1> DEFINE c == calls[k]
<1>1. n.snapshots = IF c.do = "snapshot" THEN m.snapshots \cup {[id |-> c.id, at |-> m.now]}
                    ELSE IF c.do = "cleanup" THEN From(m.snapshots, m.now - Keep) ELSE m.snapshots
  <2>1. MemoryLeaves(m, c, n)
    BY StoresStepIs
  <2> HIDE DEF c
  <2> QED BY <2>1 DEF MemoryLeaves
<1>2. q.snapshots = IF c.do = "snapshot" THEN p.snapshots \cup {[id |-> c.id, at |-> Utc(p)]}
                    ELSE IF c.do = "cleanup" THEN From(p.snapshots, Utc(p) - Keep) ELSE p.snapshots
  <2>1. PostgresLeaves(p, c, q)
    BY StoresStepIs
  <2> HIDE DEF c
  <2> QED BY <2>1 DEF PostgresLeaves
<1>3. p.now \in Int /\ m.now = p.now /\ Utc(p) = p.now - Offset /\ Offset \in Nat /\ Keep \in Nat
  BY StoresStepIs
<1> HIDE DEF c
<1>4. CASE c.do = "snapshot"
  <2> DEFINE r == [id |-> c.id, at |-> m.now]
             s == [id |-> c.id, at |-> Utc(p)]
  <2>1. n.snapshots = m.snapshots \cup {r} /\ q.snapshots = p.snapshots \cup {s}
    BY <1>1, <1>2, <1>4
  <2>2. s.id = r.id /\ s.at = r.at - Offset /\ r.at \in Int /\ s.at \in Int
    BY <1>3
  <2> HIDE DEF r, s
  <2> QED BY <2>1, <2>2 DEF SnapshotsMatch
<1>5. CASE c.do = "cleanup"
  <2> DEFINE cutoff == m.now - Keep
  <2>1. cutoff \in Int /\ Utc(p) - Keep = cutoff - Offset
    BY <1>3
  <2>2. n.snapshots = From(m.snapshots, cutoff) /\ q.snapshots = From(p.snapshots, cutoff - Offset)
    BY <1>1, <1>2, <1>5, <2>1
  <2> HIDE DEF cutoff
  <2> QED BY <2>1, <2>2, SnapshotsFrom
<1>6. CASE c.do # "snapshot" /\ c.do # "cleanup"
  BY <1>1, <1>2, <1>6 DEF SnapshotsMatch
<1> QED BY <1>4, <1>5, <1>6

\* An order that is saved once, with a volume, and gets no other status than those there are.
PlainOrder(calls, id) ==
    /\ \A i, j \in DOMAIN calls :
          calls[i].do = "order" /\ calls[j].do = "order" /\ calls[i].id = id /\ calls[j].id = id => i = j
    /\ \A i \in DOMAIN calls : calls[i].do = "order" /\ calls[i].id = id => calls[i].sized
    /\ \A i \in DOMAIN calls : calls[i].do = "update" /\ calls[i].id = id => calls[i].status \in OrderStatuses

OrderShape(o) == o = [f \in {"id", "at", "status", "sized"} |-> o[f]] /\ o.at \in Int
SavedOrder(calls, k, o) == \E j \in 1 .. k : calls[j].do = "order" /\ calls[j].id = o.id
SavedSize(calls, k, o) ==
    \E j \in 1 .. k : calls[j].do = "order" /\ calls[j].id = o.id /\ calls[j].sized = o.sized

\* A plain order that memory knows is in PostgreSQL, as it is.
OrdersMatch(m, p, calls, k) ==
    /\ \A o \in m.orders : OrderShape(o) /\ SavedSize(calls, k, o)
    /\ \A q \in p.orders : OrderShape(q) /\ SavedOrder(calls, k, q)
    /\ \A o \in m.orders : PlainOrder(calls, o.id) =>
          o.status \in OrderStatuses /\ \E q \in p.orders : q.id = o.id /\ q.status = o.status /\ q.at = o.at

\* What becomes of an order when a status is written.
LEMMA MemoryUpdated ==
    ASSUME NEW s, StoreShape(s), NEW c, NEW r \in MemoryUpdate(s, c).orders,
           \A o \in s.orders : OrderShape(o)
    PROVE  \E o \in s.orders :
              /\ OrderShape(r) /\ r.id = o.id /\ r.at = o.at /\ r.sized = o.sized
              /\ r.status = IF o.id = c.id /\ c.status \in OrderStatuses THEN c.status ELSE o.status
<1>1. MemoryUpdate(s, c).orders =
        {IF o.id = c.id /\ c.status \in OrderStatuses THEN [o EXCEPT !.status = c.status] ELSE o : o \in s.orders}
  BY DEF MemoryUpdate, StoreShape
<1>2. PICK o \in s.orders :
        r = IF o.id = c.id /\ c.status \in OrderStatuses THEN [o EXCEPT !.status = c.status] ELSE o
  BY <1>1
<1>3. OrderShape(o)
  BY <1>2
<1> QED BY <1>2, <1>3 DEF OrderShape

LEMMA PostgresUpdated ==
    ASSUME NEW s, StoreShape(s), NEW c, \A o \in s.orders : OrderShape(o)
    PROVE  /\ \A o \in s.orders : \E r \in PostgresUpdate(s, c).orders :
                r.id = o.id /\ r.at = o.at /\ r.status = IF o.id = c.id THEN c.status ELSE o.status
           /\ \A r \in PostgresUpdate(s, c).orders : OrderShape(r) /\ \E o \in s.orders : r.id = o.id
<1> DEFINE Written(o) == IF o.id = c.id THEN [o EXCEPT !.status = c.status] ELSE o
<1>1. PostgresUpdate(s, c).orders = {Written(o) : o \in s.orders}
  BY DEF PostgresUpdate, StoreShape
<1>2. \A o \in s.orders : /\ OrderShape(Written(o)) /\ Written(o).id = o.id /\ Written(o).at = o.at
                          /\ Written(o).status = IF o.id = c.id THEN c.status ELSE o.status
  <2> TAKE o \in s.orders
  <2>1. OrderShape(o)
    OBVIOUS
  <2> QED BY <2>1 DEF OrderShape
<1> HIDE DEF Written
<1> QED BY <1>1, <1>2

LEMMA OrdersStep ==
    ASSUME NEW calls, NEW k, NEW m, NEW p, NEW n, NEW q, StoresStep(calls, k, m, p, n, q),
           OrdersMatch(m, p, calls, k - 1)
    PROVE  OrdersMatch(n, q, calls, k)
<1> DEFINE c == calls[k]
           new == [id |-> c.id, at |-> m.now, status |-> "pending", sized |-> c.sized]
           row == [id |-> c.id, at |-> p.now, status |-> "pending", sized |-> TRUE]
<1>1. n.orders = IF c.do = "order" THEN Upsert(m.orders, new)
                 ELSE IF c.do = "update" THEN MemoryUpdate(m, c).orders
                 ELSE IF c.do = "cleanup" THEN From(m.orders, m.now - Keep) ELSE m.orders
  <2>1. MemoryLeaves(m, c, n)
    BY StoresStepIs
  <2> HIDE DEF c
  <2> QED BY <2>1 DEF MemoryLeaves
<1>2. q.orders = IF c.do = "order" THEN PostgresSaveOrder(p, c).orders
                 ELSE IF c.do = "update" THEN PostgresUpdate(p, c).orders
                 ELSE IF c.do = "cleanup" THEN From(p.orders, Utc(p) - Keep) ELSE p.orders
  <2>1. PostgresLeaves(p, c, q)
    BY StoresStepIs
  <2> HIDE DEF c
  <2> QED BY <2>1 DEF PostgresLeaves
<1>3. /\ p.now \in Int /\ m.now = p.now /\ Utc(p) = p.now - Offset /\ Offset \in Nat /\ Keep \in Nat
      /\ StoreShape(p) /\ StoreShape(m)
      /\ k \in 1 .. Len(calls) /\ Len(calls) \in Nat /\ DOMAIN calls = 1 .. Len(calls) /\ StoreCall(c)
  BY StoresStepIs
<1>4. 1 .. k - 1 \subseteq 1 .. k /\ k \in 1 .. k /\ 1 .. k \subseteq DOMAIN calls
  BY <1>3
<1>5. /\ \A o \in m.orders : OrderShape(o) /\ SavedSize(calls, k, o)
      /\ \A r \in p.orders : OrderShape(r) /\ SavedOrder(calls, k, r)
  BY <1>4 DEF OrdersMatch, SavedOrder, SavedSize
<1>6. \A o \in m.orders : PlainOrder(calls, o.id) =>
        o.status \in OrderStatuses /\ \E r \in p.orders : r.id = o.id /\ r.status = o.status /\ r.at = o.at
  BY DEF OrdersMatch
<1>7. CASE c.do = "order"
  <2>2. /\ OrderShape(new) /\ SavedSize(calls, k, new) /\ new.id = c.id /\ new.at = p.now /\ new.status = "pending"
    <3>1. OrderShape(new)
      BY <1>3 DEF OrderShape
    <3>2. SavedSize(calls, k, new)
      BY <1>4, <1>7 DEF SavedSize
    <3> QED BY <1>3, <3>1, <3>2
  <2>3. OrderShape(row) /\ SavedOrder(calls, k, row) /\ row.id = c.id /\ row.at = p.now /\ row.status = "pending"
    <3>1. OrderShape(row)
      BY <1>3 DEF OrderShape
    <3>2. SavedOrder(calls, k, row)
      BY <1>4, <1>7 DEF SavedOrder
    <3> QED BY <3>1, <3>2
  <2>4. q.orders = IF Rows(p.orders, c.id) # {} \/ ~c.sized THEN p.orders ELSE p.orders \cup {row}
    BY <1>2, <1>3, <1>7 DEF PostgresSaveOrder, StoreShape
  <2> HIDE DEF new, row
  <2>5. \A o \in n.orders : o = new \/ (o \in m.orders /\ o.id # c.id)
    BY <1>1, <1>7, <2>2 DEF Upsert, Rows
  <2>6. PlainOrder(calls, c.id) => row \in q.orders
    <3> HAVE PlainOrder(calls, c.id)
    <3>1. c.sized
      BY <1>4, <1>7 DEF PlainOrder
    <3>2. ASSUME NEW r \in Rows(p.orders, c.id) PROVE FALSE
      <4>1. r.id = c.id /\ r \in p.orders
        BY DEF Rows
      <4>2. PICK j \in 1 .. k - 1 : calls[j].do = "order" /\ calls[j].id = r.id
        BY <4>1 DEF OrdersMatch, SavedOrder
      <4>3. j \in DOMAIN calls /\ k \in DOMAIN calls /\ j # k
        BY <1>3, <1>4
      <4> QED BY <1>7, <4>1, <4>2, <4>3 DEF PlainOrder
    <3> QED BY <2>4, <3>1, <3>2
  <2>7. "pending" \in OrderStatuses
    BY DEF OrderStatuses
  <2>8. \A o \in n.orders : OrderShape(o) /\ SavedSize(calls, k, o)
    BY <1>5, <2>2, <2>5
  <2>9. \A r \in q.orders : OrderShape(r) /\ SavedOrder(calls, k, r)
    BY <1>5, <2>3, <2>4
  <2>10. ASSUME NEW o \in n.orders, PlainOrder(calls, o.id)
         PROVE  o.status \in OrderStatuses /\ \E r \in q.orders : r.id = o.id /\ r.status = o.status /\ r.at = o.at
    <3>1. CASE o = new
      BY <2>2, <2>3, <2>6, <2>7, <2>10, <3>1
    <3>2. CASE o \in m.orders
      BY <1>6, <2>4, <2>10, <3>2
    <3> QED BY <2>5, <3>1, <3>2
  <2> QED BY <2>8, <2>9, <2>10 DEF OrdersMatch
<1>8. CASE c.do = "update"
  <2>1. n.orders = MemoryUpdate(m, c).orders /\ q.orders = PostgresUpdate(p, c).orders
    BY <1>1, <1>2, <1>8
  <2> HIDE DEF c
  <2>2. \A r \in n.orders : \E o \in m.orders :
          /\ OrderShape(r) /\ r.id = o.id /\ r.at = o.at /\ r.sized = o.sized
          /\ r.status = IF o.id = c.id /\ c.status \in OrderStatuses THEN c.status ELSE o.status
    BY <1>3, <1>5, <2>1, MemoryUpdated
  <2>3. /\ \A o \in p.orders : \E r \in q.orders :
             r.id = o.id /\ r.at = o.at /\ r.status = IF o.id = c.id THEN c.status ELSE o.status
        /\ \A r \in q.orders : OrderShape(r) /\ \E o \in p.orders : r.id = o.id
    BY <1>3, <1>5, <2>1, PostgresUpdated
  <2>4. \A r \in n.orders : OrderShape(r) /\ SavedSize(calls, k, r)
    BY <1>5, <2>2 DEF SavedSize
  <2>5. \A r \in q.orders : OrderShape(r) /\ SavedOrder(calls, k, r)
    BY <1>5, <2>3 DEF SavedOrder
  <2>6. ASSUME NEW x \in n.orders, PlainOrder(calls, x.id)
        PROVE  x.status \in OrderStatuses /\ \E r \in q.orders : r.id = x.id /\ r.status = x.status /\ r.at = x.at
    <3>1. PICK o \in m.orders :
            /\ OrderShape(x) /\ x.id = o.id /\ x.at = o.at
            /\ x.status = IF o.id = c.id /\ c.status \in OrderStatuses THEN c.status ELSE o.status
      BY <2>2
    <3>2. o.status \in OrderStatuses
      BY <1>6, <2>6, <3>1
    <3>3. PICK r \in p.orders : r.id = o.id /\ r.status = o.status /\ r.at = o.at
      BY <1>6, <2>6, <3>1
    <3>4. PICK z \in q.orders : z.id = r.id /\ z.at = r.at /\ z.status = IF r.id = c.id THEN c.status ELSE r.status
      BY <2>3
    <3>5. o.id = c.id => c.status \in OrderStatuses
      BY <1>4, <1>8, <2>6, <3>1 DEF PlainOrder, c
    <3> QED BY <3>1, <3>2, <3>3, <3>4, <3>5
  <2> QED BY <2>4, <2>5, <2>6 DEF OrdersMatch
<1>9. CASE c.do = "cleanup"
  <2>1. n.orders = From(m.orders, m.now - Keep) /\ q.orders = From(p.orders, Utc(p) - Keep)
    BY <1>1, <1>2, <1>9
  <2>2. n.orders \subseteq m.orders /\ q.orders \subseteq p.orders
    BY <2>1 DEF From
  <2>3. \A o \in n.orders, r \in p.orders : r.at = o.at => r \in q.orders
    <3> TAKE o \in n.orders, r \in p.orders
    <3> HAVE r.at = o.at
    <3>1. o.at \in Int /\ o.at >= m.now - Keep
      BY <1>5, <2>1, <2>2 DEF From, OrderShape
    <3>2. r.at >= Utc(p) - Keep
      BY <1>3, <3>1
    <3> QED BY <2>1, <3>2 DEF From
  <2>4. ASSUME NEW o \in n.orders, PlainOrder(calls, o.id)
        PROVE  o.status \in OrderStatuses /\ \E r \in q.orders : r.id = o.id /\ r.status = o.status /\ r.at = o.at
    <3>1. o \in m.orders
      BY <2>2
    <3>2. PICK r \in p.orders : r.id = o.id /\ r.status = o.status /\ r.at = o.at
      BY <1>6, <2>4, <3>1
    <3> QED BY <1>6, <2>3, <2>4, <3>1, <3>2
  <2> QED BY <1>5, <2>2, <2>4 DEF OrdersMatch
<1>10. CASE c.do # "order" /\ c.do # "update" /\ c.do # "cleanup"
  BY <1>1, <1>2, <1>5, <1>6, <1>10 DEF OrdersMatch
<1> QED BY <1>7, <1>8, <1>9, <1>10

MarkedOnce(calls, id) ==
    \A i, j \in DOMAIN calls :
        calls[i].do = "mark" /\ calls[j].do = "mark" /\ calls[i].id = id /\ calls[j].id = id => i = j

MarkedKey(calls, k, r) == r.until \in Int /\ \E j \in 1 .. k : calls[j].do = "mark" /\ calls[j].id = r.id

\* What is alive in PostgreSQL is so in memory, and what is marked once the other way around.
KeysMatch(m, p, calls, k) ==
    /\ \A x \in m.keys : MarkedKey(calls, k, x)
    /\ \A r \in p.keys : MarkedKey(calls, k, r) /\ r.until <= p.now + Ttl
    /\ \A r \in p.keys : p.now < r.until => \E x \in m.keys : x.id = r.id /\ x.until >= r.until
    /\ \A x \in m.keys : MarkedOnce(calls, x.id) /\ p.now < x.until =>
          \E r \in p.keys : r.id = x.id /\ r.until >= x.until

LEMMA MarkParts ==
    ASSUME NEW s, StoreShape(s), NEW c, c.do = "mark", NEW new, new = [id |-> c.id, until |-> s.now + Ttl]
    PROVE  /\ MemoryKeys(s, c).keys = Upsert(s.keys, new)
           /\ PostgresKeys(s, c).keys = IF Rows(s.keys, c.id) # {} THEN s.keys ELSE s.keys \cup {new}
<1>1. MemoryKeys(s, c) = [s EXCEPT !.keys = Upsert(@, new)]
  BY DEF MemoryKeys
<1>2. PostgresKeys(s, c) = [s EXCEPT !.keys = IF Rows(@, c.id) # {} THEN @ ELSE @ \cup {new}]
  BY DEF PostgresKeys
<1> QED BY <1>1, <1>2 DEF StoreShape

LEMMA CheckParts ==
    ASSUME NEW s, StoreShape(s), NEW c
    PROVE  /\ c.do = "check" => /\ MemoryKeys(s, c).keys = {x \in s.keys : x.id # c.id \/ LiveKey(s, c.id)}
                                /\ PostgresKeys(s, c).keys = s.keys
           /\ c.do = "sweep" => /\ MemoryKeys(s, c).keys = {x \in s.keys : LiveKey(s, x.id)}
                                /\ PostgresKeys(s, c).keys = {x \in s.keys : LiveKey(s, x.id)}
<1>1. CASE c.do = "check"
  <2>1. MemoryKeys(s, c) = [s EXCEPT !.keys = {x \in @ : x.id # c.id \/ LiveKey(s, c.id)}] /\ PostgresKeys(s, c) = s
    BY <1>1 DEF MemoryKeys, PostgresKeys
  <2> QED BY <1>1, <2>1 DEF StoreShape
<1>2. CASE c.do = "sweep"
  <2>1. /\ MemoryKeys(s, c) = [s EXCEPT !.keys = {x \in @ : LiveKey(s, x.id)}]
        /\ PostgresKeys(s, c) = [s EXCEPT !.keys = {x \in @ : LiveKey(s, x.id)}]
    BY <1>2 DEF MemoryKeys, PostgresKeys
  <2> QED BY <1>2, <2>1 DEF StoreShape
<1> QED BY <1>1, <1>2

LEMMA KeysStep ==
    ASSUME NEW calls, NEW k, NEW m, NEW p, NEW n, NEW q, StoresStep(calls, k, m, p, n, q),
           KeysMatch(m, p, calls, k - 1)
    PROVE  KeysMatch(n, q, calls, k)
<1> DEFINE c == calls[k]
           new == [id |-> c.id, until |-> p.now + Ttl]
<1>1. n.keys = IF c.do \in {"mark", "check", "sweep"} THEN MemoryKeys(m, c).keys ELSE m.keys
  <2>1. MemoryLeaves(m, c, n)
    BY StoresStepIs
  <2> HIDE DEF c
  <2> QED BY <2>1 DEF MemoryLeaves
<1>2. /\ q.keys = IF c.do \in {"mark", "check", "sweep"} THEN PostgresKeys(p, c).keys ELSE p.keys
      /\ q.now = IF c.do = "later" THEN p.now + 1 ELSE p.now
  <2>1. PostgresLeaves(p, c, q)
    BY StoresStepIs
  <2> HIDE DEF c
  <2> QED BY <2>1 DEF PostgresLeaves
<1>3. /\ p.now \in Int /\ m.now = p.now /\ Ttl \in Nat /\ StoreShape(p) /\ StoreShape(m)
      /\ k \in 1 .. Len(calls) /\ Len(calls) \in Nat /\ DOMAIN calls = 1 .. Len(calls) /\ StoreCall(c)
  BY StoresStepIs
<1>4. 1 .. k - 1 \subseteq 1 .. k /\ k \in 1 .. k /\ 1 .. k \subseteq DOMAIN calls
  BY <1>3
<1>5. /\ \A x \in m.keys : MarkedKey(calls, k, x)
      /\ \A r \in p.keys : MarkedKey(calls, k, r) /\ r.until <= p.now + Ttl
  BY <1>4 DEF KeysMatch, MarkedKey
<1>6. /\ \A r \in p.keys : p.now < r.until => \E x \in m.keys : x.id = r.id /\ x.until >= r.until
      /\ \A x \in m.keys : MarkedOnce(calls, x.id) /\ p.now < x.until =>
            \E r \in p.keys : r.id = x.id /\ r.until >= x.until
  BY DEF KeysMatch
<1>7. \A x \in m.keys \cup p.keys : x.until \in Int
  BY <1>5 DEF MarkedKey
<1>8. CASE c.do = "mark"
  <2>1. MarkedKey(calls, k, new) /\ new.id = c.id /\ new.until = p.now + Ttl
    BY <1>3, <1>4, <1>8 DEF MarkedKey
  <2>2. n.keys = Upsert(m.keys, new) /\ q.now = p.now
    <3>1. new = [id |-> c.id, until |-> m.now + Ttl]
      BY <1>3
    <3> HIDE DEF new
    <3>2. MemoryKeys(m, c).keys = Upsert(m.keys, new)
      BY <1>3, <1>8, <3>1, MarkParts, ZenonT(40)
    <3> QED BY <1>1, <1>2, <1>8, <3>2
  <2>3. q.keys = IF Rows(p.keys, c.id) # {} THEN p.keys ELSE p.keys \cup {new}
    BY <1>2, <1>3, <1>8, MarkParts, ZenonT(40)
  <2> HIDE DEF new
  <2>4. n.keys = {x \in m.keys : x.id # c.id} \cup {new}
    BY <2>1, <2>2 DEF Upsert, Rows
  <2>5. q.keys \subseteq p.keys \cup {new}
    BY <2>3
  <2>6. \A x \in n.keys : MarkedKey(calls, k, x)
    BY <1>5, <2>1, <2>4
  <2>7. \A r \in q.keys : MarkedKey(calls, k, r) /\ r.until <= q.now + Ttl
    <3>1. new.until <= p.now + Ttl
      BY <1>3, <2>1
    <3> QED BY <1>5, <2>1, <2>2, <2>5, <3>1
  <2>8. ASSUME NEW r \in q.keys, q.now < r.until PROVE \E x \in n.keys : x.id = r.id /\ x.until >= r.until
    <3>1. CASE r.id = c.id
      <4>1. r.until <= p.now + Ttl /\ r.until \in Int
        BY <2>2, <2>7 DEF MarkedKey
      <4>2. new \in n.keys /\ new.id = r.id /\ new.until >= r.until
        BY <1>3, <2>1, <2>4, <3>1, <4>1
      <4> QED BY <4>2
    <3>2. CASE r.id # c.id
      <4>1. r \in p.keys
        BY <2>1, <2>5, <3>2
      <4> QED BY <1>6, <2>2, <2>4, <2>8, <3>2, <4>1
    <3> QED BY <3>1, <3>2
  <2>9. ASSUME NEW x \in n.keys, MarkedOnce(calls, x.id), q.now < x.until
        PROVE  \E r \in q.keys : r.id = x.id /\ r.until >= x.until
    <3>1. CASE x = new
      <4>1. Rows(p.keys, c.id) = {}
        <5> SUFFICES ASSUME NEW r \in Rows(p.keys, c.id) PROVE FALSE
          OBVIOUS
        <5>1. r.id = c.id /\ r \in p.keys
          BY DEF Rows
        <5>2. PICK j \in 1 .. k - 1 : calls[j].do = "mark" /\ calls[j].id = r.id
          BY <5>1 DEF KeysMatch, MarkedKey
        <5>3. j \in DOMAIN calls /\ k \in DOMAIN calls /\ j # k
          BY <1>3, <1>4
        <5> QED BY <1>8, <2>1, <2>9, <3>1, <5>1, <5>2, <5>3 DEF MarkedOnce
      <4>2. new \in q.keys /\ new.until >= new.until
        BY <1>3, <2>1, <2>3, <4>1
      <4> QED BY <3>1, <4>2
    <3>2. CASE x \in m.keys
      <4>1. PICK r \in p.keys : r.id = x.id /\ r.until >= x.until
        BY <1>6, <2>2, <2>9, <3>2
      <4> QED BY <2>3, <4>1
    <3> QED BY <2>4, <3>1, <3>2
  <2> QED BY <2>6, <2>7, <2>8, <2>9 DEF KeysMatch
<1>9. CASE c.do \in {"check", "sweep"}
  <2>1. q.now = p.now
    BY <1>2, <1>9
  <2>2. n.keys \subseteq m.keys /\ \A x \in m.keys : p.now < x.until => x \in n.keys
    <3>1. \A x \in m.keys : p.now < x.until => LiveKey(m, x.id)
      BY <1>3 DEF LiveKey, Rows
    <3>2. CASE c.do = "check"
      <4>1. n.keys = {x \in m.keys : x.id # c.id \/ LiveKey(m, c.id)}
        BY <1>1, <1>3, <3>2, CheckParts
      <4> QED BY <3>1, <4>1
    <3>3. CASE c.do = "sweep"
      <4>1. n.keys = {x \in m.keys : LiveKey(m, x.id)}
        BY <1>1, <1>3, <3>3, CheckParts
      <4> QED BY <3>1, <4>1
    <3> QED BY <1>9, <3>2, <3>3
  <2>3. q.keys \subseteq p.keys /\ \A r \in p.keys : p.now < r.until => r \in q.keys
    <3>1. \A r \in p.keys : p.now < r.until => LiveKey(p, r.id)
      BY DEF LiveKey, Rows
    <3>2. q.keys = p.keys \/ q.keys = {r \in p.keys : LiveKey(p, r.id)}
      BY <1>2, <1>3, <1>9, CheckParts
    <3> QED BY <3>1, <3>2
  <2>4. ASSUME NEW r \in q.keys, q.now < r.until PROVE \E x \in n.keys : x.id = r.id /\ x.until >= r.until
    <3>1. PICK x \in m.keys : x.id = r.id /\ x.until >= r.until
      BY <1>6, <2>1, <2>3, <2>4
    <3>2. p.now < x.until
      BY <1>3, <1>7, <2>1, <2>3, <2>4, <3>1
    <3> QED BY <2>2, <3>1, <3>2
  <2>5. ASSUME NEW x \in n.keys, MarkedOnce(calls, x.id), q.now < x.until
        PROVE  \E r \in q.keys : r.id = x.id /\ r.until >= x.until
    <3>1. PICK r \in p.keys : r.id = x.id /\ r.until >= x.until
      BY <1>6, <2>1, <2>2, <2>5
    <3>2. p.now < r.until
      BY <1>3, <1>7, <2>1, <2>2, <2>5, <3>1
    <3> QED BY <2>3, <3>1, <3>2
  <2> QED BY <1>5, <2>1, <2>2, <2>3, <2>4, <2>5 DEF KeysMatch
<1>10. CASE c.do \notin {"mark", "check", "sweep"}
  <2>1. n.keys = m.keys /\ q.keys = p.keys
    BY <1>1, <1>2, <1>10
  <2>2. q.now \in Int /\ p.now <= q.now
    BY <1>2, <1>3
  <2>3. \A r \in p.keys : r.until <= q.now + Ttl
    BY <1>3, <1>5, <1>7, <2>2
  <2>4. \A x \in m.keys \cup p.keys : q.now < x.until => p.now < x.until
    BY <1>3, <1>7, <2>2
  <2> QED BY <1>5, <1>6, <2>1, <2>3, <2>4 DEF KeysMatch
<1> QED BY <1>8, <1>9, <1>10

\* Decisions are numbered, and none has a number that is still to be given.
Numbered(rows) ==
    /\ IsFiniteSet(rows)
    /\ \A d \in rows : d.no \in Int /\ d.at \in Int
    /\ \A d, e \in rows : d.no = e.no => d = e

SameDecision(d, e) == e.no = d.no /\ e.at = d.at - Offset /\ e.confidence = d.confidence \ {0}

\* The decisions are the same, but for the clock and a confidence of zero.
DecisionsMatch(m, p) ==
    /\ Numbered(m.decisions) /\ Numbered(p.decisions)
    /\ \A d \in m.decisions : d.no < m.made /\ \E e \in p.decisions : SameDecision(d, e)
    /\ \A e \in p.decisions : e.no < p.made /\ \E d \in m.decisions : SameDecision(d, e)

LEMMA NumberedFrom ==
    ASSUME NEW rows, Numbered(rows), NEW cutoff
    PROVE  Numbered(From(rows, cutoff))
<1>1. IsFiniteSet(From(rows, cutoff))
  BY FS_Subset DEF Numbered, From
<1> QED BY <1>1 DEF Numbered, From

LEMMA NumberedMore ==
    ASSUME NEW rows, Numbered(rows), NEW row, row.no \in Int, row.at \in Int, \A d \in rows : d.no < row.no
    PROVE  Numbered(rows \cup {row})
<1>1. IsFiniteSet(rows \cup {row})
  BY FS_AddElement DEF Numbered
<1>2. \A d \in rows : d.no # row.no
  BY DEF Numbered
<1>3. \A d, e \in rows \cup {row} : d.no = e.no => d = e
  BY <1>2 DEF Numbered
<1>4. \A d \in rows \cup {row} : d.no \in Int /\ d.at \in Int
  BY DEF Numbered
<1> QED BY <1>1, <1>3, <1>4 DEF Numbered

LEMMA DecisionsStep ==
    ASSUME NEW calls, NEW k, NEW m, NEW p, NEW n, NEW q, StoresStep(calls, k, m, p, n, q), DecisionsMatch(m, p)
    PROVE  DecisionsMatch(n, q)
<1> DEFINE c == calls[k]
<1>1. /\ n.decisions = IF c.do = "decision"
                       THEN m.decisions \cup {[no |-> m.made, at |-> m.now, confidence |-> {c.confidence}]}
                       ELSE IF c.do = "cleanup" THEN From(m.decisions, m.now - Keep) ELSE m.decisions
      /\ n.made = IF c.do = "decision" THEN m.made + 1 ELSE m.made
  <2>1. MemoryLeaves(m, c, n)
    BY StoresStepIs
  <2> HIDE DEF c
  <2> QED BY <2>1 DEF MemoryLeaves
<1>2. /\ q.decisions = IF c.do = "decision"
                       THEN p.decisions \cup {[no |-> p.made, at |-> Utc(p), confidence |-> {c.confidence} \ {0}]}
                       ELSE IF c.do = "cleanup" THEN From(p.decisions, Utc(p) - Keep) ELSE p.decisions
      /\ q.made = IF c.do = "decision" THEN p.made + 1 ELSE p.made
  <2>1. PostgresLeaves(p, c, q)
    BY StoresStepIs
  <2> HIDE DEF c
  <2> QED BY <2>1 DEF PostgresLeaves
<1>3. /\ p.now \in Int /\ m.now = p.now /\ p.made \in Int /\ m.made = p.made
      /\ Utc(p) = p.now - Offset /\ Utc(p) \in Int /\ Offset \in Nat /\ Keep \in Nat
  BY StoresStepIs
<1>4. Numbered(m.decisions) /\ Numbered(p.decisions)
  BY DEF DecisionsMatch
<1>5. /\ \A d \in m.decisions : d.no < m.made /\ \E e \in p.decisions : SameDecision(d, e)
      /\ \A e \in p.decisions : e.no < p.made /\ \E d \in m.decisions : SameDecision(d, e)
  BY DEF DecisionsMatch
<1>6. \A d \in m.decisions \cup p.decisions : d.no \in Int /\ d.at \in Int
  BY <1>4 DEF Numbered
<1> HIDE DEF c
<1>7. CASE c.do = "decision"
  <2> DEFINE d == [no |-> m.made, at |-> m.now, confidence |-> {c.confidence}]
             e == [no |-> p.made, at |-> Utc(p), confidence |-> {c.confidence} \ {0}]
  <2>1. n.decisions = m.decisions \cup {d} /\ q.decisions = p.decisions \cup {e}
    BY <1>1, <1>2, <1>7
  <2>2. n.made = p.made + 1 /\ q.made = p.made + 1
    BY <1>1, <1>2, <1>3, <1>7
  <2>3. SameDecision(d, e)
    BY <1>3 DEF SameDecision
  <2>4. d.no = p.made /\ e.no = p.made /\ d.at \in Int /\ e.at \in Int
    BY <1>3
  <2> HIDE DEF d, e
  <2>5. Numbered(n.decisions) /\ Numbered(q.decisions)
    <3>1. (\A x \in m.decisions : x.no < d.no) /\ (\A x \in p.decisions : x.no < e.no) /\ d.no \in Int /\ e.no \in Int
      BY <1>3, <1>5, <2>4
    <3> QED BY <1>4, <2>1, <2>4, <3>1, NumberedMore
  <2>6. (\A x \in n.decisions : x.no < n.made) /\ (\A x \in q.decisions : x.no < q.made)
    <3>1. \A x \in m.decisions \cup p.decisions : x.no < p.made + 1
      BY <1>3, <1>5, <1>6
    <3>2. d.no < p.made + 1 /\ e.no < p.made + 1
      BY <1>3, <2>4
    <3> QED BY <2>1, <2>2, <3>1, <3>2
  <2> QED BY <1>5, <2>1, <2>3, <2>5, <2>6 DEF DecisionsMatch
<1>8. CASE c.do = "cleanup"
  <2> DEFINE cutoff == m.now - Keep
  <2>1. n.decisions = From(m.decisions, cutoff) /\ q.decisions = From(p.decisions, cutoff - Offset)
    <3>1. Utc(p) - Keep = cutoff - Offset
      BY <1>3
    <3> QED BY <1>1, <1>2, <1>8, <3>1
  <2>2. cutoff \in Int /\ n.made = m.made /\ q.made = p.made
    BY <1>1, <1>2, <1>3, <1>8
  <2> HIDE DEF cutoff
  <2>3. Numbered(n.decisions) /\ Numbered(q.decisions)
    BY <1>4, <2>1, NumberedFrom
  <2>4. n.decisions \subseteq m.decisions /\ q.decisions \subseteq p.decisions
    BY <2>1 DEF From
  <2>5. \A d \in m.decisions, e \in p.decisions : SameDecision(d, e) => (d \in n.decisions <=> e \in q.decisions)
    <3> TAKE d \in m.decisions, e \in p.decisions
    <3> HAVE SameDecision(d, e)
    <3>1. e.at = d.at - Offset /\ d.at \in Int
      BY <1>6 DEF SameDecision
    <3>2. d.at >= cutoff <=> e.at >= cutoff - Offset
      BY <1>3, <2>2, <3>1
    <3> QED BY <2>1, <3>2 DEF From
  <2>6. \A d \in n.decisions : \E e \in q.decisions : SameDecision(d, e)
    BY <1>5, <2>4, <2>5
  <2>7. \A e \in q.decisions : \E d \in n.decisions : SameDecision(d, e)
    BY <1>5, <2>4, <2>5
  <2> QED BY <1>5, <2>2, <2>3, <2>4, <2>6, <2>7 DEF DecisionsMatch
<1>9. CASE c.do # "decision" /\ c.do # "cleanup"
  <2>1. n.decisions = m.decisions /\ q.decisions = p.decisions /\ n.made = m.made /\ q.made = p.made
    BY <1>1, <1>2, <1>9
  <2> QED BY <1>4, <1>5, <2>1 DEF DecisionsMatch
<1> QED BY <1>7, <1>8, <1>9

\* No more rows than another set of rows has, when each has its number there.
LEMMA FewerNumbers ==
    ASSUME NEW S, Numbered(S), NEW T, Numbered(T), \A x \in S : \E y \in T : y.no = x.no
    PROVE  Cardinality(S) <= Cardinality(T)
<1> DEFINE f == [x \in S |-> CHOOSE y \in T : y.no = x.no]
<1>1. \A x \in S : f[x] \in T /\ f[x].no = x.no
  OBVIOUS
<1>2. f \in [S -> T]
  BY <1>1
<1> HIDE DEF f
<1>3. \A x, y \in S : f[x] = f[y] => x = y
  BY <1>1 DEF Numbered
<1>4. f \in Injection(S, T)
  BY <1>2, <1>3 DEF Injection, IsInjective
<1>5. IsFiniteSet(T)
  BY DEF Numbered
<1> QED BY <1>4, <1>5, FS_Injection

Newer(rows, no) == {e \in rows : e.no > no}

LEMMA NumberedNewer ==
    ASSUME NEW rows, Numbered(rows), NEW no
    PROVE  Numbered(Newer(rows, no))
<1>1. IsFiniteSet(Newer(rows, no))
  BY FS_Subset DEF Numbered, Newer
<1> QED BY <1>1 DEF Numbered, Newer

LEMMA SameNewer ==
    ASSUME NEW m, NEW p, DecisionsMatch(m, p), NEW no
    PROVE  Cardinality(Newer(m.decisions, no)) = Cardinality(Newer(p.decisions, no))
<1> DEFINE S == Newer(m.decisions, no)
           T == Newer(p.decisions, no)
<1>1. Numbered(S) /\ Numbered(T)
  BY NumberedNewer DEF DecisionsMatch
<1>2. \A x \in S : \E y \in T : y.no = x.no
  BY DEF DecisionsMatch, SameDecision, Newer
<1>3. \A y \in T : \E x \in S : x.no = y.no
  BY DEF DecisionsMatch, SameDecision, Newer
<1>4. Cardinality(S) \in Nat /\ Cardinality(T) \in Nat
  BY <1>1, FS_CardinalityType DEF Numbered
<1> HIDE DEF S, T
<1>5. Cardinality(S) <= Cardinality(T) /\ Cardinality(T) <= Cardinality(S)
  BY <1>1, <1>2, <1>3, FewerNumbers
<1>6. Cardinality(S) = Cardinality(T)
  BY <1>4, <1>5
<1> QED BY <1>6 DEF S, T

LEMMA SameLatest ==
    ASSUME NEW m, NEW p, DecisionsMatch(m, p), NEW limit
    PROVE  {[no |-> d.no, confidence |-> d.confidence \ {0}] : d \in Latest(m, limit)} =
             {[no |-> e.no, confidence |-> e.confidence] : e \in Latest(p, limit)}
<1>1. /\ \A d : d \in Latest(m, limit) <=> d \in m.decisions /\ Cardinality(Newer(m.decisions, d.no)) < limit
      /\ \A e : e \in Latest(p, limit) <=> e \in p.decisions /\ Cardinality(Newer(p.decisions, e.no)) < limit
  BY DEF Latest, Newer
<1>2. \A no : Cardinality(Newer(m.decisions, no)) = Cardinality(Newer(p.decisions, no))
  BY SameNewer
<1>3. \A d \in Latest(m, limit) : \E e \in Latest(p, limit) : SameDecision(d, e)
  BY <1>1, <1>2 DEF DecisionsMatch, SameDecision
<1>4. \A e \in Latest(p, limit) : \E d \in Latest(m, limit) : SameDecision(d, e)
  BY <1>1, <1>2 DEF DecisionsMatch, SameDecision
<1>5. \A d, e : SameDecision(d, e) =>
        [no |-> d.no, confidence |-> d.confidence \ {0}] = [no |-> e.no, confidence |-> e.confidence]
  BY DEF SameDecision
<1> DEFINE Told(d) == [no |-> d.no, confidence |-> d.confidence \ {0}]
           Stored(e) == [no |-> e.no, confidence |-> e.confidence]
<1>6. \A d, e : SameDecision(d, e) => Told(d) = Stored(e)
  BY <1>5
<1> HIDE DEF Told, Stored
<1>7. {Told(d) : d \in Latest(m, limit)} = {Stored(e) : e \in Latest(p, limit)}
  BY <1>3, <1>4, <1>6
<1> QED BY <1>7 DEF Told, Stored

\* Both stores, after each call.
StoreRun(g, calls, k) ==
    g = [i \in 0 .. k |->
            IF i = 0 THEN [memory |-> EmptyStore, postgres |-> EmptyStore]
            ELSE [memory |-> OnMemory(g[i - 1].memory, calls[i]),
                  postgres |-> OnPostgres(g[i - 1].postgres, calls[i])]]

LEMMA StoreRunExists ==
    ASSUME NEW n \in Nat, NEW calls
    PROVE  \E g : StoreRun(g, calls, n)
<1> DEFINE G == {k \in 0 .. n : \E g : StoreRun(g, calls, k)}
           Begun == [memory |-> EmptyStore, postgres |-> EmptyStore]
           Then(l, c) == [memory |-> OnMemory(l.memory, c), postgres |-> OnPostgres(l.postgres, c)]
<1>1. \A g, k : StoreRun(g, calls, k) <=>
                  g = [i \in 0 .. k |-> IF i = 0 THEN Begun ELSE Then(g[i - 1], calls[i])]
  BY DEF StoreRun
<1> HIDE DEF Begun, Then
<1>2. 0 \in G
  <2> DEFINE g == [i \in 0 .. 0 |-> Begun]
  <2>1. g = [i \in 0 .. 0 |-> IF i = 0 THEN Begun ELSE Then(g[i - 1], calls[i])]
    OBVIOUS
  <2>2. StoreRun(g, calls, 0)
    BY <1>1, <2>1
  <2> QED BY <2>2
<1>3. ASSUME NEW k \in 1 .. n, k - 1 \in G PROVE k \in G
  <2>1. PICK g : StoreRun(g, calls, k - 1)
    BY <1>3
  <2>2. g = [i \in 0 .. k - 1 |-> IF i = 0 THEN Begun ELSE Then(g[i - 1], calls[i])]
    BY <1>1, <2>1
  <2> DEFINE h == [i \in 0 .. k |-> IF i < k THEN g[i] ELSE Then(g[k - 1], calls[k])]
  <2>3. \A i \in 0 .. k : h[i] = IF i = 0 THEN Begun ELSE Then(h[i - 1], calls[i])
    <3> TAKE i \in 0 .. k
    <3>1. CASE i < k
      <4>1. i \in 0 .. k - 1 /\ h[i] = g[i] /\ (i # 0 => i - 1 \in 0 .. k /\ i - 1 < k)
        BY <3>1
      <4>2. g[i] = IF i = 0 THEN Begun ELSE Then(g[i - 1], calls[i])
        BY <2>2, <4>1
      <4> QED BY <4>1, <4>2
    <3>2. CASE i = k
      BY <3>2
    <3> QED BY <3>1, <3>2
  <2>4. h = [i \in 0 .. k |-> h[i]]
    OBVIOUS
  <2> HIDE DEF h
  <2>5. h = [i \in 0 .. k |-> IF i = 0 THEN Begun ELSE Then(h[i - 1], calls[i])]
    BY <2>3, <2>4
  <2>6. StoreRun(h, calls, k)
    BY <1>1, <2>5
  <2> QED BY <2>6
<1> HIDE DEF G
<1>4. n \in G
  <2>1. \A k \in 0 .. n : k \in G
    BY <1>2, <1>3, Climb
  <2> QED BY <2>1
<1> QED BY <1>4 DEF G

\* What holds of the two after the first k calls.
StoresMatch(m, p, calls, k) ==
    /\ Together(m, p)
    /\ TradesMatch(m, p, calls, k)
    /\ SnapshotsMatch(m, p)
    /\ DecisionsMatch(m, p)
    /\ OrdersMatch(m, p, calls, k)
    /\ KeysMatch(m, p, calls, k)

LEMMA StoresBegin ==
    ASSUME NEW calls
    PROVE  StoresMatch(EmptyStore, EmptyStore, calls, 0)
<1> DEFINE s == EmptyStore
<1>1. /\ s.now = 0 /\ s.trades = {} /\ s.orders = {} /\ s.decisions = {} /\ s.made = 0 /\ s.snapshots = {}
      /\ s.keys = {}
  BY DEF EmptyStore
<1>2. StoreShape(s)
  BY DEF EmptyStore, StoreShape
<1> HIDE DEF s
<1>3. Together(s, s)
  BY <1>1, <1>2 DEF Together
<1>4. Numbered(s.decisions)
  BY <1>1, FS_EmptySet DEF Numbered
<1> QED BY <1>1, <1>3, <1>4 DEF StoresMatch, TradesMatch, SnapshotsMatch, DecisionsMatch, OrdersMatch, KeysMatch, s

LEMMA StoresMatchAfter ==
    ASSUME NEW calls, StoreCalls(calls), NEW after, StoreRun(after, calls, Len(calls))
    PROVE  StoresMatch(after[Len(calls)].memory, after[Len(calls)].postgres, calls, Len(calls))
<1> DEFINE n == Len(calls)
           G == {k \in 0 .. n : StoresMatch(after[k].memory, after[k].postgres, calls, k)}
<1>1. n \in Nat
  BY DEF StoreCalls
<1>2. after[0] = [memory |-> EmptyStore, postgres |-> EmptyStore]
  BY <1>1 DEF StoreRun
<1>3. \A i \in 1 .. n : after[i] = [memory |-> OnMemory(after[i - 1].memory, calls[i]),
                                     postgres |-> OnPostgres(after[i - 1].postgres, calls[i])]
  BY <1>1 DEF StoreRun
<1>4. 0 \in G
  <2>1. after[0].memory = EmptyStore /\ after[0].postgres = EmptyStore
    BY <1>2
  <2> QED BY <1>1, <2>1, StoresBegin
<1>5. ASSUME NEW k \in 1 .. n, k - 1 \in G PROVE k \in G
  <2> DEFINE m == after[k - 1].memory
             p == after[k - 1].postgres
             o == after[k].memory
             q == after[k].postgres
  <2>1. StoresMatch(m, p, calls, k - 1) /\ k \in 0 .. n
    BY <1>1, <1>5
  <2>2. o = OnMemory(m, calls[k]) /\ q = OnPostgres(p, calls[k])
    <3>1. after[k] = [memory |-> OnMemory(m, calls[k]), postgres |-> OnPostgres(p, calls[k])]
      BY <1>3
    <3> QED BY <3>1
  <2> HIDE DEF m, p, o, q
  <2>3. StoresStep(calls, k, m, p, o, q)
    BY <2>1, <2>2 DEF StoresStep, StoresMatch
  <2>4. /\ TradesMatch(m, p, calls, k - 1) /\ SnapshotsMatch(m, p) /\ DecisionsMatch(m, p)
        /\ OrdersMatch(m, p, calls, k - 1) /\ KeysMatch(m, p, calls, k - 1)
    BY <2>1 DEF StoresMatch
  <2>5. Together(o, q)
    BY <2>3, TogetherStep
  <2>6. TradesMatch(o, q, calls, k)
    BY <2>3, <2>4, TradesStep
  <2>7. SnapshotsMatch(o, q)
    BY <2>3, <2>4, SnapshotsStep
  <2>8. DecisionsMatch(o, q)
    BY <2>3, <2>4, DecisionsStep
  <2>9. OrdersMatch(o, q, calls, k)
    BY <2>3, <2>4, OrdersStep
  <2>10. KeysMatch(o, q, calls, k)
    BY <2>3, <2>4, KeysStep
  <2>11. StoresMatch(o, q, calls, k)
    BY <2>5, <2>6, <2>7, <2>8, <2>9, <2>10 DEF StoresMatch
  <2> QED BY <2>1, <2>11 DEF o, q
<1> HIDE DEF G, n
<1>6. \A k \in 0 .. n : k \in G
  BY <1>1, <1>4, <1>5, Climb
<1>7. n \in G
  BY <1>1, <1>6
<1> QED BY <1>7 DEF G, n

\* How often something is called.
LEMMA CalledMore ==
    ASSUME NEW n \in Nat, NEW S \in SUBSET (1 .. n)
    PROVE  /\ Cardinality(S) = 1 => \A i, j \in S : i = j
           /\ S # {} /\ ~ (\A i, j \in S : i = j) => Cardinality(S) > 1
<1>1. IsFiniteSet(S)
  <2>1. IsFiniteSet(1 .. n)
    BY IntervalFinite
  <2> QED BY <2>1, FS_Subset
<1>2. Cardinality(S) = 1 <=> \E x : S = {x}
  BY <1>1, FS_Singleton
<1>3. S # {} => Cardinality(S) # 0
  BY <1>1, FS_EmptySet
<1>4. Cardinality(S) \in Nat
  BY <1>1, FS_CardinalityType
<1>5. ASSUME S # {}, ~ (\A i, j \in S : i = j) PROVE Cardinality(S) > 1
  <2>1. Cardinality(S) # 1
    BY <1>2, <1>5
  <2> QED BY <1>3, <1>4, <1>5, <2>1
<1> QED BY <1>2, <1>5

\* What matching stores tell.
LEMMA MatchedTrades ==
    ASSUME NEW m, NEW p, NEW calls, NEW k, StoresMatch(m, p, calls, k)
    PROVE  m.trades \subseteq p.trades /\ MemoryTrades(m) \subseteq PostgresTrades(p)
<1>1. m.trades \subseteq p.trades /\ \A r \in p.trades : r.at \in Int
  BY DEF StoresMatch, TradesMatch, SavedTrade
<1>2. m.now = p.now /\ p.now \in Int /\ Offset \in Nat /\ Window \in Nat
  BY PortsAssumption DEF StoresMatch, Together
<1>3. \A r \in p.trades : r.at >= m.now - Window => r.at >= Utc(p) - Window
  BY <1>1, <1>2 DEF Utc
<1> QED BY <1>1, <1>3 DEF MemoryTrades, PostgresTrades, From

LEMMA MatchedHistory ==
    ASSUME NEW m, NEW p, NEW calls, NEW k, StoresMatch(m, p, calls, k)
    PROVE  {row.id : row \in MemoryHistory(m)} = {row.id : row \in PostgresHistory(p)}
<1>1. SnapshotsMatch(m, p) /\ m.now = p.now /\ p.now \in Int /\ Offset \in Nat /\ Window \in Nat
  BY PortsAssumption DEF StoresMatch, Together
<1>2. \A r \in m.snapshots, s \in p.snapshots :
        s.at = r.at - Offset => (r.at >= m.now - Window <=> s.at >= Utc(p) - Window)
  <2> TAKE r \in m.snapshots, s \in p.snapshots
  <2>1. r.at \in Int /\ s.at \in Int
    BY <1>1 DEF SnapshotsMatch
  <2> QED BY <1>1, <2>1 DEF Utc
<1>3. \A r \in MemoryHistory(m) : \E s \in PostgresHistory(p) : s.id = r.id
  BY <1>1, <1>2 DEF MemoryHistory, PostgresHistory, From, SnapshotsMatch
<1>4. \A s \in PostgresHistory(p) : \E r \in MemoryHistory(m) : s.id = r.id
  BY <1>1, <1>2 DEF MemoryHistory, PostgresHistory, From, SnapshotsMatch
<1> HIDE DEF MemoryHistory, PostgresHistory
<1> QED BY <1>3, <1>4

LEMMA MatchedOrder ==
    ASSUME NEW m, NEW p, NEW calls, NEW k, StoresMatch(m, p, calls, k), NEW o \in m.orders, PlainOrder(calls, o.id)
    PROVE  \E q \in Rows(p.orders, o.id) : /\ StatusOf(q) = o.status
                                           /\ q \in PostgresOpen(p) <=> o \in MemoryOpen(m)
<1>1. PICK q \in p.orders : q.id = o.id /\ q.status = o.status /\ o.status \in OrderStatuses
  BY DEF StoresMatch, OrdersMatch
<1>2. q \in Rows(p.orders, o.id)
  BY <1>1 DEF Rows
<1>3. StatusOf(q) = o.status
  BY <1>1 DEF StatusOf
<1>4. q.status # "open"
  BY <1>1 DEF OrderStatuses
<1>5. q \in PostgresOpen(p) <=> o \in MemoryOpen(m)
  BY <1>1, <1>4 DEF PostgresOpen, MemoryOpen
<1> QED BY <1>2, <1>3, <1>5

LEMMA MatchedKey ==
    ASSUME NEW m, NEW p, NEW calls, NEW k, StoresMatch(m, p, calls, k), NEW id
    PROVE  /\ LiveKey(p, id) => LiveKey(m, id)
           /\ LiveKey(m, id) /\ MarkedOnce(calls, id) => LiveKey(p, id)
<1>1. KeysMatch(m, p, calls, k) /\ m.now = p.now /\ p.now \in Int
  BY DEF StoresMatch, Together
<1>2. \A x \in m.keys \cup p.keys : x.until \in Int
  BY <1>1 DEF KeysMatch, MarkedKey
<1>3. ASSUME LiveKey(p, id) PROVE LiveKey(m, id)
  <2>1. PICK r \in p.keys : r.id = id /\ p.now < r.until
    BY <1>3 DEF LiveKey, Rows
  <2>2. PICK x \in m.keys : x.id = r.id /\ x.until >= r.until
    BY <1>1, <2>1 DEF KeysMatch
  <2>3. m.now < x.until
    BY <1>1, <1>2, <2>1, <2>2
  <2> QED BY <2>1, <2>2, <2>3 DEF LiveKey, Rows
<1>4. ASSUME LiveKey(m, id), MarkedOnce(calls, id) PROVE LiveKey(p, id)
  <2>1. PICK x \in m.keys : x.id = id /\ m.now < x.until
    BY <1>4 DEF LiveKey, Rows
  <2>2. PICK r \in p.keys : r.id = x.id /\ r.until >= x.until
    BY <1>1, <1>4, <2>1 DEF KeysMatch
  <2>3. p.now < r.until
    BY <1>1, <1>2, <2>1, <2>2
  <2> QED BY <2>1, <2>2, <2>3 DEF LiveKey, Rows
<1> QED BY <1>3, <1>4

\* After any calls a program on PostgreSQL sees what the tests see in memory: every trade, the
\* same history and decisions, the plain orders as they are, and the same keys unless one was
\* marked again.  (The adapters of the persistence port; in_memory_persistence.py,
\* postgres_persistence_adapter.py and the two of idempotency.)
THEOREM StoresAgreeAlways ==
    ASSUME NEW calls, StoreCalls(calls)
    PROVE  StoresAgree(calls)
<1> DEFINE n == Len(calls)
           after == StoresAlong(calls)
           m == after[n].memory
           p == after[n].postgres
           count(do, id) == Cardinality({i \in DOMAIN calls : calls[i].do = do /\ calls[i].id = id})
           plain(o) == /\ o.sized /\ count("order", o.id) = 1
                       /\ \A i \in DOMAIN calls :
                             calls[i].do = "update" /\ calls[i].id = o.id => calls[i].status \in OrderStatuses
<1>1. n \in Nat /\ DOMAIN calls = 1 .. n
  BY DEF StoreCalls
<1>2. StoreRun(after, calls, n)
  <2>1. \E g : StoreRun(g, calls, n)
    BY <1>1, StoreRunExists
  <2>2. after = CHOOSE g : StoreRun(g, calls, n)
    BY DEF StoresAlong, StoreRun
  <2> HIDE DEF after
  <2> QED BY <2>1, <2>2
<1>3. StoresMatch(m, p, calls, n)
  <2> HIDE DEF after
  <2> QED BY <1>2, StoresMatchAfter
<1> HIDE DEF m, p
<1>4. m.trades \subseteq p.trades /\ MemoryTrades(m) \subseteq PostgresTrades(p)
  BY <1>3, MatchedTrades
<1>5. {row.id : row \in MemoryHistory(m)} = {row.id : row \in PostgresHistory(p)}
  BY <1>3, MatchedHistory
<1>6. {[no |-> d.no, confidence |-> d.confidence \ {0}] : d \in Latest(m, 2)} =
        {[no |-> d.no, confidence |-> d.confidence] : d \in Latest(p, 2)}
  <2>1. DecisionsMatch(m, p)
    BY <1>3 DEF StoresMatch
  <2> QED BY <2>1, SameLatest
<1>7. \A do, id : LET S == {i \in DOMAIN calls : calls[i].do = do /\ calls[i].id = id}
                  IN /\ count(do, id) = 1 => \A i, j \in S : i = j
                     /\ S # {} /\ ~ (\A i, j \in S : i = j) => count(do, id) > 1
  <2> TAKE do, id
  <2> DEFINE S == {i \in DOMAIN calls : calls[i].do = do /\ calls[i].id = id}
  <2>1. S \in SUBSET (1 .. n)
    BY <1>1
  <2> HIDE DEF S
  <2>2. /\ Cardinality(S) = 1 => \A i, j \in S : i = j
        /\ S # {} /\ ~ (\A i, j \in S : i = j) => Cardinality(S) > 1
    BY <1>1, <2>1, CalledMore
  <2> QED BY <2>2 DEF S
<1> HIDE DEF count
<1> HIDE DEF plain
<1>8. ASSUME NEW o \in m.orders, plain(o)
      PROVE  \E q \in Rows(p.orders, o.id) : /\ StatusOf(q) = o.status
                                             /\ q \in PostgresOpen(p) <=> o \in MemoryOpen(m)
  <2>0. /\ o.sized /\ count("order", o.id) = 1
        /\ \A i \in DOMAIN calls : calls[i].do = "update" /\ calls[i].id = o.id => calls[i].status \in OrderStatuses
    BY <1>8 DEF plain
  <2>1. \A i, j \in DOMAIN calls :
          calls[i].do = "order" /\ calls[j].do = "order" /\ calls[i].id = o.id /\ calls[j].id = o.id => i = j
    BY <1>7, <2>0
  <2>2. SavedSize(calls, n, o)
    BY <1>3 DEF StoresMatch, OrdersMatch
  <2>3. \A i \in DOMAIN calls : calls[i].do = "order" /\ calls[i].id = o.id => calls[i].sized
    BY <1>1, <2>0, <2>1, <2>2 DEF SavedSize
  <2>4. PlainOrder(calls, o.id)
    BY <2>0, <2>1, <2>3 DEF PlainOrder
  <2> QED BY <1>3, <2>4, MatchedOrder
<1>9. ASSUME NEW id
      PROVE  /\ LiveKey(p, id) => LiveKey(m, id)
             /\ LiveKey(m, id) /\ ~LiveKey(p, id) => count("mark", id) > 1
  <2>1. LiveKey(p, id) => LiveKey(m, id)
    BY <1>3, MatchedKey
  <2>2. ASSUME LiveKey(m, id), ~LiveKey(p, id) PROVE count("mark", id) > 1
    <3>1. ~ MarkedOnce(calls, id)
      BY <1>3, <2>2, MatchedKey
    <3>2. PICK i \in DOMAIN calls, j \in DOMAIN calls :
            /\ calls[i].do = "mark" /\ calls[j].do = "mark" /\ calls[i].id = id /\ calls[j].id = id
            /\ i # j
      BY <3>1 DEF MarkedOnce
    <3> QED BY <1>7, <3>2
  <2> QED BY <2>1, <2>2
<1> HIDE DEF after, n
<1>10. StoresAgree(calls) <=>
         /\ m.trades \subseteq p.trades
         /\ MemoryTrades(m) \subseteq PostgresTrades(p)
         /\ {row.id : row \in MemoryHistory(m)} = {row.id : row \in PostgresHistory(p)}
         /\ {[no |-> d.no, confidence |-> d.confidence \ {0}] : d \in Latest(m, 2)} =
               {[no |-> d.no, confidence |-> d.confidence] : d \in Latest(p, 2)}
         /\ \A o \in m.orders : plain(o) =>
               \E q \in Rows(p.orders, o.id) : /\ StatusOf(q) = o.status
                                               /\ q \in PostgresOpen(p) <=> o \in MemoryOpen(m)
         /\ \A id \in {row.id : row \in m.keys \cup p.keys} :
               /\ LiveKey(p, id) => LiveKey(m, id)
               /\ LiveKey(m, id) /\ ~LiveKey(p, id) => count("mark", id) > 1
  BY DEF StoresAgree, m, p, after, n, count, plain
<1> QED BY <1>4, <1>5, <1>6, <1>8, <1>9, <1>10

-----------------------------------------------------------------------------
(* The rules together.                                                     *)

\* The market that is judged is one of the given ones, and stays.
MarketKept == market = NoMarket \/ market \in Markets

LEMMA MarketStays == Spec => []MarketKept
<1>1. Init => MarketKept
  BY DEF Init, MarketKept
<1>2. MarketKept /\ [Next]_vars => MarketKept'
  <2> SUFFICES ASSUME [Next]_vars
               PROVE  UNCHANGED market
    BY DEF MarketKept
  <2>1. CASE SchedulerStep
    <3>1. Scheduler
      BY <2>1, Zenon DEF SchedulerStep, StartJob, AcquireLock, LockRefused, RunCycle, CycleLost, Report,
                         ReportUnstored, Count, ReleaseLock, CutJob, Terminate
    <3> QED BY <3>1 DEF Scheduler
  <2>2. CASE Message \/ BotStep
    <3>1. Bot
      BY <2>2, ZenonT(40) DEF Message, BotStep, TakeUpdate, Greet, CmdRun, Answer, CmdRaises, Apologise, Finally
    <3> QED BY <3>1 DEF Bot
  <2>3. CASE RunnerStep
    BY <2>3 DEF RunnerStep, GetPosition, AnalyzeMarket, PlaceOrder, OrderRejected, OwnerTrades, Runner
  <2>4. CASE CallStep
    BY <2>4 DEF CallStep, RenderPrompt, AskAi, RecordDecision, RecordFails, Call
  <2>5. CASE ApiStep
    BY <2>5 DEF ApiStep, ControlBot, UpdateConfig, CheckTrade, InsertTrade, Api
  <2>6. CASE UNCHANGED vars
    BY <2>6 DEF vars
  <2> QED BY <2>1, <2>2, <2>3, <2>4, <2>5, <2>6 DEF Next
<1> QED BY <1>1, <1>2, PTL DEF Spec

LEMMA JudgedAgrees ==
    ASSUME MarketKept
    PROVE  FilterAgrees /\ BooksAgree /\ BarsAgree /\ AdaptersAgree /\ ExitsHold
<1> DEFINE m == market
<1>1. m = NoMarket \/ Judged(m)
  BY MarketsAssumption DEF MarketKept
<1> HIDE DEF m
<1>2. CASE m = NoMarket
  BY <1>2 DEF NoMarket, FilterAgrees, BooksAgree, BarsAgree, AdaptersAgree, ExitsHold, m
<1>3. CASE Judged(m)
  <2> USE DEF m
  <2>1. m.kind = "readings" => SummaryConsistent(m.of)
    BY <1>3, SummaryConsistentAlways DEF Judged
  <2>2. m.kind = "batch" => BatchOrdered(m.of, 2)
    BY <1>3, BatchOrderedAlways DEF Judged
  <2>3. m.kind = "book" => SlippageGrows(m.of, 1 .. 40) /\ PlansAgree(m.of, 1 .. 8)
    <3>1. (1 .. 40) \in SUBSET Nat /\ (1 .. 8) \in SUBSET (Nat \ {0})
      OBVIOUS
    <3>2. m.kind = "book" => m.of \in Books
      BY <1>3 DEF Judged
    <3> QED BY <3>1, <3>2, SlippageGrowsAlways, PlansAgreeAlways
  <2>4. m.kind = "bars" => IndicatorsAgree(m.of) /\ VotesAgree(m.of)
    BY <1>3, IndicatorsAgreeAlways, VotesAgreeAlways DEF Judged
  <2>5. m.kind = "calls" => StoresAgree(m.of)
    BY <1>3, StoresAgreeAlways DEF Judged
  <2>6. m.kind = "days" => LedgersAgree(m.of)
    BY <1>3, LedgersAgreeAlways DEF Judged
  <2>7. m.kind = "exchange" => ExchangesAgree(m.of.account, m.of.answer, m.of.state)
    BY <1>3, ExchangesAgreeAlways DEF Judged
  <2>8. m.kind = "prices" => TrailingHolds(m.of.limits, m.of.avg, m.of.atr, m.of.prices)
    BY <1>3, TrailingHoldsAlways DEF Judged
  <2>9. m.kind = "exit" => ExitsAgree(m.of.bar, m.of.stop, m.of.target)
    BY <1>3, ExitsAgreeAlways DEF Judged
  <2> QED BY <2>1, <2>2, <2>3, <2>4, <2>5, <2>6, <2>7, <2>8, <2>9
          DEF FilterAgrees, BooksAgree, BarsAgree, AdaptersAgree, ExitsHold
<1> QED BY <1>1, <1>2, <1>3

\* On whatever readings and batch they are given, summary and filter agree and the best remain.
\* (MarketSummary, BreakoutFilter.)
THEOREM FilterAgreesHolds == Spec => []FilterAgrees
<1>1. MarketKept => FilterAgrees
  BY JudgedAgrees
<1> QED BY <1>1, MarketStays, PTL

\* On whatever book, a larger order slips no less and a split one costs no more.
\* (LiquidityAnalyzer, RuleBasedBreakoutStrategy.)
THEOREM BooksAgreeHolds == Spec => []BooksAgree
<1>1. MarketKept => BooksAgree
  BY JudgedAgrees
<1> QED BY <1>1, MarketStays, PTL

\* On whatever bars, of any number, the indicators fit each other and do not vote against each
\* other.  (TechnicalIndicators, SignalAnalyzer.)
THEOREM BarsAgreeHolds == Spec => []BarsAgree
<1>1. MarketKept => BarsAgree
  BY JudgedAgrees
<1> QED BY <1>1, MarketStays, PTL

\* After whatever calls, and for whatever account and answer, the adapters of a port agree but for
\* the named differences.  (The persistence, idempotency, ledger and exchange adapters.)
THEOREM AdaptersAgreeHolds == Spec => []AdaptersAgree
<1>1. MarketKept => AdaptersAgree
  BY JudgedAgrees
<1> QED BY <1>1, MarketStays, PTL

\* Along whatever prices, and within whatever bar, stops and targets hold.
\* (RiskManager, the execution adapters.)
THEOREM ExitsHoldHolds == Spec => []ExitsHold
<1>1. MarketKept => ExitsHold
  BY JudgedAgrees
<1> QED BY <1>1, MarketStays, PTL
=============================================================================
