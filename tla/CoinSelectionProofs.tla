------------------------ MODULE CoinSelectionProofs ------------------------
(***************************************************************************)
(* Proofs about DataSync and CoinSelection: that no path of a download     *)
(* leaves a hole in a history file, and that what a scan chooses was       *)
(* drawn, gated and backtested in this scan, for any coins, sectors,       *)
(* scores, prices and exchange answers.  The first part is about days and  *)
(* pages, the second about draws and ranks, the third about the actions.   *)
(***************************************************************************)
EXTENDS CoinSelection, FiniteSetTheorems, WellFoundedInduction, TLAPS

\* A file is empty or an interval of days.
Unbroken(S) == S = {} \/ \E a, b \in Int : a <= b /\ S = a .. b

\* The days that begin at a time or later.
From(S, time) == {d \in S : d * DayLength >= time}

LEMMA DayOf ==
    ASSUME NEW t \in Int
    PROVE  /\ t \div DayLength \in Int
           /\ (t \div DayLength) * DayLength <= t
           /\ t < (t \div DayLength + 1) * DayLength
BY SyncAssumption

LEMMA DayOrder ==
    ASSUME NEW d \in Int, NEW e \in Int
    PROVE  /\ d * DayLength \in Int
           /\ (d + 1) * DayLength = d * DayLength + DayLength
           /\ d < e <=> d * DayLength < e * DayLength
           /\ d < e => d * DayLength + DayLength <= e * DayLength
           /\ d <= e <=> d * DayLength <= e * DayLength
BY SyncAssumption

\* What is left of an interval of days after a time begins with its first day or with
\* the first day after that time.
LEMMA CutInterval ==
    ASSUME NEW a \in Int, NEW b \in Int, NEW t \in Int, From(a .. b, t) # {}
    PROVE  \E m \in a .. b : /\ From(a .. b, t) = m .. b
                             /\ m = a \/ m * DayLength < t + DayLength
<1>1. PICK q \in Int : /\ q * DayLength < t /\ t <= (q + 1) * DayLength
                        /\ (q + 1) * DayLength < t + DayLength
  <2>1. PICK q \in Int : q * DayLength <= t - 1 /\ t - 1 < (q + 1) * DayLength
    BY DayOf, t - 1 \in Int
  <2>2. q * DayLength \in Int /\ (q + 1) * DayLength = q * DayLength + DayLength
    BY <2>1, DayOrder
  <2>3. DayLength \in Int /\ t \in Int
    BY SyncAssumption
  <2>4. q * DayLength < t /\ t <= (q + 1) * DayLength /\ (q + 1) * DayLength < t + DayLength
    BY <2>1, <2>2, <2>3
  <2> QED BY <2>4
<1> DEFINE m == IF q + 1 < a THEN a ELSE q + 1
<1>2. \A d \in Int : d * DayLength >= t <=> d >= q + 1
  <2> TAKE d \in Int
  <2>1. CASE d >= q + 1
    <3>1. (q + 1) * DayLength <= d * DayLength /\ d * DayLength \in Int
          /\ (q + 1) * DayLength \in Int
      BY <2>1, DayOrder, q + 1 \in Int
    <3> QED BY <1>1, <2>1, <3>1
  <2>2. CASE d <= q
    <3>1. d * DayLength <= q * DayLength /\ d * DayLength \in Int /\ q * DayLength \in Int
      BY <1>1, <2>2, DayOrder
    <3> QED BY <1>1, <2>2, <3>1
  <2> QED BY <1>1, <2>1, <2>2
<1>3. From(a .. b, t) = m .. b
  BY <1>1, <1>2 DEF From
<1>4. m \in a .. b
  BY <1>1, <1>3
<1>5. m = a \/ m * DayLength < t + DayLength
  BY <1>1
<1> QED BY <1>3, <1>4, <1>5

LEMMA DaysAre == Days = 0 .. (MaxTime \div DayLength) /\ MaxTime \div DayLength \in Int
BY DayOf, SyncAssumption DEF Days

\* A set of days has a first and a last one.
LEMMA FirstDay ==
    ASSUME NEW S \in SUBSET Nat, S # {}
    PROVE  /\ Min(S) \in S
           /\ \A d \in S : Min(S) <= d
<1> DEFINE LessThan == {p \in Nat \X Nat : p[1] < p[2]}
<1>1. IsWellFoundedOn(LessThan, Nat)
  BY NatLessThanWellFounded DEF OpToRel
<1>2. \A u, v \in Nat : <<u, v>> \in LessThan <=> u < v
  OBVIOUS
<1> HIDE DEF LessThan
<1>3. PICK m \in S : \A d \in S : <<d, m>> \notin LessThan
  BY <1>1, WFMin
<1>4. \A d \in S : m <= d
  <2> TAKE d \in S
  <2>1. d \in Nat /\ m \in Nat /\ <<d, m>> \notin LessThan
    BY <1>3
  <2>2. ~(d < m)
    BY <1>2, <2>1
  <2> QED BY <2>1, <2>2
<1>5. \E x \in S : \A y \in S : x <= y
  BY <1>4
<1> QED BY <1>5 DEF Min

LEMMA LastDay ==
    ASSUME NEW S \in SUBSET Days, S # {}
    PROVE  /\ Max(S) \in S
           /\ \A d \in S : d <= Max(S)
<1>1. PICK last \in Int : Days = 0 .. last
  BY DaysAre
<1>2. \A d \in S : d \in Int /\ last - d \in Nat
  BY <1>1
<1> DEFINE T == {n \in Nat : \E d \in S : n = last - d}
<1>3. T \in SUBSET Nat /\ T # {}
  BY <1>2
<1>4. Min(T) \in T /\ \A n \in T : Min(T) <= n
  BY <1>3, FirstDay
<1>5. PICK m \in S : Min(T) = last - m
  BY <1>4
<1>6. \A d \in S : m >= d
  <2> TAKE d \in S
  <2>1. last - d \in T
    BY <1>2
  <2>2. last - m <= last - d
    BY <1>4, <1>5, <2>1
  <2> QED BY <1>2, <2>2
<1> HIDE DEF T
<1>7. Max(S) \in S /\ \A d \in S : Max(S) >= d
  BY <1>6 DEF Max
<1> QED BY <1>2, <1>7

LEMMA IntervalEnds ==
    ASSUME NEW a \in Int, NEW b \in Int, a <= b
    PROVE  Min(a .. b) = a /\ Max(a .. b) = b
BY DEF Min, Max

LEMMA UnbrokenIs ==
    ASSUME NEW S, Unbroken(S), S # {}
    PROVE  S = Min(S) .. Max(S)
BY IntervalEnds DEF Unbroken

\* A page is the newest days of those that exist.
LEMMA PageIs ==
    ASSUME NEW c \in Coins, NEW time \in Nat, now \in 0 .. MaxTime, time <= now
    PROVE  LET q == time \div DayLength
           IN /\ Page(c, time) \subseteq Listed[c] .. q
              /\ Listed[c] <= q => \E p \in Listed[c] .. q : Page(c, time) = p .. q
<1> DEFINE q == time \div DayLength
           candles == {d \in Days : d >= Listed[c] /\ d * DayLength <= time /\ d <= Today}
<1>0. Listed[c] \in Nat /\ PageSize \in Nat \ {0}
  BY SyncAssumption
<1>1. q \in Int /\ q * DayLength <= time /\ time < (q + 1) * DayLength
  BY DayOf
<1>2. \A d \in Int : d * DayLength <= time <=> d <= q
  <2> TAKE d \in Int
  <2>1. CASE d <= q
    BY <1>1, <2>1, DayOrder
  <2>2. CASE d > q
    BY <1>1, <2>2, DayOrder, q + 1 \in Int
  <2> QED BY <1>1, <2>1, <2>2
<1>3. q <= Today /\ q <= MaxTime \div DayLength
  <2> DEFINE last == MaxTime \div DayLength
  <2>1. now \in Int /\ MaxTime \in Int /\ now <= MaxTime
    BY SyncAssumption
  <2>2. /\ Today \in Int /\ now < (Today + 1) * DayLength
        /\ last \in Int /\ MaxTime < (last + 1) * DayLength
    BY <2>1, DayOf DEF Today
  <2>3. /\ q * DayLength \in Int /\ (Today + 1) * DayLength \in Int
        /\ (last + 1) * DayLength \in Int
    BY <1>1, <2>2, DayOrder, Today + 1 \in Int, last + 1 \in Int
  <2>4. q * DayLength < (Today + 1) * DayLength /\ q * DayLength < (last + 1) * DayLength
    BY <1>1, <2>1, <2>2, <2>3
  <2>5. q < Today + 1 /\ q < last + 1
    BY <1>1, <2>2, <2>4, DayOrder, Today + 1 \in Int, last + 1 \in Int
  <2> QED BY <1>1, <2>2, <2>5
<1>4. candles = Listed[c] .. q
  <2>1. Today \in Int /\ MaxTime \div DayLength \in Int
    BY DayOf, SyncAssumption DEF Today
  <2> QED BY <2>1, <1>0, <1>1, <1>2, <1>3 DEF Days
<1>5. \A d \in candles : Cardinality({e \in candles : e > d}) = q - d
  <2> TAKE d \in candles
  <2>1. {e \in candles : e > d} = (d + 1) .. q
    BY <1>0, <1>1, <1>4
  <2>2. d \in Int /\ d <= q
    BY <1>0, <1>1, <1>4
  <2>3. Cardinality((d + 1) .. q) = q - d
    BY <2>2, <1>1, FS_Interval, d + 1 \in Int
  <2> QED BY <2>1, <2>3
<1>6. Page(c, time) = {d \in candles : q - d < PageSize}
  BY <1>5 DEF Page
<1>7. ASSUME Listed[c] <= q PROVE \E p \in Listed[c] .. q : Page(c, time) = p .. q
  <2> DEFINE p == IF q - PageSize + 1 < Listed[c] THEN Listed[c] ELSE q - PageSize + 1
  <2>1. Page(c, time) = p .. q
    BY <1>0, <1>1, <1>4, <1>6
  <2> QED BY <2>1, <1>0, <1>1, <1>7
<1> QED BY <1>4, <1>6, <1>7

\* The days that a page adds to a sync.
LEMMA NewRows ==
    ASSUME NEW c \in Coins, NEW time \in Nat, NEW start \in Nat,
           now \in 0 .. MaxTime, time <= now
    PROVE  LET q == time \div DayLength
               page == Page(c, time)
               new == {d \in page : d * DayLength >= start}
           IN /\ q \in Int /\ q * DayLength <= time /\ time < (q + 1) * DayLength
              /\ page = {} <=> q < Listed[c]
              /\ new # {} => \E n \in Listed[c] .. q : new = n .. q /\ n * DayLength >= start
              /\ (\E e \in Int : /\ Listed[c] <= e /\ start <= e * DayLength
                                 /\ e * DayLength <= time) => new # {}
<1> DEFINE q == time \div DayLength
           page == Page(c, time)
           new == {d \in page : d * DayLength >= start}
<1>0. Listed[c] \in Nat
  BY SyncAssumption
<1>1. q \in Int /\ q * DayLength <= time /\ time < (q + 1) * DayLength
  BY DayOf
<1>2. page \subseteq Listed[c] .. q /\ (Listed[c] <= q => \E p \in Listed[c] .. q : page = p .. q)
  BY PageIs
<1> HIDE DEF q, page
<1>3. page = {} <=> q < Listed[c]
  <2>1. CASE q < Listed[c]
    <3>1. Listed[c] .. q = {}
      BY <1>0, <1>1, <2>1
    <3> QED BY <3>1, <2>1, <1>2
  <2>2. CASE q >= Listed[c]
    <3>1. PICK p \in Listed[c] .. q : page = p .. q
      BY <1>2, <2>2
    <3>2. q \in page
      BY <1>0, <1>1, <3>1
    <3> QED BY <3>2, <2>2, <1>0, <1>1
  <2> QED BY <1>0, <1>1, <2>1, <2>2
<1>4. ASSUME new # {} PROVE \E n \in Listed[c] .. q : new = n .. q /\ n * DayLength >= start
  <2>1. PICK p \in Listed[c] .. q : page = p .. q
    <3>1. page # {}
      BY <1>4
    <3>2. q >= Listed[c]
      BY <3>1, <1>0, <1>1, <1>3
    <3> QED BY <3>2, <1>2
  <2>2. PICK n \in p .. q : new = n .. q
    <3>1. new = From(p .. q, start)
      BY <2>1 DEF From
    <3>2. p \in Int /\ q \in Int /\ start \in Int
      BY <1>0, <1>1, <2>1
    <3> QED BY <3>1, <3>2, <1>4, CutInterval
  <2>3. n \in new /\ n \in Listed[c] .. q
    BY <1>0, <1>1, <2>1, <2>2
  <2> QED BY <2>2, <2>3
<1>5. ASSUME NEW e \in Int, Listed[c] <= e, start <= e * DayLength, e * DayLength <= time
      PROVE  new # {}
  <2>1. e <= q
    <3>1. e * DayLength \in Int /\ (q + 1) * DayLength \in Int
      BY <1>1, DayOrder, q + 1 \in Int
    <3>2. e * DayLength < (q + 1) * DayLength
      BY <1>1, <1>5, <3>1
    <3> QED BY <1>1, <3>2, DayOrder, q + 1 \in Int
  <2>2. q \in page
    BY <1>0, <1>1, <1>2, <1>5, <2>1
  <2>3. e * DayLength <= q * DayLength /\ q * DayLength \in Int /\ e * DayLength \in Int
    BY <1>1, <2>1, DayOrder
  <2> QED BY <2>2, <2>3, <1>5
<1> QED BY <1>1, <1>3, <1>4, <1>5 DEF q, page

\* What a file keeps of an interval of days.
LEMMA KeptIs ==
    ASSUME NEW a \in Int, NEW b \in Int, now \in Int, Kept(a .. b) # {}
    PROVE  \E m \in a .. b : /\ Kept(a .. b) = m .. b
                             /\ m = a \/ m * DayLength < now - Keep * DayLength + DayLength
<1> DEFINE t == now - Keep * DayLength
<1>1. t \in Int
  BY SyncAssumption
<1> HIDE DEF t
<1>2. Kept(a .. b) = From(a .. b, t)
  BY DEF Kept, From, t
<1> QED BY <1>1, <1>2, CutInterval DEF t
-----------------------------------------------------------------------------
\* The types of the state are an invariant.
LEMMA JobFields ==
    ASSUME TypeOK, NEW c \in Coins
    PROVE  /\ job[c] \in Jobs /\ file[c] \subseteq Days
           /\ job[c].at \in Phases /\ job[c].start \in Int /\ job[c].to \in Int
           /\ job[c].rows \subseteq Days /\ job[c].open \subseteq Days
           /\ job[c].spent \in Nat /\ job[c].tries \in 0 .. MaxRetries
BY DEF TypeOK, SyncTypeOK, Jobs

LEMMA EndedJob ==
    /\ NoJob \in Jobs /\ [NoJob EXCEPT !.at = "done"] \in Jobs
    /\ [NoJob EXCEPT !.at = "wait"] \in Jobs
BY SyncAssumption DEF NoJob, Jobs, Phases

LEMMA FieldUpdates ==
    ASSUME NEW j \in Jobs
    PROVE  /\ \A v \in Phases : [j EXCEPT !.at = v] \in Jobs
           /\ \A v \in Int : [j EXCEPT !.start = v] \in Jobs /\ [j EXCEPT !.to = v] \in Jobs
           /\ \A v \in SUBSET Days : [j EXCEPT !.rows = v] \in Jobs /\ [j EXCEPT !.open = v] \in Jobs
           /\ [j EXCEPT !.tries = 0] \in Jobs
BY SyncAssumption DEF Jobs

LEMMA JobUpdates ==
    ASSUME NEW F \in [Coins -> Jobs], NEW c \in Coins
    PROVE  /\ \A v \in Int : [F EXCEPT ![c].to = v] \in [Coins -> Jobs]
           /\ \A v \in SUBSET Days : /\ [F EXCEPT ![c].rows = v] \in [Coins -> Jobs]
                                      /\ [F EXCEPT ![c].open = v] \in [Coins -> Jobs]
           /\ [F EXCEPT ![c].tries = 0] \in [Coins -> Jobs]
BY FieldUpdates

LEMMA FetchingJob ==
    ASSUME NEW start \in Int, NEW to \in Int
    PROVE  [NoJob EXCEPT !.at = "fetch", !.start = start, !.to = to] \in Jobs
<1>1. PICK j \in Jobs : j = [NoJob EXCEPT !.at = "fetch"]
  BY EndedJob, FieldUpdates DEF Phases
<1>2. PICK k \in Jobs : k = [j EXCEPT !.start = start]
  BY FieldUpdates
<1>3. [k EXCEPT !.to = to] \in Jobs
  BY FieldUpdates
<1> QED BY <1>1, <1>2, <1>3

LEMMA StoreTypes ==
    ASSUME TypeOK, NEW c \in Coins, NEW rows \in SUBSET Days, NEW open \in SUBSET Days,
           Store(c, rows, open)
    PROVE  /\ file' \in [Coins -> SUBSET Days] /\ unfinished' \in [Coins -> SUBSET Days]
           /\ job' \in [Coins -> Jobs]
<1>1. file[c] \subseteq Days /\ unfinished[c] \subseteq Days
  BY DEF TypeOK, SyncTypeOK
<1>2. Kept(file[c] \cup rows) \subseteq Days
  BY <1>1 DEF Kept
<1> QED BY <1>1, <1>2, EndedJob DEF Store, EndJob, TypeOK, SyncTypeOK
-----------------------------------------------------------------------------
(* What holds of the file and of the sync of a coin.                       *)

\* The file goes back to the first candle of the coin, or to before a time.
Reaches(c, time) == \E d \in file[c] : d = Listed[c] \/ d * DayLength < time

FileSound(c) ==
    /\ \A d \in file[c] : d >= Listed[c]
    /\ c \notin torn => Unbroken(file[c])
    /\ c \notin torn /\ file[c] # {} =>
         /\ Reaches(c, now)
         /\ stage # "idle" /\ ~Late => Reaches(c, scanStart)

\* The file has the last day that began before the scan, or a later one.
Current(c) == file[c] # {} => \E d \in file[c] : (d + 1) * DayLength >= scanStart

\* A sync asks for the days after the last of the file, or for the whole window.
StartFits(c) ==
    /\ job[c].start >= 0 /\ job[c].start < job[c].to /\ job[c].to <= now
    /\ \A d \in file[c] : (d + 1) * DayLength <= job[c].start
    /\ IF file[c] = {} THEN job[c].start + Window * DayLength <= now
       ELSE \E d \in file[c] : (d + 1) * DayLength = job[c].start

\* What has arrived is an interval that reaches from today to the next day to ask for.
RowsAre(c, x, y) ==
    /\ x <= y /\ job[c].rows = x .. y
    /\ job[c].to = x * DayLength - 1 /\ x >= Listed[c]
    /\ (y + 1) * DayLength >= scanStart

RowsFit(c) ==
    IF job[c].rows = {} THEN job[c].to >= scanStart ELSE \E x, y \in Int : RowsAre(c, x, y)

CoinSound(c) ==
    /\ FileSound(c)
    /\ job[c].at = "done" /\ c \notin hit \cup broken => Current(c)
    /\ job[c].at = "fetch" => StartFits(c) /\ RowsFit(c)

SyncSound == \A c \in Coins : CoinSound(c)

\* A step that leaves the file and the sync of a coin alone.
LEMMA CoinStill ==
    ASSUME NEW c \in Coins, CoinSound(c), UNCHANGED <<now, broken, stage, scanStart>>,
           file'[c] = file[c], job'[c] = job[c], torn \subseteq torn', hit \subseteq hit'
    PROVE  CoinSound(c)'
BY DEF CoinSound, FileSound, Reaches, Late, Current, StartFits, RowsFit, RowsAre

\* A sync that ends without a new file.
LEMMA CoinEnds ==
    ASSUME NEW c \in Coins, CoinSound(c), UNCHANGED <<now, broken, stage, scanStart>>,
           file'[c] = file[c], torn \subseteq torn', hit \subseteq hit',
           job'[c].at = "done", c \in hit' \cup broken \/ Current(c)
    PROVE  CoinSound(c)'
BY DEF CoinSound, FileSound, Reaches, Late, Current

\* The days that a complete sync stores.
LEMMA StoredDays ==
    ASSUME TypeOK, NEW c \in Coins, CoinSound(c), job[c].at = "fetch",
           NEW x \in Int, NEW y \in Int, x <= y, x >= Listed[c],
           job[c].start <= x * DayLength,
           x = Listed[c] \/ x * DayLength <= job[c].start + 1
    PROVE  /\ \A d \in file[c] : d < x
           /\ file[c] # {} => (x - 1) \in file[c] /\ x # Listed[c]
           /\ c \notin torn => \E a \in Int : /\ a <= x /\ file[c] \cup (x .. y) = a .. y
                                              /\ file[c] # {} => a \in file[c]
                                              /\ file[c] = {} => a = x
<1>1. file[c] \subseteq Int /\ job[c].start \in Int /\ Listed[c] \in Int
  BY JobFields, SyncAssumption DEF Days
<1>2. \A d \in file[c] : d < x /\ d >= Listed[c] /\ x # Listed[c]
  <2> TAKE d \in file[c]
  <2>1. (d + 1) * DayLength <= job[c].start /\ d >= Listed[c]
    BY DEF CoinSound, StartFits, FileSound
  <2>0. d + 1 \in Int
    BY <1>1
  <2>2. (d + 1) * DayLength \in Int /\ x * DayLength \in Int
    BY <2>0, DayOrder
  <2>3. (d + 1) * DayLength <= x * DayLength
    BY <1>1, <2>1, <2>2
  <2>4. d + 1 <= x
    BY <2>0, <2>3, DayOrder
  <2> QED BY <1>1, <2>1, <2>4
<1>3. ASSUME file[c] # {} PROVE (x - 1) \in file[c]
  <2>1. PICK e \in file[c] : (e + 1) * DayLength = job[c].start
    BY <1>3 DEF CoinSound, StartFits
  <2>2. x * DayLength <= (e + 1) * DayLength + 1
    BY <1>2, <2>1
  <2>3. e + 1 \in Int /\ e < x
    BY <1>1, <1>2
  <2>4. ASSUME e + 1 < x PROVE FALSE
    <3>1. (e + 1) * DayLength + DayLength <= x * DayLength
      BY <2>3, <2>4, DayOrder
    <3>2. (e + 1) * DayLength \in Int /\ x * DayLength \in Int /\ DayLength \in Int /\ DayLength > 1
      BY <2>3, DayOrder, SyncAssumption
    <3> QED BY <2>2, <3>1, <3>2
  <2>5. e = x - 1
    BY <1>1, <2>3, <2>4
  <2> QED BY <2>5
<1>4. ASSUME c \notin torn
      PROVE  \E a \in Int : /\ a <= x /\ file[c] \cup (x .. y) = a .. y
                            /\ file[c] # {} => a \in file[c]
                            /\ file[c] = {} => a = x
  <2>1. CASE file[c] = {}
    BY <2>1
  <2>2. CASE file[c] # {}
    <3>1. PICK a, b \in Int : a <= b /\ file[c] = a .. b
      BY <1>4, <2>2 DEF CoinSound, FileSound, Unbroken
    <3>2. b = x - 1
      BY <1>2, <1>3, <2>2, <3>1
    <3>3. file[c] \cup (x .. y) = a .. y /\ a <= x /\ a \in file[c]
      BY <3>1, <3>2
    <3> QED BY <2>2, <3>3
  <2> QED BY <2>1, <2>2
<1> QED BY <1>2, <1>3, <1>4

LEMMA Spans ==
    /\ DayLength \in Int /\ DayLength > 1
    /\ Window * DayLength \in Int /\ Window * DayLength >= DayLength + DayLength
    /\ Keep * DayLength \in Int /\ Keep * DayLength >= DayLength + DayLength + DayLength
    /\ ScanTimeout \in Int /\ ScanTimeout <= DayLength
<1>1. Window \in Int /\ Window >= 2 /\ Keep \in Int /\ Keep >= 3 /\ DayLength \in Int
  BY SyncAssumption
<1>2. 2 * DayLength <= Window * DayLength /\ 3 * DayLength <= Keep * DayLength
  BY <1>1, DayOrder
<1>3. Window * DayLength \in Int /\ Keep * DayLength \in Int
  BY <1>1, DayOrder
<1> QED BY <1>1, <1>2, <1>3, SyncAssumption, SelectionAssumption

\* Storing a complete sync keeps the file sound, and makes it current.
LEMMA StoreSound ==
    ASSUME TypeOK, scanStart \in Nat, stage = "sync",
           NEW c \in Coins, CoinSound(c), job[c].at = "fetch",
           NEW x \in Int, NEW y \in Int, x <= y, x >= Listed[c],
           job[c].start <= x * DayLength,
           x = Listed[c] \/ x * DayLength <= job[c].start + 1,
           (y + 1) * DayLength >= scanStart,
           NEW open, Store(c, x .. y, open),
           UNCHANGED <<now, broken, torn, hit, stage, scanStart>>
    PROVE  CoinSound(c)'
<1> DEFINE S == file[c] \cup (x .. y)
<1>0. file[c] \subseteq Int /\ Listed[c] \in Int /\ now \in Int /\ job[c].start \in Int
      /\ scanStart \in Int
  <2>1. file[c] \subseteq Int /\ job[c].start \in Int
    BY JobFields DEF Days
  <2>2. Listed[c] \in Int /\ now \in Int
    BY SyncAssumption DEF TypeOK, SyncTypeOK
  <2> QED BY <2>1, <2>2
<1>1. file'[c] = Kept(S) /\ job'[c].at = "done"
  <2>1. x .. y # {}
    OBVIOUS
  <2>2. file \in [Coins -> SUBSET Days] /\ job \in [Coins -> Jobs]
    BY DEF TypeOK, SyncTypeOK
  <2> QED BY <2>1, <2>2 DEF Store, EndJob, NoJob
<1>2. /\ \A d \in file[c] : d < x
      /\ file[c] # {} => (x - 1) \in file[c] /\ x # Listed[c]
      /\ c \notin torn => \E a \in Int : /\ a <= x /\ S = a .. y
                                         /\ file[c] # {} => a \in file[c]
                                         /\ file[c] = {} => a = x
  BY StoredDays
<1>3. \A d \in file'[c] : d >= Listed[c] /\ d <= y
  BY <1>0, <1>1, <1>2 DEF Kept, CoinSound, FileSound
<1>4. Current(c)'
  <2> SUFFICES ASSUME NEW d \in file'[c] PROVE y \in file'[c]
    BY DEF Current
  <2>1. d \in Int /\ d <= y /\ d * DayLength >= now - Keep * DayLength
    BY <1>0, <1>1, <1>3 DEF Kept
  <2>2. d * DayLength <= y * DayLength /\ d * DayLength \in Int /\ y * DayLength \in Int
    BY <2>1, DayOrder
  <2>3. y * DayLength >= now - Keep * DayLength
    BY <2>1, <2>2, <1>0, Spans
  <2> QED BY <1>1, <2>3 DEF Kept
<1>5. ASSUME c \notin torn PROVE Unbroken(file'[c]) /\ (file'[c] # {} =>
         Reaches(c, now)' /\ (~Late' => Reaches(c, scanStart)'))
  <2>1. PICK a \in Int : /\ a <= x /\ S = a .. y
                         /\ file[c] # {} => a \in file[c]
                         /\ file[c] = {} => a = x
    BY <1>2, <1>5
  <2> SUFFICES ASSUME file'[c] # {}
               PROVE  Unbroken(file'[c]) /\ Reaches(c, now)' /\ (~Late => Reaches(c, scanStart)')
    BY DEF Unbroken, Late
  <2>2. PICK m \in a .. y : /\ file'[c] = m .. y
                            /\ m = a \/ m * DayLength < now - Keep * DayLength + DayLength
    BY <1>0, <1>1, <2>1, KeptIs
  <2>3. m \in file'[c] /\ Unbroken(file'[c]) /\ m \in Int
    BY <2>2 DEF Unbroken
  <2>4. ASSUME NEW time \in Int, now - DayLength - DayLength + 1 < time,
               file[c] # {} => Reaches(c, time)
        PROVE  m = Listed[c] \/ m * DayLength < time
    <3>1. CASE m # a
      <4>1. m * DayLength < now - Keep * DayLength + DayLength /\ m * DayLength \in Int
        BY <2>2, <2>3, <3>1, DayOrder
      <4> QED BY <4>1, <2>4, <1>0, Spans
    <3>2. CASE m = a /\ file[c] = {}
      <4>1. m = x /\ job[c].start + Window * DayLength <= now /\ x * DayLength \in Int
        BY <2>1, <3>2, DayOrder DEF CoinSound, StartFits
      <4>2. CASE m = Listed[c]
        BY <4>2
      <4>3. CASE x * DayLength <= job[c].start + 1
        <5>1. x * DayLength < time
          BY <4>1, <4>3, <2>4, <1>0, Spans
        <5> QED BY <4>1, <5>1
      <4> QED BY <4>1, <4>2, <4>3
    <3>3. CASE m = a /\ file[c] # {}
      <4>1. PICK d \in file[c] : d = Listed[c] \/ d * DayLength < time
        BY <2>4, <3>3 DEF Reaches
      <4>2. a <= d /\ d \in Int
        BY <2>1, <1>0
      <4>3. a >= Listed[c]
        BY <2>1, <3>3 DEF CoinSound, FileSound
      <4>4. a * DayLength <= d * DayLength /\ a * DayLength \in Int /\ d * DayLength \in Int
        BY <4>2, DayOrder
      <4> QED BY <4>1, <4>2, <4>3, <4>4, <3>3, <1>0
    <3> QED BY <3>1, <3>2, <3>3
  <2>5. Reaches(c, now)'
    <3>1. m = Listed[c] \/ m * DayLength < now
      BY <2>4, <1>0, <1>5, Spans DEF CoinSound, FileSound
    <3> QED BY <3>1, <2>3 DEF Reaches
  <2>6. ASSUME ~Late PROVE Reaches(c, scanStart)'
    <3>1. now <= scanStart + ScanTimeout
      BY <2>6, <1>0, Spans DEF Late
    <3>2. m = Listed[c] \/ m * DayLength < scanStart
      BY <2>4, <2>6, <3>1, <1>0, <1>5, Spans DEF CoinSound, FileSound
    <3> QED BY <3>2, <2>3 DEF Reaches
  <2> QED BY <2>3, <2>5, <2>6
<1> QED BY <1>1, <1>3, <1>4, <1>5 DEF CoinSound, FileSound

\* A page keeps the file and the sync sound, whether it is the last one or not.
LEMMA PageSound ==
    ASSUME TypeOK, scanStart \in Nat, stage = "sync",
           NEW c \in Coins, CoinSound(c), FetchPage(c), UNCHANGED scanVars
    PROVE  CoinSound(c)'
<1> DEFINE start == job[c].start
           time == job[c].to
           page == Page(c, time)
           new == {d \in page : d * DayLength >= start}
           rows == job[c].rows \cup new
           open == job[c].open \cup (new \cap {Today})
           next == Min(new) * DayLength - 1
<1>0. /\ file[c] \subseteq Int /\ Listed[c] \in Int /\ now \in 0 .. MaxTime
      /\ start \in Nat /\ time \in Nat /\ start < time /\ time <= now
      /\ job[c].at = "fetch" /\ StartFits(c) /\ RowsFit(c) /\ MaxTime \in Nat
  <2>1. file[c] \subseteq Int /\ start \in Int /\ time \in Int
    BY JobFields DEF Days
  <2>2. Listed[c] \in Int /\ now \in 0 .. MaxTime /\ MaxTime \in Nat
    BY SyncAssumption DEF TypeOK, SyncTypeOK
  <2>3. job[c].at = "fetch" /\ StartFits(c) /\ RowsFit(c)
    BY DEF FetchPage, CoinSound
  <2>4. start >= 0 /\ start < time /\ time <= now
    BY <2>3 DEF StartFits
  <2> QED BY <2>1, <2>2, <2>3, <2>4
<1>1. PICK q \in Int :
        /\ q * DayLength <= time /\ time < (q + 1) * DayLength
        /\ page = {} <=> q < Listed[c]
        /\ new # {} => \E n \in Listed[c] .. q : new = n .. q /\ n * DayLength >= start
        /\ (\E e \in Int : /\ Listed[c] <= e /\ start <= e * DayLength
                           /\ e * DayLength <= time) => new # {}
  BY <1>0, NewRows
<1>2. /\ IF page = {} THEN Store(c, job[c].rows, job[c].open)
         ELSE IF new = {} THEN EndJob(c) /\ UNCHANGED <<file, unfinished>>
         ELSE IF next <= start THEN Store(c, rows, open)
         ELSE /\ job' = [job EXCEPT ![c].rows = rows, ![c].open = open,
                                    ![c].to = next, ![c].tries = 0]
              /\ UNCHANGED <<file, unfinished>>
      /\ UNCHANGED <<now, broken, torn, hit, faults, stage, scanStart>>
  BY DEF FetchPage, scanVars
<1>3. job \in [Coins -> Jobs] /\ file \in [Coins -> SUBSET Days]
  BY DEF TypeOK, SyncTypeOK
<1> HIDE DEF start, time, page, new, rows, open, next
<1>4. \A d \in file[c] : Listed[c] <= d /\ (d + 1) * DayLength <= start
  BY <1>0 DEF CoinSound, FileSound, StartFits, start
<1>5. \A d \in Int : d * DayLength <= time => d <= q
  <2> SUFFICES ASSUME NEW d \in Int, d * DayLength <= time PROVE d <= q
    OBVIOUS
  <2>1. d * DayLength \in Int /\ (q + 1) * DayLength \in Int
    BY DayOrder, q + 1 \in Int
  <2>2. d * DayLength < (q + 1) * DayLength
    BY <1>0, <1>1, <2>1
  <2> QED BY <2>2, DayOrder, q + 1 \in Int
<1>6. CASE page = {} /\ job[c].rows = {}
  <2>1. file[c] = {}
    <3> SUFFICES ASSUME NEW d \in file[c] PROVE FALSE
      OBVIOUS
    <3>1. d \in Int /\ d >= Listed[c] /\ (d + 1) * DayLength <= start
      BY <1>0, <1>4
    <3>2. d * DayLength \in Int /\ (d + 1) * DayLength = d * DayLength + DayLength
      BY <3>1, DayOrder
    <3>3. d * DayLength <= time
      BY <1>0, <3>1, <3>2, Spans
    <3> QED BY <1>0, <1>1, <1>5, <1>6, <3>1, <3>3
  <2>2. file'[c] = file[c] /\ job'[c].at = "done"
    BY <1>2, <1>3, <1>6 DEF Store, EndJob, NoJob
  <2> QED BY <1>2, <2>1, <2>2, CoinEnds DEF Current
<1>7. CASE page = {} /\ job[c].rows # {}
  <2>1. PICK x, y \in Int : RowsAre(c, x, y)
    BY <1>0, <1>7 DEF RowsFit
  <2>2. /\ x <= y /\ job[c].rows = x .. y /\ time = x * DayLength - 1
        /\ x >= Listed[c] /\ (y + 1) * DayLength >= scanStart
    BY <2>1 DEF RowsAre, time
  <2>3. x = Listed[c]
    <3>1. (x - 1) * DayLength \in Int /\ x * DayLength = (x - 1) * DayLength + DayLength
      BY DayOrder, x - 1 \in Int
    <3>2. (x - 1) * DayLength <= time
      BY <2>2, <3>1, Spans
    <3>3. x - 1 <= q
      BY <1>5, <3>2
    <3> QED BY <1>0, <1>1, <1>7, <2>2, <3>3
  <2>4. job[c].start <= x * DayLength
    <3>1. x * DayLength \in Int
      BY DayOrder
    <3>2. start < x * DayLength - 1
      BY <1>0, <2>2
    <3> QED BY <1>0, <3>1, <3>2 DEF start
  <2>5. Store(c, x .. y, job[c].open)
    BY <1>2, <1>7, <2>2
  <2> QED BY <1>0, <1>2, <2>2, <2>3, <2>4, <2>5, StoreSound
<1>8. CASE page # {} /\ new = {}
  <2>1. file[c] = {}
    <3> SUFFICES ASSUME file[c] # {} PROVE FALSE
      OBVIOUS
    <3>1. PICK e \in file[c] : (e + 1) * DayLength = start
      BY <1>0 DEF StartFits, start
    <3>2. e + 1 \in Int /\ Listed[c] <= e + 1
      BY <1>0, <1>4
    <3> QED BY <1>0, <1>1, <1>8, <3>1, <3>2
  <2>2. file'[c] = file[c] /\ job'[c].at = "done"
    BY <1>2, <1>3, <1>8 DEF EndJob, NoJob
  <2> QED BY <1>2, <2>1, <2>2, CoinEnds DEF Current
<1>9. CASE page # {} /\ new # {}
  <2>1. PICK n \in Listed[c] .. q : new = n .. q /\ n * DayLength >= start
    BY <1>1, <1>9
  <2>2. n \in Int /\ n >= Listed[c] /\ n <= q /\ n * DayLength \in Int
    BY <1>0, <1>1, <2>1, DayOrder
  <2>3. next = n * DayLength - 1
    BY <2>1, <2>2, IntervalEnds DEF next
  <2>4. n * DayLength <= time
    <3>1. n * DayLength <= q * DayLength /\ q * DayLength \in Int
      BY <1>1, <2>2, DayOrder
    <3> QED BY <1>0, <1>1, <2>2, <3>1
  <2>5. PICK y \in Int : n <= y /\ rows = n .. y /\ (y + 1) * DayLength >= scanStart
    <3>1. CASE job[c].rows = {}
      <4>1. rows = n .. q
        BY <2>1, <3>1 DEF rows
      <4>2. scanStart <= time /\ (q + 1) * DayLength \in Int
        BY <1>0, <3>1, DayOrder, q + 1 \in Int DEF RowsFit, time
      <4> QED BY <1>0, <1>1, <2>2, <4>1, <4>2
    <3>2. CASE job[c].rows # {}
      <4>1. PICK x, y \in Int : RowsAre(c, x, y)
        BY <1>0, <3>2 DEF RowsFit
      <4>2. /\ x <= y /\ job[c].rows = x .. y /\ time = x * DayLength - 1
            /\ (y + 1) * DayLength >= scanStart
        BY <4>1 DEF RowsAre, time
      <4>3. (x - 1) * DayLength \in Int /\ x * DayLength = (x - 1) * DayLength + DayLength
        BY DayOrder, x - 1 \in Int
      <4>4. x - 1 <= q
        <5>1. (x - 1) * DayLength <= time
          BY <4>2, <4>3, Spans
        <5> QED BY <1>5, <5>1
      <4>5. q < x
        <5>1. q * DayLength < x * DayLength
          BY <1>0, <1>1, <4>2, <4>3, Spans, DayOrder
        <5> QED BY <5>1, DayOrder
      <4>6. q = x - 1
        BY <4>4, <4>5
      <4>7. rows = n .. y
        BY <2>1, <2>2, <4>2, <4>6 DEF rows
      <4> QED BY <2>2, <4>2, <4>6, <4>7
    <3> QED BY <3>1, <3>2
  <2>6. CASE next <= start
    <3>1. Store(c, n .. y, open)
      BY <1>2, <1>9, <2>5, <2>6
    <3>2. job[c].start <= n * DayLength /\ n * DayLength <= job[c].start + 1
      BY <1>0, <2>1, <2>2, <2>3, <2>6 DEF start
    <3> QED BY <1>0, <1>2, <2>2, <2>5, <3>1, <3>2, StoreSound
  <2>7. CASE ~(next <= start)
    <3>1. /\ job'[c].at = "fetch" /\ job'[c].start = start /\ job'[c].to = next
          /\ job'[c].rows = n .. y /\ file'[c] = file[c]
      BY <1>0, <1>2, <1>3, <1>9, <2>5, <2>7 DEF Jobs, start
    <3>2. StartFits(c)'
      <4>1. start < next /\ next <= now
        BY <1>0, <2>2, <2>3, <2>4, <2>7
      <4> QED BY <1>0, <1>2, <3>1, <4>1 DEF StartFits, start
    <3>3. RowsFit(c)'
      <4>1. n .. y # {}
        <5>1. n \in Int /\ y \in Int /\ n <= y
          BY <2>2, <2>5
        <5>2. n \in n .. y
          BY ONLY <5>1
        <5> QED BY <5>2
      <4>2. RowsAre(c, n, y)'
        <5>1. scanStart' = scanStart /\ job'[c].to = n * DayLength - 1
          BY <1>2, <2>3, <3>1
        <5>2. n <= y /\ n >= Listed[c] /\ (y + 1) * DayLength >= scanStart
          BY <2>2, <2>5
        <5> QED BY <3>1, <5>1, <5>2 DEF RowsAre
      <4> QED BY <2>2, <3>1, <4>1, <4>2 DEF RowsFit
    <3>4. FileSound(c)'
      BY <1>2, <3>1 DEF CoinSound, FileSound, Reaches, Late
    <3> QED BY <3>1, <3>2, <3>3, <3>4 DEF CoinSound
  <2> QED BY <2>6, <2>7
<1> QED BY <1>6, <1>7, <1>8, <1>9
-----------------------------------------------------------------------------
(* Sorting and filtering.                                                  *)

StrictOrder(order, I) ==
    /\ \A i \in I : <<i, i>> \notin order
    /\ \A i, j, k \in I : <<i, j>> \in order /\ <<j, k>> \in order => <<i, k>> \in order
    /\ \A i, j \in I : i # j => <<i, j>> \in order \/ <<j, i>> \in order

\* t is made of the elements of s at places I, each of another place.
DrawnFrom(t, s, I, X) ==
    /\ t \in Seq(X)
    /\ \E f \in [DOMAIN t -> I] :
         /\ \A k, l \in DOMAIN t : f[k] = f[l] => k = l
         /\ \A k \in DOMAIN t : t[k] = s[f[k]]

\* Every place has its own number of predecessors, so that the places are numbered.
LEMMA PlacesNumbered ==
    ASSUME NEW I, IsFiniteSet(I), NEW order, StrictOrder(order, I),
           NEW k \in 1 .. Cardinality(I)
    PROVE  \E i \in I : Cardinality({j \in I : <<j, i>> \in order}) = k - 1
<1> DEFINE n == Cardinality(I)
           Before(i) == {j \in I : <<j, i>> \in order}
           r == [i \in I |-> Cardinality(Before(i)) + 1]
<1>1. n \in Nat
  BY FS_CardinalityType
<1>2. \A i \in I : /\ IsFiniteSet(Before(i)) /\ Cardinality(Before(i)) \in Nat
                   /\ Cardinality(Before(i)) <= n - 1
  <2> TAKE i \in I
  <2>1. Before(i) \subseteq I \ {i}
    BY DEF StrictOrder
  <2>2. IsFiniteSet(I \ {i}) /\ Cardinality(I \ {i}) = n - 1
    BY FS_RemoveElement
  <2>3. IsFiniteSet(Before(i)) /\ Cardinality(Before(i)) <= n - 1
    BY <2>1, <2>2, FS_Subset
  <2> QED BY <2>3, FS_CardinalityType
<1>3. \A i, j \in I : <<i, j>> \in order => Cardinality(Before(i)) < Cardinality(Before(j))
  <2> SUFFICES ASSUME NEW i \in I, NEW j \in I, <<i, j>> \in order
               PROVE  Cardinality(Before(i)) < Cardinality(Before(j))
    OBVIOUS
  <2>1. i \in Before(j) /\ Before(i) \subseteq Before(j) \ {i}
    BY DEF StrictOrder
  <2>2. /\ IsFiniteSet(Before(j) \ {i})
        /\ Cardinality(Before(j) \ {i}) = Cardinality(Before(j)) - 1
    BY <1>2, <2>1, FS_RemoveElement
  <2>3. Cardinality(Before(i)) <= Cardinality(Before(j) \ {i})
    BY <2>1, <2>2, FS_Subset
  <2>4. Cardinality(Before(i)) \in Nat /\ Cardinality(Before(j)) \in Nat
    BY <1>2
  <2> HIDE DEF Before
  <2> QED BY <2>2, <2>3, <2>4
<1>4. r \in Injection(I, 1 .. n)
  <2> HIDE DEF Before
  <2>1. r \in [I -> 1 .. n]
    BY <1>1, <1>2
  <2>2. ASSUME NEW i \in I, NEW j \in I, r[i] = r[j] PROVE i = j
    <3>1. Cardinality(Before(i)) = Cardinality(Before(j))
      BY <1>2, <2>2
    <3>2. <<i, j>> \notin order /\ <<j, i>> \notin order
      BY <1>2, <1>3, <3>1
    <3> QED BY <3>2 DEF StrictOrder
  <2> QED BY <2>1, <2>2 DEF Injection, IsInjective
<1>5. IsFiniteSet(1 .. n) /\ Cardinality(1 .. n) = n
  BY <1>1, FS_Interval
<1>6. r \in Surjection(I, 1 .. n)
  BY <1>4, <1>5, FS_Injection
<1>7. PICK i \in I : r[i] = k
  BY <1>6 DEF Surjection
<1>8. Cardinality(Before(i)) = k - 1
  <2> HIDE DEF Before
  <2>1. Cardinality(Before(i)) \in Nat /\ Cardinality(Before(i)) + 1 = k
    BY <1>2, <1>7
  <2> QED BY <2>1
<1> QED BY <1>8

LEMMA OrderedDraws ==
    ASSUME NEW X, NEW s \in Seq(X), NEW I \in SUBSET DOMAIN s, NEW order,
           StrictOrder(order, I)
    PROVE  DrawnFrom(Ordered(s, I, order), s, I, X)
<1> DEFINE n == Cardinality(I)
           Before(i) == {j \in I : <<j, i>> \in order}
           f == [k \in 1 .. n |-> CHOOSE i \in I : Cardinality(Before(i)) = k - 1]
           t == Ordered(s, I, order)
<1>1. IsFiniteSet(I)
  <2>1. Len(s) \in Nat /\ DOMAIN s = 1 .. Len(s)
    OBVIOUS
  <2>2. IsFiniteSet(1 .. Len(s))
    BY <2>1, FS_Interval
  <2> QED BY <2>1, <2>2, FS_Subset
<1>2. n \in Nat
  BY <1>1, FS_CardinalityType
<1>3. \A k \in 1 .. n : f[k] \in I /\ Cardinality(Before(f[k])) = k - 1
  <2> TAKE k \in 1 .. n
  <2>1. \E i \in I : Cardinality(Before(i)) = k - 1
    BY <1>1, PlacesNumbered
  <2> HIDE DEF Before
  <2> QED BY <2>1
<1>4. t = [k \in 1 .. n |-> s[f[k]]]
  BY DEF Ordered
<1> HIDE DEF f, t, Before, n
<1>5. t \in Seq(X) /\ DOMAIN t = 1 .. n
  BY <1>2, <1>3, <1>4
<1>6. f \in [DOMAIN t -> I]
  BY <1>3, <1>5 DEF f
<1>7. \A k, l \in DOMAIN t : f[k] = f[l] => k = l
  BY <1>2, <1>3, <1>5
<1>8. \A k \in DOMAIN t : t[k] = s[f[k]]
  BY <1>4, <1>5
<1> QED BY <1>5, <1>6, <1>7, <1>8 DEF DrawnFrom, t

LEMMA DrawnTwice ==
    ASSUME NEW W, NEW X, NEW s, NEW I, NEW t, NEW u,
           DrawnFrom(t, s, I, W), DrawnFrom(u, t, DOMAIN t, X)
    PROVE  DrawnFrom(u, s, I, X)
<1>1. PICK f \in [DOMAIN t -> I] :
        /\ \A k, l \in DOMAIN t : f[k] = f[l] => k = l
        /\ \A k \in DOMAIN t : t[k] = s[f[k]]
  BY DEF DrawnFrom
<1>2. PICK g \in [DOMAIN u -> DOMAIN t] :
        /\ \A k, l \in DOMAIN u : g[k] = g[l] => k = l
        /\ \A k \in DOMAIN u : u[k] = t[g[k]]
  BY DEF DrawnFrom
<1> DEFINE h == [k \in DOMAIN u |-> f[g[k]]]
<1>3. h \in [DOMAIN u -> I]
  BY <1>1, <1>2
<1>4. \A k, l \in DOMAIN u : h[k] = h[l] => k = l
  BY <1>1, <1>2
<1>5. \A k \in DOMAIN u : u[k] = s[h[k]]
  BY <1>1, <1>2
<1> HIDE DEF h
<1> QED BY <1>3, <1>4, <1>5 DEF DrawnFrom

LEMMA TopDraws ==
    ASSUME NEW X, NEW s \in Seq(X), NEW n \in Nat
    PROVE  DrawnFrom(Top(s, n), s, DOMAIN s, X)
<1> DEFINE m == IF n < Len(s) THEN n ELSE Len(s)
           t == Top(s, n)
<1>1. Min({n, Len(s)}) = m
  BY DEF Min
<1>2. m \in Nat /\ m <= Len(s)
  OBVIOUS
<1>3. t = SubSeq(s, 1, m)
  BY <1>1 DEF Top
<1> HIDE DEF m, t
<1>4. t \in Seq(X) /\ DOMAIN t = 1 .. m /\ \A k \in DOMAIN t : t[k] = s[k]
  BY <1>2, <1>3
<1> DEFINE f == [k \in DOMAIN t |-> k]
<1>5. f \in [DOMAIN t -> DOMAIN s]
  BY <1>2, <1>4
<1>6. (\A k, l \in DOMAIN t : f[k] = f[l] => k = l) /\ \A k \in DOMAIN t : t[k] = s[f[k]]
  BY <1>4
<1> HIDE DEF f
<1> QED BY <1>4, <1>5, <1>6 DEF DrawnFrom, t

LEMMA AtDraws ==
    ASSUME NEW X, NEW s \in Seq(X), NEW I \in SUBSET DOMAIN s
    PROVE  DrawnFrom(At(s, I), s, I, X)
<1> DEFINE order == {t \in I \X I : t[1] < t[2]}
<1>1. I \subseteq Int
  BY DOMAIN s = 1 .. Len(s), Len(s) \in Nat
<1>2. StrictOrder(order, I)
  <2>1. \A i, j \in I : <<i, j>> \in order <=> i < j
    OBVIOUS
  <2> HIDE DEF order
  <2> QED BY <1>1, <2>1 DEF StrictOrder
<1>3. At(s, I) = Ordered(s, I, order)
  BY DEF At
<1> HIDE DEF order
<1> QED BY <1>2, <1>3, OrderedDraws

\* The order by descending keys, with equal keys in their old order.
LEMMA RankDraws ==
    ASSUME NEW X, NEW s \in Seq(X), NEW key, \A i \in DOMAIN s : key[i] \in Int, NEW order,
           \A i, j \in DOMAIN s : <<i, j>> \in order <=>
               key[i] > key[j] \/ (key[i] = key[j] /\ i < j)
    PROVE  DrawnFrom(Ordered(s, DOMAIN s, order), s, DOMAIN s, X)
<1>1. DOMAIN s \subseteq Int
  BY DOMAIN s = 1 .. Len(s), Len(s) \in Nat
<1>2. StrictOrder(order, DOMAIN s)
  BY <1>1 DEF StrictOrder
<1> QED BY <1>2, OrderedDraws

\* What holds of the places holds of what is drawn from them.
LEMMA DrawnElements ==
    ASSUME NEW X, NEW Y, NEW s, NEW I, NEW J, NEW t, I \subseteq J,
           DrawnFrom(t, s, I, X), \A i \in I : s[i] \in Y
    PROVE  t \in Seq(Y) /\ DrawnFrom(t, s, J, Y)
<1>1. PICK f \in [DOMAIN t -> I] :
        /\ \A k, l \in DOMAIN t : f[k] = f[l] => k = l
        /\ \A k \in DOMAIN t : t[k] = s[f[k]]
  BY DEF DrawnFrom
<1>2. t \in Seq(X) /\ \A k \in DOMAIN t : t[k] \in Y
  BY <1>1 DEF DrawnFrom
<1>3. t \in Seq(Y)
  <2>1. Len(t) \in Nat /\ DOMAIN t = 1 .. Len(t) /\ t = [k \in 1 .. Len(t) |-> t[k]]
    BY <1>2
  <2> QED BY <1>2, <2>1
<1>4. f \in [DOMAIN t -> J]
  BY <1>1
<1> QED BY <1>1, <1>3, <1>4 DEF DrawnFrom

\* Of every sector at most one coin is selected.
LEMMA DiversifiedDraws ==
    ASSUME NEW s \in Seq(Coins)
    PROVE  LET d == SelectDiversified(s)
           IN /\ DrawnFrom(d, s, DOMAIN s, Coins)
              /\ \A i, j \in DOMAIN d : i # j => Sector[d[i]] # Sector[d[j]]
<1> DEFINE Firsts == {i \in DOMAIN s : /\ Sector[s[i]] # Unknown
                                       /\ \A j \in 1 .. (i - 1) : Sector[s[j]] # Sector[s[i]]}
           d == SelectDiversified(s)
<1>1. TopN \in Nat
  BY SelectionAssumption
<1>2. DrawnFrom(At(s, Firsts), s, Firsts, Coins)
  BY AtDraws
<1>3. d = Top(At(s, Firsts), TopN)
  BY DEF SelectDiversified
<1>4. \A i, j \in Firsts : i # j => Sector[s[i]] # Sector[s[j]]
  <2>1. \A i, j \in Firsts : i < j => Sector[s[i]] # Sector[s[j]]
    <3>1. DOMAIN s = 1 .. Len(s) /\ Len(s) \in Nat
      OBVIOUS
    <3> QED BY <3>1
  <2>2. Firsts \subseteq Int
    BY DOMAIN s = 1 .. Len(s), Len(s) \in Nat
  <2> HIDE DEF Firsts
  <2>3. \A i, j \in Firsts : i # j => i < j \/ j < i
    BY <2>2
  <2> QED BY <2>1, <2>3
<1>5. Firsts \subseteq DOMAIN s
  OBVIOUS
<1> HIDE DEF Firsts, d
<1>6. At(s, Firsts) \in Seq(Coins)
  BY <1>2 DEF DrawnFrom
<1>7. DrawnFrom(d, At(s, Firsts), DOMAIN At(s, Firsts), Coins)
  BY <1>1, <1>3, <1>6, TopDraws
<1>8. DrawnFrom(d, s, Firsts, Coins)
  BY <1>2, <1>7, DrawnTwice
<1>9. \A i \in Firsts : s[i] \in Coins
  BY <1>5
<1>10. DrawnFrom(d, s, DOMAIN s, Coins)
  BY <1>5, <1>8, <1>9, DrawnElements
<1>11. PICK f \in [DOMAIN d -> Firsts] :
        /\ \A k, l \in DOMAIN d : f[k] = f[l] => k = l
        /\ \A k \in DOMAIN d : d[k] = s[f[k]]
  BY <1>8 DEF DrawnFrom
<1>12. \A i, j \in DOMAIN d : i # j => Sector[d[i]] # Sector[d[j]]
  BY <1>4, <1>11
<1> QED BY <1>10, <1>12 DEF d

-----------------------------------------------------------------------------
(* The two gates.                                                          *)

Results == [coin : Coins, passed : BOOLEAN, score : Int,
            grade : {"FAIL", "STRONG PASS", "WEAK PASS"}, trading : BOOLEAN]

LEMMA FinalScoreInt == ASSUME NEW r \in Results PROVE FinalScore(r) \in Int
<1>1. \A x \in Int : (6 * x) \div 10 \in Int
  OBVIOUS
<1>2. r.score \in Int
  BY DEF Results
<1>3. (6 * r.score) \div 10 \in Int
  BY <1>1, <1>2
<1> DEFINE bonus == IF r.grade = "STRONG PASS" THEN 280
                    ELSE IF r.grade = "WEAK PASS" THEN 200 ELSE 120
<1>4. bonus \in Int
  OBVIOUS
<1>5. FinalScore(r) = (6 * r.score) \div 10 + bonus
  BY DEF FinalScore
<1> HIDE DEF bonus
<1> QED BY <1>3, <1>4, <1>5

LEMMA ScoreInt == ASSUME NEW m \in Metrics PROVE Score(m) \in Int
<1>1. \A x \in Int : Scale(x) \in Int
  <2> TAKE x \in Int
  <2>1. Min({1000, x}) \in Int
    BY DEF Min
  <2>2. \A y \in Int : Max({0, y}) \in Int
    BY DEF Max
  <2> QED BY <2>1, <2>2 DEF Scale
<1>2. /\ m.return \in Int /\ m.win_rate \in Int /\ m.profit_factor \in Int
      /\ m.sharpe \in Int /\ m.drawdown \in Int /\ m.sortino \in Int
  BY SelectionAssumption DEF Floors, Ceilings
<1>3. /\ (m.return * 333) \div 1000 \in Int /\ ((m.win_rate - 3000) * 333) \div 1000 \in Int
      /\ (m.profit_factor - 100) * 5 \in Int /\ m.sharpe * 5 \in Int
      /\ 1000 - (m.drawdown \div 2) \in Int /\ m.sortino * 4 \in Int
  BY <1>2
<1> HIDE DEF Scale
<1>4. \A a, b, c, d, e, f \in Int :
        (20 * a + 10 * b + 20 * c + 25 * d + 15 * e + 10 * f) \div 100 \in Int
  OBVIOUS
<1> QED BY <1>1, <1>3, <1>4 DEF Score

\* What is selected comes from results that passed both gates, each of another one.
LEMMA FinalDraws ==
    ASSUME NEW res \in Seq(Results)
    PROVE  DrawnFrom(SelectFinal(res), res, DOMAIN res, {r \in Results : r.passed /\ r.trading})
<1> DEFINE Both == {r \in Results : r.passed /\ r.trading}
           byScore == [i \in DOMAIN res |-> res[i].score]
           ranked == RankBy(res, LAMBDA r : r.score)
           best == Top(ranked, BacktestTopN)
           passing == {i \in DOMAIN best : best[i].passed}
           cand == Candidates(res)
           good == {i \in DOMAIN cand : FinalScore(cand[i]) >= 400 /\ cand[i].trading}
           gated == At(cand, good)
           last == RankBy(gated, FinalScore)
<1>0. BacktestTopN \in Nat /\ FinalN \in Nat
  BY SelectionAssumption
<1>1. DrawnFrom(ranked, res, DOMAIN res, Results)
  <2> DEFINE order == {t \in (DOMAIN res) \X (DOMAIN res) :
                \/ res[t[1]].score > res[t[2]].score
                \/ res[t[1]].score = res[t[2]].score /\ t[1] < t[2]}
  <2>1. ranked = Ordered(res, DOMAIN res, order)
    BY DEF RankBy
  <2>2. \A i \in DOMAIN res : byScore[i] \in Int
    <3>1. \A r \in Results : r.score \in Int
      BY DEF Results
    <3>2. \A i \in DOMAIN res : res[i] \in Results
      OBVIOUS
    <3> QED BY <3>1, <3>2
  <2>3. \A i, j \in DOMAIN res : <<i, j>> \in order <=>
          byScore[i] > byScore[j] \/ (byScore[i] = byScore[j] /\ i < j)
    OBVIOUS
  <2> HIDE DEF order, byScore
  <2> QED BY <2>1, <2>2, <2>3, RankDraws
<1> HIDE DEF byScore, ranked
<1>2. DrawnFrom(best, res, DOMAIN res, Results)
  <2>1. ranked \in Seq(Results)
    BY <1>1 DEF DrawnFrom
  <2>2. DrawnFrom(best, ranked, DOMAIN ranked, Results)
    BY <1>0, <2>1, TopDraws
  <2> QED BY <1>1, <2>2, DrawnTwice
<1>3. cand = At(best, passing)
  BY DEF Candidates, Where, ranked
<1> HIDE DEF best, cand
<1>4. best \in Seq(Results)
  BY <1>2 DEF DrawnFrom
<1>5. DrawnFrom(cand, res, DOMAIN res, Results) /\ cand \in Seq({r \in Results : r.passed})
  <2>1. DrawnFrom(cand, best, passing, Results)
    BY <1>3, <1>4, AtDraws
  <2>2. passing \subseteq DOMAIN best /\ \A i \in passing : best[i] \in {r \in Results : r.passed}
    BY <1>4
  <2>3. cand \in Seq({r \in Results : r.passed})
    BY <2>1, <2>2, DrawnElements
  <2>4. DrawnFrom(cand, best, DOMAIN best, Results)
    <3>1. \A i \in passing : best[i] \in Results
      BY <2>2
    <3> QED BY <2>1, <2>2, <3>1, DrawnElements
  <2> QED BY <1>2, <2>3, <2>4, DrawnTwice
<1>6. DrawnFrom(gated, res, DOMAIN res, Both)
  <2>1. cand \in Seq(Results)
    BY <1>5 DEF DrawnFrom
  <2>2. good \subseteq DOMAIN cand /\ \A i \in good : cand[i] \in Both
    BY <1>5
  <2>3. DrawnFrom(gated, cand, good, Results)
    BY <2>1, <2>2, AtDraws
  <2>4. DrawnFrom(gated, cand, DOMAIN cand, Both)
    BY <2>2, <2>3, DrawnElements
  <2> QED BY <1>5, <2>4, DrawnTwice
<1>7. DrawnFrom(last, res, DOMAIN res, Both)
  <2> DEFINE key == [i \in DOMAIN gated |-> FinalScore(gated[i])]
             order == {t \in (DOMAIN gated) \X (DOMAIN gated) :
                \/ FinalScore(gated[t[1]]) > FinalScore(gated[t[2]])
                \/ FinalScore(gated[t[1]]) = FinalScore(gated[t[2]]) /\ t[1] < t[2]}
  <2>1. last = Ordered(gated, DOMAIN gated, order)
    BY DEF RankBy
  <2>2. gated \in Seq(Both)
    BY <1>6 DEF DrawnFrom
  <2> HIDE DEF gated
  <2>3. \A i \in DOMAIN gated : key[i] \in Int
    BY <2>2, FinalScoreInt
  <2>4. \A i, j \in DOMAIN gated : <<i, j>> \in order <=>
          key[i] > key[j] \/ (key[i] = key[j] /\ i < j)
    OBVIOUS
  <2> HIDE DEF order, key, Both, last
  <2>5. DrawnFrom(last, gated, DOMAIN gated, Both)
    BY <2>1, <2>2, <2>3, <2>4, RankDraws
  <2> QED BY <1>6, <2>5, DrawnTwice
<1>8. SelectFinal(res) = Top(last, FinalN)
  BY DEF SelectFinal, Where, cand
<1> HIDE DEF last, Both
<1>9. last \in Seq(Both)
  BY <1>7 DEF DrawnFrom
<1>10. DrawnFrom(SelectFinal(res), last, DOMAIN last, Both)
  BY <1>0, <1>8, <1>9, TopDraws
<1>11. DrawnFrom(SelectFinal(res), res, DOMAIN res, Both)
  BY <1>7, <1>10, DrawnTwice
<1> QED BY <1>11 DEF Both
-----------------------------------------------------------------------------
(* The scan.                                                               *)

Shape ==
    /\ scanStart \in Nat /\ fallback \in BOOLEAN /\ now >= FirstTime
    /\ stage # "sync" => \A c \in Coins : job[c] = NoJob
    /\ stage # "idle" => scanStart <= now
    /\ stage = "sync" => \A c \in Coins : job[c].at = "idle" <=> c \notin ToSet(coins)
    /\ stage # "picked" => chosen = <<>> /\ ticker = NoCoin
    /\ stage = "picked" => ticker # NoCoin
    /\ ticker = NoCoin \/ fallback \/ ticker \in ToSet(coins)
    /\ exclude \cap ToSet(coins) = {}
    /\ \A i, j \in DOMAIN coins : i # j => Sector[coins[i]] # Sector[coins[j]]
    /\ \A c \in ToSet(coins) : Listed[c] * DayLength < scanStart

IInv == TypeOK /\ Shape /\ SyncSound /\ ChosenPassedAllGates /\ ChosenOnFreshData

LEMMA InitIInv == Init => IInv
<1> SUFFICES ASSUME Init PROVE IInv
  OBVIOUS
<1> USE DEF Init, SyncInit
<1>1. Today \in Int /\ Today * DayLength <= FirstTime /\ FirstTime < (Today + 1) * DayLength
  BY DayOf, SyncAssumption DEF Today
<1>2. Window <= Today /\ Today <= MaxTime \div DayLength
  <2>1. /\ Window \in Nat /\ Keep \in Nat /\ Keep > Window /\ Keep * DayLength <= FirstTime
        /\ FirstTime \in Int /\ MaxTime \in Int /\ FirstTime <= MaxTime
    BY SyncAssumption
  <2>2. Keep * DayLength < (Today + 1) * DayLength
    <3>1. Keep * DayLength \in Int /\ (Today + 1) * DayLength \in Int
      BY <1>1, <2>1, DayOrder, Today + 1 \in Int
    <3> QED BY <1>1, <2>1, <3>1
  <2>3. Keep < Today + 1
    <3>1. Today + 1 \in Int
      BY <1>1
    <3> QED BY <2>1, <2>2, <3>1, DayOrder
  <2>4. PICK last \in Int : last = MaxTime \div DayLength /\ MaxTime < (last + 1) * DayLength
    BY <2>1, DayOf
  <2>5. Today * DayLength < (last + 1) * DayLength
    <3>1. Today * DayLength \in Int /\ (last + 1) * DayLength \in Int
      BY <1>1, DayOrder, last + 1 \in Int
    <3> QED BY <1>1, <2>1, <2>4, <3>1
  <2>6. Today < last + 1
    BY <1>1, <2>5, DayOrder, last + 1 \in Int
  <2> QED BY <1>1, <2>1, <2>3, <2>4, <2>6
<1>3. Today - Window \in Days /\ (Today - Window) * DayLength < FirstTime
  <2>1. Window \in Int /\ Window > 0 /\ MaxTime \div DayLength \in Int /\ FirstTime \in Int
    BY DayOf, SyncAssumption
  <2>2. (Today - Window) \in Int /\ Today - Window < Today
    BY <1>1, <2>1
  <2>3. (Today - Window) * DayLength < Today * DayLength /\ (Today - Window) * DayLength \in Int
        /\ Today * DayLength \in Int
    BY <1>1, <2>2, DayOrder
  <2>4. (Today - Window) * DayLength < FirstTime
    BY <1>1, <2>1, <2>3
  <2> QED BY <1>1, <1>2, <2>1, <2>2, <2>4 DEF Days
<1>4. TypeOK
  <2>1. file \in [Coins -> SUBSET Days]
    BY <1>3
  <2>2. job \in [Coins -> Jobs]
    BY EndedJob
  <2>3. now \in 0 .. MaxTime /\ faults \in 0 .. MaxFaults
    BY SyncAssumption
  <2>4. SyncTypeOK
    BY <2>1, <2>2, <2>3 DEF SyncTypeOK
  <2>5. coins \in Seq(Coins) /\ DOMAIN chosen = {}
    OBVIOUS
  <2> QED BY <2>4, <2>5 DEF TypeOK, Stages
<1>5. Shape
  <2>1. ToSet(coins) = {} /\ DOMAIN coins = {}
    BY DEF ToSet
  <2>2. now >= FirstTime /\ scanStart \in Nat
    BY SyncAssumption
  <2> QED BY <2>1, <2>2 DEF Shape
<1>6. SyncSound
  <2> SUFFICES ASSUME NEW c \in Coins PROVE CoinSound(c)
    BY DEF SyncSound
  <2>1. job[c].at = "idle"
    BY DEF NoJob
  <2>2. file[c] \in {{}, {Today - Window}} /\ \A d \in file[c] : d >= Listed[c]
    OBVIOUS
  <2>3. Unbroken(file[c])
    <3>1. \A d \in Int : Unbroken({d})
      <4> TAKE d \in Int
      <4>1. d <= d /\ {d} = d .. d
        OBVIOUS
      <4> QED BY <4>1 DEF Unbroken
    <3>2. Today - Window \in Int
      BY <1>1, SyncAssumption
    <3>3. Unbroken({}) /\ Unbroken({Today - Window})
      BY <3>1, <3>2 DEF Unbroken
    <3> QED BY <2>2, <3>3
  <2>4. file[c] # {} => Reaches(c, now)
    BY <1>3, <2>2 DEF Reaches
  <2> QED BY <2>1, <2>2, <2>3, <2>4 DEF CoinSound, FileSound
<1>7. ChosenPassedAllGates /\ ChosenOnFreshData
  <2>1. DOMAIN chosen = {}
    OBVIOUS
  <2> QED BY <2>1 DEF ChosenPassedAllGates, ChosenOnFreshData
<1> QED BY <1>4, <1>5, <1>6, <1>7 DEF IInv

-----------------------------------------------------------------------------
(* The steps of one coin's sync.                                           *)

LEMMA StartIsInt ==
    ASSUME TypeOK, now >= FirstTime, NEW c \in Coins
    PROVE  /\ StartDate(c) \in Int /\ StartDate(c) >= 0
           /\ \A d \in file[c] : (d + 1) * DayLength <= StartDate(c)
           /\ IF file[c] = {} THEN StartDate(c) + Window * DayLength = now
              ELSE \E d \in file[c] : (d + 1) * DayLength = StartDate(c)
<1>1. now \in Int /\ file[c] \in SUBSET Days /\ \A d \in file[c] : d \in Nat
  BY DaysAre DEF TypeOK, SyncTypeOK
<1>2. CASE file[c] = {}
  <2>1. FirstTime \in Int /\ FirstTime >= Keep * DayLength /\ Keep * DayLength >= Window * DayLength
    BY SyncAssumption, DayOrder
  <2>2. Keep * DayLength \in Int /\ Window * DayLength \in Int
    BY Spans
  <2>3. StartDate(c) = now - Window * DayLength
    BY <1>2 DEF StartDate
  <2> QED BY <1>1, <1>2, <2>1, <2>2, <2>3
<1>3. CASE file[c] # {}
  <2>1. Max(file[c]) \in file[c] /\ \A d \in file[c] : d <= Max(file[c])
    BY <1>1, <1>3, LastDay
  <2>2. StartDate(c) = (Max(file[c]) + 1) * DayLength
    BY <1>3 DEF StartDate
  <2>3. PICK last \in file[c] : last = Max(file[c])
    BY <2>1
  <2>4. last \in Nat /\ last + 1 \in Int
    BY <1>1, <2>3
  <2>5. (last + 1) * DayLength = last * DayLength + DayLength /\ (last + 1) * DayLength \in Int
        /\ 0 * DayLength <= (last + 1) * DayLength
    BY <2>4, DayOrder
  <2>6. \A d \in file[c] : (d + 1) * DayLength <= (last + 1) * DayLength
    <3> TAKE d \in file[c]
    <3>1. d + 1 \in Int /\ d + 1 <= last + 1
      BY <1>1, <2>1, <2>3, <2>4
    <3> QED BY <2>4, <3>1, DayOrder
  <2> QED BY <1>3, <2>2, <2>3, <2>5, <2>6, Spans
<1> QED BY <1>2, <1>3

LEMMA StoreTypesAll ==
    ASSUME TypeOK, now >= FirstTime, NEW c \in Coins, SyncStep(c)
    PROVE  SyncTypeOK'
<1> USE DEF TypeOK, SyncTypeOK
<1>0. job[c] \in Jobs /\ MaxRetries \in Nat /\ ApiTimeout \in Nat /\ MaxFaults \in Nat
  BY SyncAssumption
<1>1. CASE BeginSync(c)
  <2>1. job' \in [Coins -> Jobs]
    <3>1. CASE job' = [job EXCEPT ![c] = [NoJob EXCEPT !.at = "done"]]
      BY <3>1, EndedJob
    <3>2. CASE job' = [job EXCEPT ![c] = [NoJob EXCEPT !.at = "fetch", !.start = StartDate(c), !.to = now]]
      <4>1. StartDate(c) \in Int /\ now \in Int
        BY StartIsInt, SyncAssumption
      <4>2. [NoJob EXCEPT !.at = "fetch", !.start = StartDate(c), !.to = now] \in Jobs
        BY <4>1, FetchingJob
      <4> QED BY <3>2, <4>2
    <3> QED BY <1>1, <3>1, <3>2 DEF BeginSync, EndJob
  <2> QED BY <1>1, <2>1 DEF BeginSync
<1>2. CASE FetchPage(c)
  <2> DEFINE page == Page(c, job[c].to)
             new == {d \in page : d * DayLength >= job[c].start}
             rows == job[c].rows \cup new
             open == job[c].open \cup (new \cap {Today})
             next == Min(new) * DayLength - 1
  <2>1. page \subseteq Days
    BY DEF Page
  <2>2. rows \in SUBSET Days /\ open \in SUBSET Days
    BY <2>1, JobFields
  <2>3. job[c].rows \in SUBSET Days /\ job[c].open \in SUBSET Days
    BY JobFields
  <2> HIDE DEF open, rows, page
  <2>4. CASE Store(c, job[c].rows, job[c].open)
    BY <1>2, <2>3, <2>4, StoreTypes DEF FetchPage
  <2>5. CASE EndJob(c) /\ UNCHANGED <<file, unfinished>>
    BY <1>2, <2>5, EndedJob DEF FetchPage, EndJob
  <2>6. CASE Store(c, rows, open)
    BY <1>2, <2>2, <2>6, StoreTypes DEF FetchPage
  <2>7. CASE /\ new # {}
             /\ job' = [job EXCEPT ![c].rows = rows, ![c].open = open,
                                     ![c].to = next, ![c].tries = 0]
             /\ UNCHANGED <<file, unfinished>>
    <3>1. next \in Int
      <4>1. new \in SUBSET Nat
        <5>1. \A d \in Days : d \in Nat
          BY DaysAre
        <5>2. \A d \in new : d \in page
          OBVIOUS
        <5> QED BY <2>1, <5>1, <5>2
      <4> HIDE DEF new
      <4>2. Min(new) \in new
        BY <2>7, <4>1, FirstDay
      <4> QED BY <4>1, <4>2, SyncAssumption
    <3>2. job' \in [Coins -> Jobs]
      <4> HIDE DEF next
      <4>1. PICK F \in [Coins -> Jobs] : F = [job EXCEPT ![c].rows = rows]
        BY <2>2, JobUpdates
      <4>2. PICK G \in [Coins -> Jobs] : G = [F EXCEPT ![c].open = open]
        BY <2>2, JobUpdates
      <4>3. PICK H \in [Coins -> Jobs] : H = [G EXCEPT ![c].to = next]
        BY <3>1, JobUpdates
      <4>4. [H EXCEPT ![c].tries = 0] \in [Coins -> Jobs]
        BY JobUpdates
      <4>5. job' = [H EXCEPT ![c].tries = 0]
        BY <2>7, <4>1, <4>2, <4>3
      <4> QED BY <4>4, <4>5
    <3> QED BY <1>2, <2>7, <3>2 DEF FetchPage
  <2> QED BY <1>2, <2>4, <2>5, <2>6, <2>7 DEF FetchPage, rows, open, page
<1>3. CASE FetchError(c)
  <2>1. job[c].rows \in SUBSET Days /\ job[c].open \in SUBSET Days
    BY JobFields
  <2>2. Store(c, job[c].rows, job[c].open)
    BY <1>3 DEF FetchError, Salvage
  <2>3. faults' \in 0 .. MaxFaults /\ hit' \subseteq Coins /\ torn' \subseteq Coins
    BY <1>0, <1>3 DEF FetchError, Fault, Salvage
  <2> QED BY <1>3, <2>1, <2>2, <2>3, StoreTypes DEF FetchError
<1>4. CASE FetchTimeout(c)
  <2>1. job[c].rows \in SUBSET Days /\ job[c].open \in SUBSET Days
    BY JobFields
  <2>2. faults' \in 0 .. MaxFaults /\ hit' \subseteq Coins
    BY <1>0, <1>4 DEF FetchTimeout, Fault
  <2>3. CASE Salvage(c)
    <3>1. Store(c, job[c].rows, job[c].open) /\ torn' \subseteq Coins
      BY <2>3 DEF Salvage
    <3> QED BY <1>4, <2>1, <2>2, <3>1, StoreTypes DEF FetchTimeout
  <2>4. CASE /\ ~(job[c].tries + 1 >= MaxRetries)
             /\ job' = [job EXCEPT ![c].spent = @ + ApiTimeout, ![c].tries = @ + 1]
             /\ UNCHANGED <<file, unfinished, torn>>
    <3>1. job' \in [Coins -> Jobs]
      BY <1>0, <2>4 DEF Jobs
    <3> QED BY <1>4, <2>2, <2>4, <3>1 DEF FetchTimeout
  <2> QED BY <1>4, <2>3, <2>4 DEF FetchTimeout
<1>5. CASE CoinTimeout(c)
  <2>1. faults' \in 0 .. MaxFaults /\ hit' \subseteq Coins
    BY <1>0, <1>5 DEF CoinTimeout, Fault
  <2> QED BY <1>5, <2>1, EndedJob DEF CoinTimeout, EndJob
<1> QED BY <1>1, <1>2, <1>3, <1>4, <1>5 DEF SyncStep

\* A step for one coin leaves the others alone.
LEMMA OtherCoins ==
    ASSUME TypeOK, NEW c \in Coins, SyncStep(c), NEW k \in Coins, k # c
    PROVE  /\ file'[k] = file[k] /\ job'[k] = job[k]
           /\ torn \subseteq torn' /\ hit \subseteq hit' /\ UNCHANGED <<now, broken>>
<1> USE DEF TypeOK, SyncTypeOK
<1>1. CASE BeginSync(c)
  BY <1>1 DEF BeginSync, EndJob
<1>2. CASE FetchPage(c)
  BY <1>2 DEF FetchPage, Store, EndJob
<1>3. CASE FetchError(c)
  BY <1>3 DEF FetchError, Fault, Salvage, Store, EndJob
<1>4. CASE FetchTimeout(c)
  BY <1>4 DEF FetchTimeout, Fault, Salvage, Store, EndJob
<1>5. CASE CoinTimeout(c)
  BY <1>5 DEF CoinTimeout, Fault, EndJob
<1> QED BY <1>1, <1>2, <1>3, <1>4, <1>5 DEF SyncStep

\* A sync that began does not become idle by a step of its own.
LEMMA StepNotIdle ==
    ASSUME TypeOK, NEW c \in Coins, job[c].at \in {"wait", "fetch"}, SyncStep(c)
    PROVE  job'[c].at # "idle"
<1>0. job \in [Coins -> Jobs]
  BY DEF TypeOK, SyncTypeOK
<1>1. ASSUME EndJob(c) PROVE job'[c].at = "done"
  BY <1>0, <1>1 DEF EndJob, NoJob
<1>2. ASSUME Salvage(c) PROVE job'[c].at = "done"
  BY <1>1, <1>2 DEF Salvage, Store
<1>3. CASE BeginSync(c)
  <2>1. CASE job' = [job EXCEPT ![c] =
              [NoJob EXCEPT !.at = "fetch", !.start = StartDate(c), !.to = now]]
    BY <1>0, <2>1 DEF NoJob
  <2> QED BY <1>1, <1>3, <2>1 DEF BeginSync
<1>4. CASE FetchPage(c)
  <2> DEFINE page == Page(c, job[c].to)
             new == {d \in page : d * DayLength >= job[c].start}
             rows == job[c].rows \cup new
             open == job[c].open \cup (new \cap {Today})
             next == Min(new) * DayLength - 1
  <2>1. \/ EndJob(c)
        \/ job' = [job EXCEPT ![c].rows = rows, ![c].open = open,
                              ![c].to = next, ![c].tries = 0]
    BY <1>4 DEF FetchPage, Store
  <2> HIDE DEF rows, open, next
  <2>2. CASE job' = [job EXCEPT ![c].rows = rows, ![c].open = open,
                                ![c].to = next, ![c].tries = 0]
    <3>1. job'[c].at = job[c].at
      BY <1>0, <2>2 DEF Jobs
    <3> QED BY <3>1
  <2> QED BY <1>1, <2>1, <2>2
<1>5. CASE FetchError(c)
  BY <1>2, <1>5 DEF FetchError
<1>6. CASE FetchTimeout(c)
  <2>1. CASE job' = [job EXCEPT ![c].spent = @ + ApiTimeout, ![c].tries = @ + 1]
    BY <1>0, <2>1 DEF Jobs
  <2> QED BY <1>2, <1>6, <2>1 DEF FetchTimeout
<1>7. CASE CoinTimeout(c)
  BY <1>1, <1>7 DEF CoinTimeout
<1> QED BY <1>3, <1>4, <1>5, <1>6, <1>7 DEF SyncStep

\* Of an interrupted sync the pages that came are stored, which tears the history.
LEMMA SalvageSound ==
    ASSUME TypeOK, NEW c \in Coins, CoinSound(c), job[c].at = "fetch", Salvage(c),
           hit' = hit \cup {c}, UNCHANGED <<now, broken, stage, scanStart>>
    PROVE  CoinSound(c)'
<1>1. job \in [Coins -> Jobs] /\ file \in [Coins -> SUBSET Days]
  BY DEF TypeOK, SyncTypeOK
<1>2. job'[c].at = "done"
  BY <1>1 DEF Salvage, Store, EndJob, NoJob
<1>3. CASE job[c].rows = {}
  <2>1. file'[c] = file[c] /\ torn' = torn
    BY <1>1, <1>3 DEF Salvage, Store
  <2> QED BY <1>2, <2>1, CoinEnds
<1>4. CASE job[c].rows # {}
  <2>1. file'[c] = Kept(file[c] \cup job[c].rows) /\ c \in torn'
    BY <1>1, <1>4 DEF Salvage, Store
  <2>2. PICK x, y \in Int : RowsAre(c, x, y)
    BY <1>4 DEF CoinSound, RowsFit
  <2>3. \A d \in job[c].rows : d >= Listed[c]
    BY <2>2, SyncAssumption DEF RowsAre
  <2>4. \A d \in file'[c] : d >= Listed[c]
    BY <2>1, <2>3 DEF Kept, CoinSound, FileSound
  <2> QED BY <1>2, <2>1, <2>4 DEF CoinSound, FileSound
<1> QED BY <1>3, <1>4

\* The five steps of a coin keep its file and its sync sound.
LEMMA StepSound ==
    ASSUME TypeOK, scanStart \in Nat, stage = "sync", scanStart <= now, now >= FirstTime,
           NEW c \in Coins, CoinSound(c), SyncStep(c), UNCHANGED scanVars
    PROVE  CoinSound(c)'
<1>0. /\ job \in [Coins -> Jobs] /\ file \in [Coins -> SUBSET Days] /\ now \in Int
      /\ UNCHANGED <<stage, scanStart>>
  BY SyncAssumption DEF TypeOK, SyncTypeOK, scanVars
<1>1. CASE BeginSync(c)
  <2>1. UNCHANGED <<now, file, broken, torn, hit>>
    BY <1>1 DEF BeginSync
  <2>2. /\ StartDate(c) \in Int /\ StartDate(c) >= 0
        /\ \A d \in file[c] : (d + 1) * DayLength <= StartDate(c)
        /\ IF file[c] = {} THEN StartDate(c) + Window * DayLength = now
           ELSE \E d \in file[c] : (d + 1) * DayLength = StartDate(c)
    BY StartIsInt
  <2>3. CASE c \in broken \/ StartDate(c) >= now
    <3>1. job'[c].at = "done"
      BY <1>0, <1>1, <2>3 DEF BeginSync, EndJob, NoJob
    <3>2. StartDate(c) >= now => Current(c)
      BY <1>0, <2>2 DEF Current
    <3> QED BY <1>0, <2>1, <2>3, <3>1, <3>2, CoinEnds
  <2>4. CASE ~(c \in broken \/ StartDate(c) >= now)
    <3>1. job' = [job EXCEPT ![c] = [NoJob EXCEPT !.at = "fetch", !.start = StartDate(c), !.to = now]]
      BY <1>1, <2>4 DEF BeginSync
    <3>2. /\ job'[c].at = "fetch" /\ job'[c].start = StartDate(c) /\ job'[c].to = now
          /\ job'[c].rows = {}
      BY <1>0, <3>1 DEF NoJob
    <3>3. StartFits(c)'
      BY <1>0, <2>1, <2>2, <2>4, <3>2, Spans DEF StartFits
    <3>4. RowsFit(c)'
      BY <1>0, <2>1, <3>2 DEF RowsFit
    <3>5. FileSound(c)'
      BY <1>0, <2>1 DEF CoinSound, FileSound, Reaches, Late
    <3> QED BY <3>2, <3>3, <3>4, <3>5 DEF CoinSound
  <2> QED BY <2>3, <2>4
<1>2. CASE FetchPage(c)
  BY <1>2, PageSound
<1>3. CASE FetchError(c)
  BY <1>0, <1>3, SalvageSound DEF FetchError, Fault
<1>4. CASE FetchTimeout(c)
  <2>1. job[c].at = "fetch" /\ hit' = hit \cup {c} /\ UNCHANGED <<now, broken>>
    BY <1>4 DEF FetchTimeout, Fault
  <2>2. CASE Salvage(c)
    BY <1>0, <2>1, <2>2, SalvageSound
  <2>3. CASE /\ job' = [job EXCEPT ![c].spent = @ + ApiTimeout, ![c].tries = @ + 1]
             /\ UNCHANGED <<file, unfinished, torn>>
    <3>1. /\ job'[c].at = job[c].at /\ job'[c].start = job[c].start
          /\ job'[c].to = job[c].to /\ job'[c].rows = job[c].rows
      BY <1>0, <2>3 DEF Jobs
    <3> QED BY <1>0, <2>1, <2>3, <3>1
            DEF CoinSound, FileSound, Reaches, Late, StartFits, RowsFit, RowsAre
  <2> QED BY <1>4, <2>2, <2>3 DEF FetchTimeout
<1>5. CASE CoinTimeout(c)
  <2>1. job'[c].at = "done" /\ c \in hit' /\ hit \subseteq hit' /\ UNCHANGED <<now, broken, file, torn>>
    BY <1>0, <1>5 DEF CoinTimeout, Fault, EndJob, NoJob
  <2> QED BY <1>0, <2>1, CoinEnds
<1> QED BY <1>1, <1>2, <1>3, <1>4, <1>5 DEF SyncStep

-----------------------------------------------------------------------------
(* The steps of a scan.                                                    *)

\* Without a sync, only the file counts; a scan that begins now finds it sound.
LEMMA QuietSound ==
    ASSUME NEW c \in Coins, CoinSound(c), UNCHANGED <<now, file, torn>>,
           job'[c].at \in {"idle", "wait"},
           \/ stage' = "idle"
           \/ stage # "idle" /\ scanStart' = scanStart
           \/ scanStart' = now
    PROVE  CoinSound(c)'
BY DEF CoinSound, FileSound, Reaches, Late

LEMMA SyncNextIInv ==
    ASSUME IInv, SyncNext
    PROVE  IInv'
<1>0. /\ UNCHANGED scanVars
      /\ UNCHANGED <<stage, held, exclude, coins, chosen, ticker, fallback, scanStart, scans>>
  BY DEF SyncNext, scanVars
<1> USE DEF IInv
<1>1. ASSUME NEW c \in Coins, SyncStep(c) PROVE IInv'
  <2>1. job[c].at \in {"wait", "fetch"} /\ stage = "sync"
    <3>1. job[c].at \in {"wait", "fetch"}
      BY <1>1 DEF SyncStep, BeginSync, FetchPage, FetchError, FetchTimeout, CoinTimeout
    <3> QED BY <3>1 DEF Shape, NoJob
  <2>2. now >= FirstTime /\ scanStart <= now /\ scanStart \in Nat
    BY <2>1 DEF Shape
  <2>3. SyncTypeOK'
    BY <1>1, <2>2, StoreTypesAll
  <2>4. TypeOK'
    BY <1>0, <2>3 DEF TypeOK
  <2>5. SyncSound'
    <3> SUFFICES ASSUME NEW k \in Coins PROVE CoinSound(k)'
      BY DEF SyncSound
    <3>1. CoinSound(k) /\ CoinSound(c)
      BY DEF SyncSound
    <3>2. CASE k = c
      BY <1>0, <1>1, <2>1, <2>2, <3>1, <3>2, StepSound
    <3>3. CASE k # c
      BY <1>0, <1>1, <3>1, <3>3, OtherCoins, CoinStill
    <3> QED BY <3>2, <3>3
  <2>6. \A k \in Coins : job'[k].at = "idle" <=> job[k].at = "idle"
    <3> TAKE k \in Coins
    <3>1. CASE k # c
      BY <1>1, <3>1, OtherCoins
    <3>2. CASE k = c
      <4>2. job'[c].at # "idle"
        BY <1>1, <2>1, StepNotIdle
      <4> QED BY <2>1, <3>2, <4>2
    <3> QED BY <3>1, <3>2
  <2>7. now' = now
    BY <1>1 DEF SyncStep, BeginSync, FetchPage, FetchError, FetchTimeout, CoinTimeout
  <2>8. Shape'
    BY <1>0, <2>1, <2>6, <2>7 DEF Shape
  <2>9. chosen' = <<>>
    BY <1>0, <2>1 DEF Shape
  <2>10. DOMAIN chosen' = {}
    BY <2>9
  <2>11. ChosenPassedAllGates' /\ ChosenOnFreshData'
    BY <2>10 DEF ChosenPassedAllGates, ChosenOnFreshData
  <2> QED BY <2>4, <2>5, <2>8, <2>11
<1>2. CASE SyncAllTimeout
  <2>0. \E c \in Coins : job[c].at \in {"wait", "fetch"}
    BY <1>2 DEF SyncAllTimeout, SyncDone, TypeOK, SyncTypeOK, Jobs, Phases
  <2>1. stage = "sync"
    BY <2>0 DEF Shape, NoJob
  <2>2. TypeOK'
    <3>1. job' \in [Coins -> Jobs]
      BY <1>2, EndedJob DEF SyncAllTimeout
    <3>2. faults' \in 0 .. MaxFaults
      BY <1>2, SyncAssumption DEF SyncAllTimeout, TypeOK, SyncTypeOK
    <3> QED BY <1>0, <1>2, <3>1, <3>2 DEF SyncAllTimeout, TypeOK, SyncTypeOK
  <2>3. \A k \in Coins : job'[k] = IF job[k].at = "idle" THEN NoJob ELSE [NoJob EXCEPT !.at = "done"]
    BY <1>2 DEF SyncAllTimeout
  <2>4. SyncSound'
    <3> SUFFICES ASSUME NEW k \in Coins PROVE CoinSound(k)'
      BY DEF SyncSound
    <3>1. CoinSound(k) /\ UNCHANGED <<now, file, broken, torn>>
      BY <1>2 DEF SyncSound, SyncAllTimeout
    <3>2. CASE job[k].at = "idle"
      BY <1>0, <2>1, <2>3, <3>1, <3>2, QuietSound DEF NoJob
    <3>3. CASE job[k].at \in {"wait", "fetch"}
      <4>1. job'[k].at = "done" /\ k \in hit' /\ hit \subseteq hit'
        BY <1>2, <2>3, <3>3 DEF SyncAllTimeout, NoJob
      <4> QED BY <1>0, <3>1, <4>1, CoinEnds
    <3>4. CASE job[k].at = "done"
      <4>1. job'[k].at = "done" /\ hit \subseteq hit'
        BY <1>2, <2>3, <3>4 DEF SyncAllTimeout, NoJob
      <4>2. k \in hit' \cup broken \/ Current(k)
        BY <3>1, <3>4, <4>1 DEF CoinSound
      <4> QED BY <1>0, <3>1, <4>1, <4>2, CoinEnds
    <3> QED BY <3>2, <3>3, <3>4 DEF TypeOK, SyncTypeOK, Jobs, Phases
  <2>5. Shape'
    <3>1. \A k \in Coins : job'[k].at = "idle" <=> job[k].at = "idle"
      BY <2>3 DEF NoJob
    <3> QED BY <1>0, <1>2, <2>1, <3>1 DEF Shape, SyncAllTimeout
  <2>6. DOMAIN chosen' = {}
    BY <1>0, <2>1 DEF Shape
  <2>7. ChosenPassedAllGates' /\ ChosenOnFreshData'
    BY <2>6 DEF ChosenPassedAllGates, ChosenOnFreshData
  <2> QED BY <2>2, <2>4, <2>5, <2>7
<1>3. CASE Tick
  <2>1. UNCHANGED <<file, unfinished, broken, job, torn, hit, faults>> /\ now' = now + 1
        /\ now' \in 0 .. MaxTime /\ now \in Int
    BY <1>3, SyncAssumption DEF Tick, TypeOK, SyncTypeOK
  <2>2. TypeOK'
    BY <1>0, <2>1 DEF TypeOK, SyncTypeOK
  <2>3. SyncSound'
    <3> SUFFICES ASSUME NEW c \in Coins PROVE CoinSound(c)'
      BY DEF SyncSound
    <3>1. CoinSound(c)
      BY DEF SyncSound
    <3>2. \A d \in file[c] : d * DayLength \in Int
      BY DaysAre, DayOrder DEF TypeOK, SyncTypeOK
    <3>3. Reaches(c, now) => Reaches(c, now)'
      BY <2>1, <3>2 DEF Reaches
    <3>4. Late => Late'
      <4>1. scanStart + ScanTimeout \in Int
        BY SelectionAssumption DEF Shape
      <4> QED BY <1>0, <2>1, <4>1 DEF Late
    <3>5. FileSound(c)'
      BY <1>0, <2>1, <3>1, <3>3, <3>4 DEF CoinSound, FileSound, Reaches
    <3>6. job[c].at = "fetch" => StartFits(c)'
      <4>1. job[c].to \in Int /\ job[c].start \in Int /\ Window * DayLength \in Int
        BY JobFields, Spans
      <4> QED BY <2>1, <3>1, <4>1 DEF CoinSound, StartFits
    <3>7. job[c].at = "fetch" => RowsFit(c)'
      BY <1>0, <2>1, <3>1 DEF CoinSound, RowsFit, RowsAre
    <3> QED BY <1>0, <2>1, <3>1, <3>5, <3>6, <3>7 DEF CoinSound, Current
  <2>4. Shape'
    BY <1>0, <2>1, SyncAssumption DEF Shape
  <2>5. ChosenPassedAllGates' /\ ChosenOnFreshData'
    BY <1>0, <2>1 DEF ChosenPassedAllGates, ChosenOnFreshData, Loaded, ScanDay
  <2> QED BY <2>2, <2>3, <2>4, <2>5
<1> QED BY <1>1, <1>2, <1>3 DEF SyncNext
\* The coins of a scan are traded and not held, each of a sector of its own.
LEMMA ListedCoins ==
    ASSUME now \in Int, NEW top \in ScanTopCoins
    PROVE  LET free == {c \in Coins : c \notin held /\ Listed[c] * DayLength < now}
               list == SelectDiversified(At(top, {i \in DOMAIN top : top[i] \notin held}))
           IN /\ list \in Seq(free)
              /\ \A i, j \in DOMAIN list : i # j => Sector[list[i]] # Sector[list[j]]
<1> DEFINE traded == {c \in Coins : Listed[c] * DayLength < now}
           free == {c \in Coins : c \notin held /\ Listed[c] * DayLength < now}
           places == {i \in DOMAIN top : top[i] \notin held}
           rest == At(top, places)
           list == SelectDiversified(rest)
<1>1. top \in Seq(Coins) /\ \A i \in DOMAIN top : top[i] \in traded
  <2>1. PICK n \in 0 .. TopN : top \in [1 .. n -> traded]
    BY DEF ScanTopCoins
  <2>2. n \in Nat
    BY <2>1, SelectionAssumption
  <2> QED BY <2>1, <2>2
<1>2. places \subseteq DOMAIN top /\ \A i \in places : top[i] \in free
  BY <1>1
<1>3. rest = At(top, {i \in DOMAIN top : top[i] \notin held})
  OBVIOUS
<1> HIDE DEF places
<1>4. DrawnFrom(rest, top, places, Coins)
  BY <1>1, <1>2, AtDraws
<1> HIDE DEF rest, free
<1>5. rest \in Seq(free) /\ rest \in Seq(Coins)
  BY <1>2, <1>4, DrawnElements DEF DrawnFrom
<1>6. /\ DrawnFrom(list, rest, DOMAIN rest, Coins)
      /\ \A i, j \in DOMAIN list : i # j => Sector[list[i]] # Sector[list[j]]
  BY <1>5, DiversifiedDraws
<1>7. list \in Seq(free)
  <2>1. \A i \in DOMAIN rest : rest[i] \in free
    BY <1>5
  <2> HIDE DEF list
  <2> QED BY <1>6, <2>1, DrawnElements
<1> QED BY <1>3, <1>6, <1>7 DEF free

LEMMA ScanLiquidityIInv ==
    ASSUME IInv, ScanLiquidity
    PROVE  IInv'
<1> USE DEF IInv
<1> DEFINE free == {c \in Coins : c \notin held /\ Listed[c] * DayLength < now}
<1>1. now \in Nat /\ held \subseteq Coins /\ stage = "idle"
  BY SyncAssumption DEF ScanLiquidity, TypeOK, SyncTypeOK
<1>2. /\ stage' = "sync" /\ exclude' = held /\ scanStart' = now /\ hit' = {}
      /\ UNCHANGED <<now, file, unfinished, broken, torn, faults, held, chosen, ticker, fallback>>
  BY DEF ScanLiquidity
<1>3. PICK list \in Seq(free) :
        /\ \A i, j \in DOMAIN list : i # j => Sector[list[i]] # Sector[list[j]]
        /\ coins' = list
        /\ job' = [c \in Coins |-> IF Contains(list, c) THEN [NoJob EXCEPT !.at = "wait"] ELSE NoJob]
  <2>1. PICK top \in ScanTopCoins :
          LET list == SelectDiversified(At(top, {i \in DOMAIN top : top[i] \notin held}))
          IN /\ coins' = list
             /\ job' = [c \in Coins |-> IF Contains(list, c) THEN [NoJob EXCEPT !.at = "wait"] ELSE NoJob]
    BY DEF ScanLiquidity, Where
  <2> DEFINE new == SelectDiversified(At(top, {i \in DOMAIN top : top[i] \notin held}))
  <2>2. new \in Seq(free) /\ \A i, j \in DOMAIN new : i # j => Sector[new[i]] # Sector[new[j]]
    BY <1>1, ListedCoins
  <2>3. /\ coins' = new
        /\ job' = [c \in Coins |-> IF Contains(new, c) THEN [NoJob EXCEPT !.at = "wait"] ELSE NoJob]
    BY <2>1
  <2> HIDE DEF free, new
  <2> QED BY <2>2, <2>3
<1>4. /\ list \in Seq(Coins) /\ \A i \in DOMAIN list : list[i] \in free
      /\ ToSet(list) \subseteq free /\ \A c : Contains(list, c) <=> c \in ToSet(list)
  <2>1. DOMAIN list = 1 .. Len(list) /\ \A i \in DOMAIN list : list[i] \in free
    BY <1>3
  <2>2. list \in Seq(Coins)
    <3>1. Len(list) \in Nat /\ list = [i \in 1 .. Len(list) |-> list[i]]
      BY <1>3
    <3> QED BY <2>1, <3>1
  <2> QED BY <2>1, <2>2 DEF ToSet, Contains
<1> HIDE DEF free
<1>5. chosen' = <<>> /\ ticker' = NoCoin /\ DOMAIN chosen' = {}
  BY <1>1, <1>2 DEF Shape
<1>6. \A c \in Coins : job'[c].at = IF c \in ToSet(list) THEN "wait" ELSE "idle"
  BY <1>3, <1>4 DEF NoJob
<1>7. TypeOK'
  <2>1. job' \in [Coins -> Jobs]
    BY <1>3, EndedJob
  <2>2. SyncTypeOK'
    BY <1>2, <2>1 DEF TypeOK, SyncTypeOK
  <2> QED BY <1>1, <1>2, <1>3, <1>4, <1>5, <2>2 DEF TypeOK, Stages
<1>8. Shape'
  <2>1. exclude' \cap ToSet(coins') = {} /\ \A c \in ToSet(coins') : Listed[c] * DayLength < scanStart'
    BY <1>2, <1>3, <1>4 DEF free
  <2>2. \A c \in Coins : job'[c].at = "idle" <=> c \notin ToSet(coins')
    BY <1>3, <1>6
  <2>3. now' >= FirstTime /\ fallback' \in BOOLEAN /\ scanStart' <= now' /\ scanStart' \in Nat
    BY <1>1, <1>2 DEF Shape
  <2>4. \A i, j \in DOMAIN coins' : i # j => Sector[coins'[i]] # Sector[coins'[j]]
    BY <1>3
  <2> QED BY <1>2, <1>5, <2>1, <2>2, <2>3, <2>4 DEF Shape
<1>9. SyncSound'
  <2> SUFFICES ASSUME NEW c \in Coins PROVE CoinSound(c)'
    BY DEF SyncSound
  <2>1. CoinSound(c) /\ job'[c].at \in {"idle", "wait"}
    BY <1>6 DEF SyncSound
  <2> QED BY <1>2, <2>1, QuietSound
<1> QED BY <1>5, <1>7, <1>8, <1>9 DEF ChosenPassedAllGates, ChosenOnFreshData

\* A coin that no fault concerned was backtested on a history with the day of the scan.
LEMMA BacktestedFresh ==
    ASSUME IInv, stage = "sync", SyncDone, ~Late, NEW c \in Coins, c \in ToSet(coins),
           c \notin hit \cup torn, Loaded(c) # {}
    PROVE  ScanDay \in Loaded(c)
<1>1. job[c].at = "done" /\ CoinSound(c)
  BY DEF IInv, Shape, SyncDone, SyncSound
<1>2. c \notin broken /\ Loaded(c) = file[c] /\ file[c] # {}
  BY DEF Loaded
<1>3. PICK d \in file[c] : (d + 1) * DayLength >= scanStart
  BY <1>1, <1>2 DEF CoinSound, Current
<1>4. PICK e \in file[c] : e = Listed[c] \/ e * DayLength < scanStart
  BY <1>1, <1>2 DEF CoinSound, FileSound, Reaches
<1>5. PICK a, b \in Int : file[c] = a .. b
  BY <1>1, <1>2 DEF CoinSound, FileSound, Unbroken
<1>6. e * DayLength < scanStart /\ scanStart \in Int
  BY <1>4 DEF IInv, Shape
<1>7. PICK q \in Int : /\ q = ScanDay
                       /\ q * DayLength <= scanStart - 1 /\ scanStart - 1 < (q + 1) * DayLength
  BY <1>6, DayOf, scanStart - 1 \in Int DEF ScanDay
<1>8. d \in Int /\ e \in Int /\ d + 1 \in Int /\ q + 1 \in Int
  BY <1>5, <1>7
<1>9. e < q + 1
  <2>1. e * DayLength \in Int /\ (q + 1) * DayLength \in Int
    BY <1>8, DayOrder
  <2>2. e * DayLength < (q + 1) * DayLength
    BY <1>6, <1>7, <2>1
  <2> QED BY <1>8, <2>2, DayOrder
<1>10. q < d + 1
  <2>1. q * DayLength \in Int /\ (d + 1) * DayLength \in Int
    BY <1>8, DayOrder
  <2>2. q * DayLength < (d + 1) * DayLength
    BY <1>3, <1>6, <1>7, <2>1
  <2> QED BY <1>8, <2>2, DayOrder
<1>11. q \in a .. b
  BY <1>3, <1>4, <1>5, <1>8, <1>9, <1>10
<1> QED BY <1>2, <1>5, <1>7, <1>11

\* What a backtest can give, and what a passed one says.
LEMMA OutcomesAre ==
    ASSUME TypeOK, NEW c \in Coins, NEW r \in Outcomes(c)
    PROVE  /\ r \in Results /\ r.coin = c
           /\ r.passed /\ r.trading =>
                /\ Loaded(c) # {} /\ Cardinality(Loaded(c)) >= MinRows
                /\ \E m \in Metrics : /\ r.score = Score(m)
                                      /\ CheckFilters(m, ResearchPass) /\ EvaluateTradingPass(m)
<1>1. CASE r = NoResult(c)
  BY <1>1 DEF NoResult, Results
<1>2. CASE r # NoResult(c)
  <2>1. Cardinality(Loaded(c)) \in Nat
    <3>1. file[c] \subseteq Days
      BY JobFields
    <3>2. Loaded(c) \subseteq Days
      BY <3>1 DEF Loaded
    <3>3. IsFiniteSet(Days)
      BY DaysAre, FS_Interval
    <3> QED BY <3>2, <3>3, FS_Subset, FS_CardinalityType
  <2>2. ~(Cardinality(Loaded(c)) < MinRows)
    BY <1>2 DEF Outcomes
  <2>3. MinRows \in Nat /\ MinRows > 0
    BY SelectionAssumption
  <2>4. Cardinality(Loaded(c)) >= MinRows
    BY <2>1, <2>2, <2>3
  <2>5. Loaded(c) # {}
    <3>1. Cardinality({}) = 0
      BY FS_EmptySet
    <3> QED BY <2>3, <2>4, <3>1
  <2>6. PICK m \in Metrics : r = BacktestResult(c, m)
    BY <1>2, <2>2 DEF Outcomes
  <2> DEFINE passed == CheckFilters(m, ResearchPass)
             trading == EvaluateTradingPass(m)
  <2>7. passed \in BOOLEAN /\ trading \in BOOLEAN
    BY DEF CheckFilters, EvaluateTradingPass
  <2>8. Grade(Score(m), passed) \in {"FAIL", "STRONG PASS", "WEAK PASS"} /\ Score(m) \in Int
    BY ScoreInt DEF Grade
  <2>9. r = [coin |-> c, passed |-> passed, score |-> Score(m), grade |-> Grade(Score(m), passed),
             trading |-> trading]
    BY <2>6 DEF BacktestResult
  <2> HIDE DEF passed, trading
  <2>10. r \in Results /\ r.coin = c /\ r.passed = passed /\ r.trading = trading /\ r.score = Score(m)
    BY <2>7, <2>8, <2>9 DEF Results
  <2> QED BY <2>4, <2>5, <2>10 DEF passed, trading
<1> QED BY <1>1, <1>2

\* The end of a scan or of a cycle.
LEMMA SkipIInv ==
    ASSUME IInv, Skip, UNCHANGED <<now, file, unfinished, torn, hit>>,
           job' = [c \in Coins |-> NoJob], broken' \subseteq Coins, held' \subseteq Coins,
           faults' \in 0 .. MaxFaults
    PROVE  IInv'
<1> USE DEF IInv
<1>1. job' \in [Coins -> Jobs] /\ \A c \in Coins : job'[c].at = "idle"
  BY EndedJob DEF NoJob
<1>2. /\ stage' = "idle" /\ exclude' = {} /\ coins' = <<>> /\ chosen' = <<>> /\ scanStart' = 0
      /\ ticker' = NoCoin /\ fallback' = FALSE
  BY DEF Skip
<1>3. DOMAIN coins' = {} /\ DOMAIN chosen' = {} /\ ToSet(coins') = {} /\ coins' \in Seq(Coins)
  BY <1>2 DEF ToSet
<1>4. TypeOK'
  BY <1>1, <1>2, <1>3 DEF TypeOK, SyncTypeOK, Stages
<1>5. Shape'
  BY <1>2, <1>3 DEF Shape
<1>6. SyncSound'
  <2> SUFFICES ASSUME NEW c \in Coins PROVE CoinSound(c)'
    BY DEF SyncSound
  <2>1. CoinSound(c)
    BY DEF SyncSound
  <2> QED BY <1>1, <1>2, <2>1, QuietSound
<1> QED BY <1>3, <1>4, <1>5, <1>6 DEF ChosenPassedAllGates, ChosenOnFreshData
LEMMA BacktestIInv ==
    ASSUME IInv, Backtest
    PROVE  IInv'
<1> USE DEF IInv
<1>1. /\ stage = "sync" /\ SyncDone /\ ~Late
      /\ job' = [c \in Coins |-> NoJob]
      /\ UNCHANGED <<now, file, unfinished, broken, torn, hit, faults, held, scans>>
  BY DEF Backtest, ClearJobs
<1>2. PICK res \in [DOMAIN coins -> UNION {Outcomes(c) : c \in ToSet(coins)}] :
        /\ \A i \in DOMAIN coins : res[i] \in Outcomes(coins[i])
        /\ LET final == SelectFinal(res)
           IN IF final = <<>> THEN Skip
              ELSE /\ stage' = "picked" /\ chosen' = final
                   /\ ticker' = Head(final).coin
                   /\ UNCHANGED <<exclude, coins, fallback, scanStart>>
  BY DEF Backtest
<1> DEFINE final == SelectFinal(res)
<1>3. coins \in Seq(Coins) /\ DOMAIN res = DOMAIN coins
      /\ \A i \in DOMAIN coins : coins[i] \in ToSet(coins) /\ coins[i] \in Coins
  BY <1>2 DEF TypeOK, ToSet
<1>4. res \in Seq(Results)
  <2>1. DOMAIN coins = 1 .. Len(coins) /\ Len(coins) \in Nat
    BY <1>3
  <2>2. \A i \in DOMAIN coins : res[i] \in Results
    BY <1>2, <1>3, OutcomesAre
  <2> QED BY <1>2, <2>1, <2>2
<1>5. DrawnFrom(final, res, DOMAIN res, {r \in Results : r.passed /\ r.trading})
  BY <1>4, FinalDraws
<1> HIDE DEF final
<1>6. PICK f \in [DOMAIN final -> DOMAIN coins] :
        /\ \A k, l \in DOMAIN final : f[k] = f[l] => k = l
        /\ \A k \in DOMAIN final : final[k] = res[f[k]]
  BY <1>3, <1>5 DEF DrawnFrom
<1>7. final \in Seq({r \in Results : r.passed /\ r.trading})
  BY <1>5 DEF DrawnFrom
<1>8. \A k \in DOMAIN final :
        /\ final[k] \in Outcomes(coins[f[k]]) /\ final[k].passed /\ final[k].trading
        /\ coins[f[k]] \in Coins /\ coins[f[k]] \in ToSet(coins)
  BY <1>2, <1>3, <1>6, <1>7
<1>9. \A k \in DOMAIN final :
        /\ final[k].coin = coins[f[k]]
        /\ Loaded(coins[f[k]]) # {} /\ Cardinality(Loaded(coins[f[k]])) >= MinRows
        /\ \E m \in Metrics : /\ final[k].score = Score(m)
                              /\ CheckFilters(m, ResearchPass) /\ EvaluateTradingPass(m)
  BY <1>8, OutcomesAre
<1>10. CASE final = <<>>
  <2>1. Skip
    BY <1>2, <1>10 DEF final
  <2>2. broken' \subseteq Coins /\ held' \subseteq Coins /\ faults' \in 0 .. MaxFaults
    BY <1>1 DEF TypeOK, SyncTypeOK
  <2> QED BY <1>1, <2>1, <2>2, SkipIInv
<1>11. CASE final # <<>>
  <2>1. /\ stage' = "picked" /\ chosen' = final /\ ticker' = Head(final).coin
        /\ UNCHANGED <<exclude, coins, fallback, scanStart>>
    BY <1>2, <1>11 DEF final
  <2>2. 1 \in DOMAIN final /\ Head(final) = final[1]
    BY <1>7, <1>11
  <2>3. ticker' = coins[f[1]] /\ ticker' \in Coins /\ ticker' \in ToSet(coins)
    BY <1>8, <1>9, <2>1, <2>2
  <2>4. job' \in [Coins -> Jobs] /\ \A c \in Coins : job'[c] = NoJob /\ job'[c].at = "idle"
    BY <1>1, EndedJob DEF NoJob
  <2>5. TypeOK'
    <3>1. SyncTypeOK'
      BY <1>1, <2>4 DEF TypeOK, SyncTypeOK
    <3>2. \A i \in DOMAIN chosen' : chosen'[i].coin \in ToSet(coins')
      BY <1>8, <1>9, <2>1
    <3> QED BY <1>1, <2>1, <2>3, <3>1, <3>2 DEF TypeOK, Stages
  <2>6. Shape'
    BY <1>1, <2>1, <2>3, <2>4, SelectionAssumption DEF Shape
  <2>7. SyncSound'
    <3> SUFFICES ASSUME NEW c \in Coins PROVE CoinSound(c)'
      BY DEF SyncSound
    <3>1. CoinSound(c)
      BY DEF SyncSound
    <3> QED BY <1>1, <2>1, <2>4, <3>1, QuietSound
  <2>8. ChosenPassedAllGates'
    <3> SUFFICES ASSUME NEW i \in DOMAIN final
                 PROVE  LET c == coins[f[i]]
                        IN /\ c \notin exclude
                           /\ \A j \in DOMAIN final : i # j => Sector[c] # Sector[coins[f[j]]]
                           /\ Cardinality(Loaded(c)) >= MinRows
                           /\ \E m \in Metrics : /\ final[i].score = Score(m)
                                                 /\ CheckFilters(m, ResearchPass) /\ EvaluateTradingPass(m)
      BY <1>1, <1>9, <2>1 DEF ChosenPassedAllGates, Loaded
    <3>1. coins[f[i]] \notin exclude
      BY <1>8 DEF Shape
    <3>2. \A j \in DOMAIN final : i # j => Sector[coins[f[i]]] # Sector[coins[f[j]]]
      BY <1>6 DEF Shape
    <3> QED BY <1>9, <3>1, <3>2
  <2>9. ChosenOnFreshData'
    <3> SUFFICES ASSUME NEW i \in DOMAIN final, coins[f[i]] \notin hit \cup torn
                 PROVE  ScanDay \in Loaded(coins[f[i]])
      BY <1>1, <1>9, <2>1 DEF ChosenOnFreshData, Loaded, ScanDay
    <3> QED BY <1>1, <1>8, <1>9, BacktestedFresh
  <2> QED BY <2>5, <2>6, <2>7, <2>8, <2>9
<1> QED BY <1>10, <1>11

LEMMA FallbackIInv ==
    ASSUME IInv, TakeFallback, faults' \in 0 .. MaxFaults
    PROVE  IInv'
<1> USE DEF IInv
<1>1. /\ stage = "sync" /\ stage' = "picked" /\ ticker' = FallbackCoin /\ fallback' = TRUE
      /\ job' = [c \in Coins |-> NoJob]
      /\ UNCHANGED <<now, file, unfinished, broken, torn, hit, held, exclude, coins, chosen, scanStart, scans>>
  BY DEF TakeFallback, ClearJobs
<1>2. job' \in [Coins -> Jobs] /\ \A c \in Coins : job'[c] = NoJob /\ job'[c].at = "idle"
  BY <1>1, EndedJob DEF NoJob
<1>3. DOMAIN chosen' = {}
  BY <1>1 DEF Shape
<1>4. TypeOK'
  <2>1. SyncTypeOK'
    BY <1>1, <1>2 DEF TypeOK, SyncTypeOK
  <2>2. FallbackCoin \in Coins
    BY SelectionAssumption
  <2> QED BY <1>1, <1>3, <2>1, <2>2 DEF TypeOK, Stages
<1>5. Shape'
  BY <1>1, <1>2, SelectionAssumption DEF Shape
<1>6. SyncSound'
  <2> SUFFICES ASSUME NEW c \in Coins PROVE CoinSound(c)'
    BY DEF SyncSound
  <2>1. CoinSound(c)
    BY DEF SyncSound
  <2> QED BY <1>1, <1>2, <2>1, QuietSound
<1> QED BY <1>3, <1>4, <1>5, <1>6 DEF ChosenPassedAllGates, ChosenOnFreshData

\* Only the coins of the account change, or nothing.
LEMMA StillIInv ==
    ASSUME IInv, UNCHANGED <<syncVars, stage, exclude, coins, chosen, ticker, fallback, scanStart>>,
           held' \subseteq Coins
    PROVE  IInv'
<1> USE DEF IInv, syncVars
<1>1. SyncTypeOK' /\ TypeOK'
  BY DEF TypeOK, SyncTypeOK
<1>2. Shape'
  BY DEF Shape
<1>3. SyncSound'
  <2> SUFFICES ASSUME NEW c \in Coins PROVE CoinSound(c)'
    BY DEF SyncSound
  <2>1. CoinSound(c)
    BY DEF SyncSound
  <2> QED BY <2>1 DEF CoinSound, FileSound, Reaches, Late, Current, StartFits, RowsFit, RowsAre
<1>4. ChosenPassedAllGates' /\ ChosenOnFreshData'
  BY DEF ChosenPassedAllGates, ChosenOnFreshData, Loaded, ScanDay
<1> QED BY <1>1, <1>2, <1>3, <1>4

LEMMA NextIInv == IInv /\ [Next]_vars => IInv'
<1> SUFFICES ASSUME IInv, [Next]_vars PROVE IInv'
  OBVIOUS
<1>0. /\ held \subseteq Coins /\ ticker \in Coins \cup {NoCoin}
      /\ broken \subseteq Coins /\ job \in [Coins -> Jobs]
      /\ faults \in 0 .. MaxFaults /\ MaxFaults \in Nat
  BY SyncAssumption DEF IInv, TypeOK, SyncTypeOK
<1>1. CASE SyncNext
  BY <1>1, SyncNextIInv
<1>2. CASE ScanLiquidity
  BY <1>2, ScanLiquidityIInv
<1>3. CASE Backtest
  BY <1>3, BacktestIInv
<1>4. CASE ScanFails \/ ScanLate
  BY <1>0, <1>4, FallbackIInv DEF ScanFails, ScanLate
<1>5. CASE Enter
  <2>1. Skip /\ UNCHANGED syncVars /\ stage = "picked" /\ held' \in {held, held \cup {ticker}}
    BY <1>5 DEF Enter
  <2>2. job' = [c \in Coins |-> NoJob]
    BY <1>0, <2>1 DEF IInv, Shape, syncVars
  <2>3. held' \subseteq Coins
    <3>1. ticker \in Coins
      BY <1>0, <2>1 DEF IInv, Shape
    <3> QED BY <1>0, <2>1, <3>1
  <2> QED BY <1>0, <2>1, <2>2, <2>3, SkipIInv DEF syncVars
<1>6. CASE SellCoin
  BY <1>0, <1>6, StillIInv DEF SellCoin
<1>7. CASE Crash
  <2>1. Skip /\ UNCHANGED <<now, file, unfinished, torn, hit, held, scans>>
    BY <1>7 DEF Crash
  <2>2. job' = [c \in Coins |-> NoJob]
    BY <1>7 DEF Crash, ClearJobs
  <2>3. broken' \subseteq Coins
    BY <1>0, <1>7 DEF Crash, Syncing
  <2>4. faults' \in 0 .. MaxFaults
    BY <1>0, <1>7 DEF Crash
  <2> QED BY <1>0, <2>1, <2>2, <2>3, <2>4, SkipIInv
<1>8. CASE UNCHANGED vars
  BY <1>0, <1>8, StillIInv DEF vars, scanVars
<1> QED BY <1>1, <1>2, <1>3, <1>4, <1>5, <1>6, <1>7, <1>8 DEF Next
LEMMA IInvAlways == Spec => []IInv
BY InitIInv, NextIInv, PTL DEF Spec

-----------------------------------------------------------------------------
\* The state of the scan and of its syncs keeps its types.
THEOREM SelectionTypeCorrect == Spec => []TypeOK
BY IInvAlways, PTL DEF IInv

\* The history of a coin has no hole, whatever the pages, windows and timeouts, as long
\* as no interrupted sync stored half of what it was to fetch.  (sync_coin_data,
\* _fetch_historical_data.)
THEOREM HistoryUnbrokenHolds == Spec => []HistoryUnbroken
<1>1. IInv => HistoryUnbroken
  BY UnbrokenIs DEF IInv, SyncSound, CoinSound, FileSound, HistoryUnbroken
<1> QED BY <1>1, IInvAlways, PTL

\* A scan chooses only coins that were not held when it began, one of a sector, that were
\* backtested on enough rows and passed both gates.  (select_coins.)
THEOREM ChosenPassedAllGatesHolds == Spec => []ChosenPassedAllGates
BY IInvAlways, PTL DEF IInv

\* A choice rests on a history with the day of the scan, unless a fault of the scan or a
\* page that an earlier one lost concerned the coin.  (sync_multiple_coins, load_data.)
THEOREM ChosenOnFreshDataHolds == Spec => []ChosenOnFreshData
BY IInvAlways, PTL DEF IInv

\* Only the fallback of a failed or late scan can be a coin that is held.
\* (_get_held_tickers, _handle_entry_mode.)
THEOREM HeldBoughtByFallbackHolds == Spec => []HeldBoughtByFallback
<1>1. IInv => HeldBoughtByFallback
  <2> SUFFICES ASSUME IInv, ticker \in exclude PROVE fallback
    BY DEF HeldBoughtByFallback
  <2>1. ticker # NoCoin
    BY SelectionAssumption DEF IInv, TypeOK
  <2> QED BY <2>1 DEF IInv, Shape
<1> QED BY <1>1, IInvAlways, PTL
=============================================================================
