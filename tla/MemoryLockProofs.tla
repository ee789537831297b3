-------------------------- MODULE MemoryLockProofs --------------------------
(***************************************************************************)
(* Proofs about MemoryLockAdapter, for any set of jobs and lock names.     *)
(***************************************************************************)
EXTENDS MemoryLockAdapter, TLAPS

LEMMA TypeStep == TypeOK /\ [Next]_vars => TypeOK'
<1> SUFFICES ASSUME TypeOK, [Next]_vars PROVE TypeOK'
  OBVIOUS
<1> USE DEF TypeOK, JobState, Move
<1>1. ASSUME NEW j \in Jobs, NEW n \in Names, CallAcquire(j, n) PROVE TypeOK'
  BY <1>1 DEF CallAcquire
<1>2. ASSUME NEW j \in Jobs, Acquire(j) PROVE TypeOK'
  BY <1>2 DEF Acquire
<1>3. ASSUME NEW j \in Jobs, Resume(j) PROVE TypeOK'
  <2>1. CASE Move(j, "acquired", "running")
    BY <1>3, <2>1 DEF Resume
  <2>2. CASE Move(j, "refused", "idle")
    BY <1>3, <2>2 DEF Resume
  <2> QED
    BY <1>3, <2>1, <2>2 DEF Resume
<1>4. ASSUME NEW j \in Jobs, CallRelease(j) PROVE TypeOK'
  BY <1>4 DEF CallRelease
<1>5. ASSUME NEW j \in Jobs, Release(j) PROVE TypeOK'
  BY <1>5 DEF Release
<1>6. CASE UNCHANGED vars
  BY <1>6 DEF vars
<1> QED
  BY <1>1, <1>2, <1>3, <1>4, <1>5, <1>6 DEF Next

(* The types are kept by every step.                                        *)
THEOREM TypeCorrect == Spec => []TypeOK
<1>1. Init => TypeOK
  BY DEF Init, TypeOK, JobState
<1> QED
  BY <1>1, TypeStep, PTL DEF Spec

-----------------------------------------------------------------------------
(* The effect of each step on the owners of a lock.                         *)

LEMMA AcquireOwners ==
  ASSUME TypeOK, LocksMatchOwners, NEW j \in Jobs, Acquire(j), NEW n \in Names
  PROVE  \/ UNCHANGED <<locks, Owners(n)>>
         \/ /\ n \notin locks /\ Owners(n) = {}
            /\ locks' = locks \cup {name[j]} /\ n = name[j]
            /\ Owners(n)' = {j}
         \/ /\ n # name[j]
            /\ locks' = locks \cup {name[j]}
            /\ UNCHANGED Owners(n)
<1>1. CASE name[j] \in locks
  BY <1>1 DEF Acquire, Move, Owners, TypeOK
<1>2. CASE name[j] \notin locks /\ n # name[j]
  BY <1>2 DEF Acquire, Move, Owners, TypeOK
<1>3. CASE name[j] \notin locks /\ n = name[j]
  <2>1. Owners(n) = {}
    BY <1>3 DEF LocksMatchOwners
  <2>2. Owners(n)' = Owners(n) \cup {j}
    BY <1>3 DEF Acquire, Move, Owners, TypeOK
  <2> QED
    BY <1>3, <2>1, <2>2 DEF Acquire
<1> QED
  BY <1>1, <1>2, <1>3

LEMMA ReleaseOwners ==
  ASSUME TypeOK, LocksMatchOwners, NEW j \in Jobs, Release(j), NEW n \in Names
  PROVE  \/ /\ n = name[j] /\ Owners(n) = {j}
            /\ locks' = locks \ {n} /\ Owners(n)' = {}
         \/ /\ n # name[j]
            /\ locks' = locks \ {name[j]}
            /\ UNCHANGED Owners(n)
<1>1. CASE n # name[j]
  BY <1>1 DEF Release, Move, Owners, TypeOK
<1>2. CASE n = name[j]
  <2>1. j \in Owners(n)
    BY <1>2 DEF Release, Move, Owners
  <2>2. Owners(n) = {j}
    BY <2>1 DEF LocksMatchOwners
  <2>3. Owners(n)' = Owners(n) \ {j}
    BY <1>2 DEF Release, Move, Owners, TypeOK
  <2> QED
    BY <1>2, <2>2, <2>3 DEF Release
<1> QED
  BY <1>1, <1>2

LEMMA OtherOwners ==
  ASSUME TypeOK, NEW j \in Jobs, NEW n \in Names,
         (\E m \in Names : CallAcquire(j, m)) \/ Resume(j) \/ CallRelease(j)
  PROVE  UNCHANGED <<locks, Owners(n)>>
<1>1. CASE \E m \in Names : CallAcquire(j, m)
  BY <1>1 DEF CallAcquire, Move, Owners, TypeOK
<1>2. CASE Resume(j)
  <2>1. CASE Move(j, "acquired", "running")
    BY <1>2, <2>1 DEF Resume, Move, Owners, TypeOK
  <2>2. CASE Move(j, "refused", "idle")
    BY <1>2, <2>2 DEF Resume, Move, Owners, TypeOK
  <2> QED
    BY <1>2, <2>1, <2>2 DEF Resume
<1>3. CASE CallRelease(j)
  BY <1>3 DEF CallRelease, Move, Owners, TypeOK
<1> QED
  BY <1>1, <1>2, <1>3

(* For each name a step changes set and owners together, or neither.        *)
LEMMA StepOwners ==
  ASSUME TypeOK, LocksMatchOwners, [Next]_vars, NEW n \in Names
  PROVE  \/ (n \in locks' <=> n \in locks) /\ UNCHANGED Owners(n)
         \/ /\ n \in locks' /\ Owners(n) = {}
            /\ \E j \in Jobs : Owners(n)' = {j}
         \/ /\ n \notin locks' /\ Owners(n)' = {}
            /\ \E j \in Jobs : Owners(n) = {j}
<1>1. ASSUME NEW j \in Jobs, Acquire(j)
      PROVE  \/ (n \in locks' <=> n \in locks) /\ UNCHANGED Owners(n)
             \/ n \in locks' /\ Owners(n) = {} /\ Owners(n)' = {j}
  BY <1>1, AcquireOwners
<1>2. ASSUME NEW j \in Jobs, Release(j)
      PROVE  \/ (n \in locks' <=> n \in locks) /\ UNCHANGED Owners(n)
             \/ n \notin locks' /\ Owners(n)' = {} /\ Owners(n) = {j}
  BY <1>2, ReleaseOwners
<1>3. ASSUME NEW j \in Jobs,
             (\E m \in Names : CallAcquire(j, m)) \/ Resume(j) \/ CallRelease(j)
      PROVE  (n \in locks' <=> n \in locks) /\ UNCHANGED Owners(n)
  BY <1>3, OtherOwners
<1>4. CASE UNCHANGED vars
  BY <1>4 DEF vars, Owners
<1> QED
  BY <1>1, <1>2, <1>3, <1>4 DEF Next

-----------------------------------------------------------------------------
LEMMA MatchStep ==
  TypeOK /\ LocksMatchOwners /\ [Next]_vars => LocksMatchOwners'
<1> SUFFICES ASSUME TypeOK, LocksMatchOwners, [Next]_vars, NEW n \in Names
             PROVE  /\ n \in locks' <=> Owners(n)' # {}
                    /\ \A i, j \in Owners(n)' : i = j
  BY DEF LocksMatchOwners
<1> QED
  BY StepOwners DEF LocksMatchOwners

LEMMA Invariant == Spec => [](TypeOK /\ LocksMatchOwners)
<1>1. Init => LocksMatchOwners
  BY DEF Init, LocksMatchOwners, Owners
<1> QED
  BY <1>1, TypeCorrect, MatchStep, PTL DEF Spec

(* A name is in the set exactly while one job owns it.                      *)
THEOREM LocksMatchOwnersHolds == Spec => []LocksMatchOwners
  BY Invariant, PTL

(* For every name, every step is a step of the lock LockPort promises.      *)
THEOREM PortImplemented == Spec => ImplementsPort
<1>1. Init => \A n \in Names : Port(n)!Init
  BY DEF Init, Port!Init, Owners
<1>2. TypeOK /\ LocksMatchOwners /\ [Next]_vars
        => [\A n \in Names : [Port(n)!Next]_(Owners(n))]_vars
  <2> SUFFICES ASSUME TypeOK, LocksMatchOwners, [Next]_vars, NEW n \in Names
               PROVE  Port(n)!Next \/ UNCHANGED Owners(n)
    OBVIOUS
  <2>1. CASE UNCHANGED Owners(n)
    BY <2>1
  <2>2. ASSUME NEW j \in Jobs, Owners(n) = {}, Owners(n)' = {j}
        PROVE  Port(n)!Next
    BY <2>2 DEF Port!Next, Port!Acquire
  <2>3. ASSUME NEW j \in Jobs, Owners(n) = {j}, Owners(n)' = {}
        PROVE  Port(n)!Next
    BY <2>3 DEF Port!Next, Port!Release
  <2> QED
    BY <2>1, <2>2, <2>3, StepOwners
<1> QED
  BY <1>1, <1>2, Invariant, PTL DEF Spec, ImplementsPort
=============================================================================
