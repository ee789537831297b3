------------------------- MODULE TradingCycleProofs -------------------------
(***************************************************************************)
(* Proofs about PostgresLockAdapter and about TradingCycle, which runs its *)
(* cycles under that lock: for any number of processes and of jobs that    *)
(* overlap through the re-entrant lock, any number and kind of faults and  *)
(* any number of grants, hours and manual runs.  The first part is about   *)
(* the lock alone and ends with the port it implements; the second takes   *)
(* the lock's invariants to the cycles.                                    *)
(***************************************************************************)
EXTENDS TradingCycle, FiniteSetTheorems, TLAPS

-----------------------------------------------------------------------------
(* Type correctness.                                                        *)

LEMMA TypeInit == Init => TypeOK
  BY ConstantsAssumption DEF Init, TypeOK, SessionState, JobState

(* Every step of the lock, of a job or of the environment keeps the types;  *)
(* the count of grants never goes below zero.                               *)
LEMMA TypeStep == TypeOK /\ [Next]_vars => TypeOK'
<1> SUFFICES ASSUME TypeOK, [Next]_vars PROVE TypeOK'
  OBVIOUS
<1> USE ConstantsAssumption DEF TypeOK, SessionState, JobState, Move, Fault
<1>1. ASSUME NEW p \in Processes, NEW j \in Jobs, Fire(p, j) PROVE TypeOK'
  BY <1>1 DEF Fire
<1>2. ASSUME NEW p \in Processes, NEW j \in Jobs, Grant(p, j) PROVE TypeOK'
  BY <1>2 DEF Grant
<1>3. ASSUME NEW p \in Processes, NEW j \in Jobs, Refuse(p, j) PROVE TypeOK'
  BY <1>3 DEF Refuse
<1>4. ASSUME NEW p \in Processes, NEW j \in Jobs, Enter(p, j) PROVE TypeOK'
  BY <1>4 DEF Enter
<1>5. ASSUME NEW p \in Processes, NEW j \in Jobs, CallRelease(p, j) PROVE TypeOK'
  BY <1>5 DEF CallRelease
<1>6. ASSUME NEW p \in Processes, NEW j \in Jobs, SkipRelease(p, j) PROVE TypeOK'
  BY <1>6 DEF SkipRelease
<1>7. ASSUME NEW p \in Processes, NEW j \in Jobs, Unlock(p, j) PROVE TypeOK'
  BY <1>7 DEF Unlock
<1>8. ASSUME NEW p \in Processes, NEW j \in Jobs, Discard(p, j) PROVE TypeOK'
  BY <1>8 DEF Discard
<1>9. ASSUME NEW p \in Processes, NEW j \in Jobs, Abort(p, j) PROVE TypeOK'
  <2>1. pc' \in [Processes -> [Jobs -> JobState]]
    <3>1. CASE Move(p, j, "asking", "idle")
      BY <3>1
    <3>2. CASE Move(p, j, "unlocking", "unlocked")
      BY <3>2
    <3> QED
      BY <1>9, <3>1, <3>2 DEF Abort
  <2>2. session' \in [Processes -> SessionState]
    BY <1>9 DEF Abort
  <2> QED
    BY <1>9, <2>1, <2>2 DEF Abort
<1>10. ASSUME NEW p \in Processes, LoseConnection(p) PROVE TypeOK'
  BY <1>10 DEF LoseConnection
<1>11. ASSUME NEW p \in Processes, Crash(p) PROVE TypeOK'
  BY <1>11 DEF Crash
<1>12. CASE UNCHANGED vars
  BY <1>12 DEF vars
<1> QED
  BY <1>1, <1>2, <1>3, <1>4, <1>5, <1>6, <1>7, <1>8, <1>9, <1>10, <1>11, <1>12
  DEF Next, JobStep

THEOREM TypeCorrect == Spec => []TypeOK
  BY TypeInit, TypeStep, PTL DEF Spec

-----------------------------------------------------------------------------
(* One session has the lock.                                                *)

LEMMA OneSessionInit == Init => OneSession
  BY DEF Init, OneSession

(* Only Grant adds a grant, and it looks at the grants of the others.       *)
LEMMA OneSessionStep == TypeOK /\ OneSession /\ [Next]_vars => OneSession'
<1> SUFFICES ASSUME TypeOK, OneSession, [Next]_vars PROVE OneSession'
  OBVIOUS
<1> USE DEF TypeOK, OneSession
<1>1. ASSUME NEW p \in Processes, NEW j \in Jobs, Grant(p, j) PROVE OneSession'
  BY <1>1 DEF Grant, FreeForOthers
<1>2. ASSUME NEW p \in Processes, NEW j \in Jobs, Unlock(p, j) PROVE OneSession'
  BY <1>2 DEF Unlock
<1>3. ASSUME NEW p \in Processes, LoseConnection(p) \/ Crash(p) PROVE OneSession'
  BY <1>3 DEF LoseConnection, Crash
<1>4. ASSUME UNCHANGED grants PROVE OneSession'
  BY <1>4
<1> QED
  BY <1>1, <1>2, <1>3, <1>4
  DEF Next, JobStep, Fire, Refuse, Enter, CallRelease, SkipRelease, Discard,
      Abort, vars

-----------------------------------------------------------------------------
(* The grants of a session cover the jobs that hold the lock.               *)

LEMMA HoldersFinite ==
  ASSUME NEW p
  PROVE  /\ IsFiniteSet(Holders(p))
         /\ Cardinality(Holders(p)) \in Nat
<1>1. Holders(p) \in SUBSET Jobs
  BY DEF Holders
<1> QED
  BY <1>1, ConstantsAssumption, FS_Subset, FS_CardinalityType

\* The part of GrantsCoverHolders that is about process p.
Covered(p) == session[p] # "dead" => grants[p] >= Cardinality(Holders(p))

(* A step that takes no grant from process q, adds no holder to it and does *)
(* not bring its connection back keeps it covered.                          *)
LEMMA QuietStep ==
  ASSUME TypeOK, NEW q \in Processes, Covered(q),
         Holders(q)' \subseteq Holders(q),
         grants'[q] = grants[q],
         session'[q] = "dead" \/ session[q] # "dead"
  PROVE  Covered(q)'
<1>1. /\ Cardinality(Holders(q)') <= Cardinality(Holders(q))
      /\ Cardinality(Holders(q)') \in Nat
  BY HoldersFinite, FS_Subset, FS_CardinalityType
<1>2. grants[q] \in Nat
  BY DEF TypeOK
<1> QED
  BY <1>1, <1>2, HoldersFinite DEF Covered

LEMMA CoverInit == Init => GrantsCoverHolders
<1> SUFFICES ASSUME Init, NEW p \in Processes
             PROVE  grants[p] >= Cardinality(Holders(p))
  BY DEF GrantsCoverHolders
<1>1. Holders(p) = {}
  BY DEF Init, Holders
<1> QED
  BY <1>1, FS_EmptySet DEF Init

(* Grant adds a grant and a holder, Unlock takes one of each; the other     *)
(* steps of the jobs are quiet, and a crash or a loss leaves nothing to     *)
(* cover.                                                                   *)
LEMMA CoverStep ==
  TypeOK /\ GrantsCoverHolders /\ [Next]_vars => GrantsCoverHolders'
<1> SUFFICES ASSUME TypeOK, GrantsCoverHolders, [Next]_vars,
                    NEW q \in Processes
             PROVE  Covered(q)'
  BY DEF GrantsCoverHolders, Covered
<1>0. Covered(q)
  BY DEF GrantsCoverHolders, Covered
<1>1. ASSUME NEW p \in Processes, NEW j \in Jobs, Grant(p, j) PROVE Covered(q)'
  <2>1. CASE p = q
    <3>1. Holders(q)' = Holders(q) \cup {j} /\ j \notin Holders(q)
      BY <1>1, <2>1 DEF Grant, Move, Holders, TypeOK
    <3>2. Cardinality(Holders(q)') = Cardinality(Holders(q)) + 1
      BY <3>1, HoldersFinite, FS_AddElement
    <3>3. grants'[q] = grants[q] + 1 /\ session[q] # "dead" /\ grants[q] \in Nat
      BY <1>1, <2>1 DEF Grant, TypeOK
    <3> QED
      BY <1>0, <3>2, <3>3, HoldersFinite DEF Covered
  <2>2. CASE p # q
    BY <1>0, <1>1, <2>2, QuietStep DEF Grant, Move, Holders, TypeOK
  <2> QED
    BY <2>1, <2>2
<1>2. ASSUME NEW p \in Processes, NEW j \in Jobs, Unlock(p, j) PROVE Covered(q)'
  <2>1. CASE p = q
    <3>1. Holders(q)' = Holders(q) \ {j} /\ j \in Holders(q)
      BY <1>2, <2>1 DEF Unlock, Move, Holders, TypeOK
    <3>2. Cardinality(Holders(q)') = Cardinality(Holders(q)) - 1
      BY <3>1, HoldersFinite, FS_RemoveElement
    <3>3. /\ grants'[q] >= grants[q] - 1
          /\ grants'[q] \in Nat /\ grants[q] \in Nat
          /\ session'[q] = session[q]
      BY <1>2, <2>1 DEF Unlock, TypeOK
    <3> QED
      BY <1>0, <3>2, <3>3, HoldersFinite DEF Covered
  <2>2. CASE p # q
    BY <1>0, <1>2, <2>2, QuietStep DEF Unlock, Move, Holders, TypeOK
  <2> QED
    BY <2>1, <2>2
<1>3. ASSUME NEW p \in Processes, NEW j \in Jobs,
             Fire(p, j) \/ Refuse(p, j) \/ Enter(p, j) \/ CallRelease(p, j)
               \/ SkipRelease(p, j) \/ Discard(p, j) \/ Abort(p, j)
      PROVE  Covered(q)'
  <2>1. UNCHANGED grants
    BY <1>3 DEF Fire, Refuse, Enter, CallRelease, SkipRelease, Discard, Abort
  <2>2. session'[q] = "dead" \/ session[q] # "dead"
    BY <1>3 DEF Fire, Refuse, Enter, CallRelease, SkipRelease, Discard, Abort, TypeOK
  <2>3. \/ Move(p, j, "idle", "asking")
        \/ Move(p, j, "asking", "idle")
        \/ Move(p, j, "granted", "running")
        \/ Move(p, j, "running", "unlocking")
        \/ Move(p, j, "running", "idle")
        \/ Move(p, j, "unlocked", "idle")
        \/ Move(p, j, "unlocking", "unlocked")
    BY <1>3 DEF Fire, Refuse, Enter, CallRelease, SkipRelease, Discard, Abort
  <2>4. Holders(q)' \subseteq Holders(q)
    BY <2>3 DEF Move, Holders, TypeOK
  <2> QED
    BY <1>0, <2>1, <2>2, <2>4, QuietStep
<1>4. ASSUME NEW p \in Processes, LoseConnection(p) PROVE Covered(q)'
  <2>1. CASE p = q
    BY <1>4, <2>1 DEF LoseConnection, Covered, TypeOK
  <2>2. CASE p # q
    BY <1>0, <1>4, <2>2, QuietStep DEF LoseConnection, Holders, TypeOK
  <2> QED
    BY <2>1, <2>2
<1>5. ASSUME NEW p \in Processes, Crash(p) PROVE Covered(q)'
  <2>1. CASE p = q
    <3>1. Holders(q)' = {} /\ grants'[q] = 0
      BY <1>5, <2>1 DEF Crash, Holders, TypeOK
    <3> QED
      BY <3>1, FS_EmptySet DEF Covered
  <2>2. CASE p # q
    BY <1>0, <1>5, <2>2, QuietStep DEF Crash, Holders, TypeOK
  <2> QED
    BY <2>1, <2>2
<1>6. CASE UNCHANGED vars
  BY <1>0, <1>6, QuietStep DEF vars, Holders, Covered
<1> QED
  BY <1>1, <1>2, <1>3, <1>4, <1>5, <1>6 DEF Next, JobStep

-----------------------------------------------------------------------------
(* The safety of the lock.                                                  *)

\* The inductive invariant: CrossProcessExclusion is not inductive by itself,
\* it holds because the grants of a session cover its running jobs and only
\* one session has grants.
IInv == TypeOK /\ OneSession /\ GrantsCoverHolders

LEMMA IInvariant == Spec => []IInv
<1>1. Init => IInv
  BY TypeInit, OneSessionInit, CoverInit DEF IInv
<1>2. IInv /\ [Next]_vars => IInv'
  BY TypeStep, OneSessionStep, CoverStep DEF IInv
<1> QED
  BY <1>1, <1>2, PTL DEF Spec

(* No release by one job takes away the grant of another job of its         *)
(* process, for any number of jobs that share the session.                  *)
THEOREM GrantsCoverHoldersHolds == Spec => []GrantsCoverHolders
<1>1. IInv => GrantsCoverHolders
  BY DEF IInv
<1> QED
  BY <1>1, IInvariant, PTL

LEMMA RunningHasGrant ==
  ASSUME IInv, NEW p \in Processes, NEW j \in Jobs,
         pc[p][j] = "running", session[p] # "dead"
  PROVE  grants[p] > 0
<1>1. j \in Holders(p)
  BY DEF Holders
<1>2. Cardinality(Holders(p)) # 0
  BY <1>1, HoldersFinite, FS_EmptySet
<1> QED
  BY <1>2, HoldersFinite DEF IInv, GrantsCoverHolders, TypeOK

(* Jobs of two processes run at once only after a lost connection.          *)
THEOREM CrossProcessExclusionHolds == Spec => []CrossProcessExclusion
<1>1. IInv => CrossProcessExclusion
  BY RunningHasGrant DEF IInv, OneSession, CrossProcessExclusion
<1> QED
  BY <1>1, IInvariant, PTL

-----------------------------------------------------------------------------
(* The name in _held_locks.                                                 *)

OwnerStates == {"running", "unlocking", "unlocked"}

(* A step of job j of process p that leaves the set alone and does not take *)
(* j out of the owners of the name leaves no name behind.                   *)
LEMMA OwnerStays ==
  ASSUME TypeOK, HeldHasOwner, NEW p \in Processes, NEW j \in Jobs,
         NEW from, NEW to, Move(p, j, from, to), UNCHANGED heldLocks,
         from \in OwnerStates => to \in OwnerStates
  PROVE  HeldHasOwner'
<1> SUFFICES ASSUME NEW q \in Processes, heldLocks[q]
             PROVE  \E i \in Jobs : pc'[q][i] \in OwnerStates
  BY DEF HeldHasOwner, OwnerStates
<1>1. PICK i \in Jobs : pc[q][i] \in OwnerStates
  BY DEF HeldHasOwner, OwnerStates
<1>2. CASE q = p /\ i = j
  BY <1>1, <1>2 DEF Move, TypeOK
<1>3. CASE ~(q = p /\ i = j)
  BY <1>1, <1>3 DEF Move, TypeOK
<1> QED
  BY <1>2, <1>3

LEMMA HeldHasOwnerStep ==
  TypeOK /\ HeldHasOwner /\ [Next]_vars => HeldHasOwner'
<1> SUFFICES ASSUME TypeOK, HeldHasOwner, [Next]_vars PROVE HeldHasOwner'
  OBVIOUS
<1>1. ASSUME NEW p \in Processes, NEW j \in Jobs,
             Fire(p, j) \/ Grant(p, j) \/ Refuse(p, j) \/ CallRelease(p, j)
               \/ Unlock(p, j) \/ Abort(p, j)
      PROVE  HeldHasOwner'
  BY <1>1, OwnerStays
  DEF Fire, Grant, Refuse, CallRelease, Unlock, Abort, OwnerStates
<1>2. ASSUME NEW p \in Processes, NEW j \in Jobs, Enter(p, j) PROVE HeldHasOwner'
  <2>1. pc'[p][j] = "running"
    BY <1>2 DEF Enter, Move, TypeOK
  <2>2. ASSUME NEW q \in Processes, q # p
        PROVE  pc'[q] = pc[q] /\ heldLocks'[q] = heldLocks[q]
    BY <1>2, <2>2 DEF Enter, Move, TypeOK
  <2> QED
    BY <2>1, <2>2 DEF HeldHasOwner
<1>3. ASSUME NEW p \in Processes, NEW j \in Jobs,
             SkipRelease(p, j) \/ Discard(p, j)
      PROVE  HeldHasOwner'
  <2>1. heldLocks'[p] = FALSE
    BY <1>3 DEF SkipRelease, Discard, TypeOK
  <2>2. ASSUME NEW q \in Processes, q # p
        PROVE  pc'[q] = pc[q] /\ heldLocks'[q] = heldLocks[q]
    BY <1>3, <2>2 DEF SkipRelease, Discard, Move, TypeOK
  <2> QED
    BY <2>1, <2>2 DEF HeldHasOwner
<1>4. ASSUME NEW p \in Processes, LoseConnection(p) PROVE HeldHasOwner'
  BY <1>4 DEF LoseConnection, HeldHasOwner
<1>5. ASSUME NEW p \in Processes, Crash(p) PROVE HeldHasOwner'
  <2>1. heldLocks'[p] = FALSE
    BY <1>5 DEF Crash, TypeOK
  <2>2. ASSUME NEW q \in Processes, q # p
        PROVE  pc'[q] = pc[q] /\ heldLocks'[q] = heldLocks[q]
    BY <1>5, <2>2 DEF Crash, TypeOK
  <2> QED
    BY <2>1, <2>2 DEF HeldHasOwner
<1>6. CASE UNCHANGED vars
  BY <1>6 DEF vars, HeldHasOwner
<1> QED
  BY <1>1, <1>2, <1>3, <1>4, <1>5, <1>6 DEF Next, JobStep

(* No exit path, fault or overlap of jobs leaves the name behind when no    *)
(* job is on its way to discard it.                                         *)
THEOREM HeldHasOwnerHolds == Spec => []HeldHasOwner
<1>1. Init => HeldHasOwner
  BY DEF Init, HeldHasOwner
<1> QED
  BY <1>1, TypeCorrect, HeldHasOwnerStep, PTL DEF Spec

-----------------------------------------------------------------------------
(* However the jobs of a process overlap and whatever fails, the adapters   *)
(* implement, for the processes, the lock that LockPort promises.           *)

(* A step of one process leaves every other process where it was.           *)
LEMMA RelyingElsewhere ==
  ASSUME NEW p \in Processes, NEW q \in Processes, q # p,
         pc'[q] = pc[q], session'[q] = session[q]
  PROVE  q \in Relying' <=> q \in Relying
  BY DEF Relying, Holders

(* A process starts to rely on the lock when the server grants it, and then *)
(* nobody else does: a job of a live session has a grant, and the server    *)
(* has granted nothing to others.                                           *)
LEMMA GrantAcquires ==
  ASSUME IInv, NEW p \in Processes, NEW j \in Jobs, Grant(p, j)
  PROVE  Relying' = Relying \/ (Relying = {} /\ Relying' = {p})
<1>1. ASSUME NEW q \in Processes, q # p PROVE q \notin Relying
  <2>1. grants[q] = 0
    BY <1>1 DEF Grant, FreeForOthers
  <2>2. CASE session[q] # "dead"
    <3>1. Cardinality(Holders(q)) = 0
      BY <2>1, <2>2, HoldersFinite DEF IInv, GrantsCoverHolders
    <3> QED
      BY <3>1, HoldersFinite, FS_EmptySet DEF Relying
  <2> QED
    BY <2>2 DEF Relying
<1>2. ASSUME NEW q \in Processes, q # p PROVE q \notin Relying'
  <2>1. pc'[q] = pc[q] /\ session'[q] = session[q]
    BY <1>2 DEF Grant, Move, IInv, TypeOK
  <2> QED
    BY <1>1, <1>2, <2>1, RelyingElsewhere
<1>3. Relying' \subseteq {p} /\ Relying \subseteq {p}
  BY <1>1, <1>2 DEF Relying
<1>4. p \in Relying'
  <2>1. j \in Holders(p)'
    BY DEF Grant, Move, Holders, IInv, TypeOK
  <2>2. session'[p] # "dead"
    BY DEF Grant, IInv, TypeOK
  <2> QED
    BY <2>1, <2>2 DEF Relying
<1> QED
  BY <1>3, <1>4

(* Every other step of a process can only end its reliance.                 *)
LEMMA OthersRelease ==
  ASSUME IInv, NEW p \in Processes,
         \/ \E j \in Jobs : \/ Fire(p, j) \/ Refuse(p, j) \/ Enter(p, j)
                            \/ CallRelease(p, j) \/ SkipRelease(p, j)
                            \/ Unlock(p, j) \/ Discard(p, j) \/ Abort(p, j)
         \/ LoseConnection(p)
         \/ Crash(p)
  PROVE  \/ Relying' = Relying
         \/ p \in Relying /\ Relying' = Relying \ {p}
<1> USE DEF IInv, TypeOK
<1>1. ASSUME NEW q \in Processes, q # p
      PROVE  pc'[q] = pc[q] /\ session'[q] = session[q]
  BY <1>1 DEF Fire, Refuse, Enter, CallRelease, SkipRelease, Unlock, Discard,
              Abort, LoseConnection, Crash, Move
<1>2. Holders(p)' \subseteq Holders(p)
  <2>1. CASE LoseConnection(p) \/ Crash(p)
    BY <2>1 DEF LoseConnection, Crash, Holders
  <2>2. ASSUME NEW j \in Jobs,
               \/ Fire(p, j) \/ Refuse(p, j) \/ Enter(p, j)
               \/ CallRelease(p, j) \/ SkipRelease(p, j)
               \/ Unlock(p, j) \/ Discard(p, j) \/ Abort(p, j)
        PROVE  Holders(p)' \subseteq Holders(p)
    BY <2>2 DEF Fire, Refuse, Enter, CallRelease, SkipRelease, Unlock, Discard,
                Abort, Move, Holders
  <2> QED
    BY <2>1, <2>2
<1>3. Holders(p)' # {} /\ session[p] = "dead" => session'[p] = "dead"
  <2>1. CASE Crash(p)
    BY <2>1 DEF Crash, Holders
  <2> QED
    BY <2>1 DEF Fire, Refuse, Enter, CallRelease, SkipRelease, Unlock, Discard,
                Abort, LoseConnection
<1>4. p \in Relying' => p \in Relying
  BY <1>2, <1>3 DEF Relying
<1>5. ASSUME NEW q \in Processes, q # p PROVE q \in Relying' <=> q \in Relying
  BY <1>1, <1>5, RelyingElsewhere
<1> HIDE DEF IInv, TypeOK
<1>6. Relying \subseteq Processes /\ Relying' \subseteq Processes
  BY DEF Relying
<1>7. CASE p \in Relying' \/ p \notin Relying
  BY <1>4, <1>5, <1>6, <1>7
<1>8. CASE p \notin Relying' /\ p \in Relying
  BY <1>5, <1>6, <1>8
<1> QED
  BY <1>7, <1>8

LEMMA StepRefinesPort ==
  ASSUME IInv, [Next]_vars
  PROVE  Port!Next \/ Relying' = Relying
<1>1. ASSUME NEW p \in Processes, Relying = {}, Relying' = {p} PROVE Port!Next
  BY <1>1 DEF Port!Next, Port!Acquire
<1>2. ASSUME NEW p \in Processes, p \in Relying, Relying' = Relying \ {p}
      PROVE  Port!Next
  BY <1>2 DEF Port!Next, Port!Release
<1>3. ASSUME NEW p \in Processes, NEW j \in Jobs, Grant(p, j)
      PROVE  Port!Next \/ Relying' = Relying
  BY <1>1, <1>3, GrantAcquires
<1>4. ASSUME NEW p \in Processes,
             \/ \E j \in Jobs : \/ Fire(p, j) \/ Refuse(p, j) \/ Enter(p, j)
                                \/ CallRelease(p, j) \/ SkipRelease(p, j)
                                \/ Unlock(p, j) \/ Discard(p, j) \/ Abort(p, j)
             \/ LoseConnection(p)
             \/ Crash(p)
      PROVE  Port!Next \/ Relying' = Relying
  BY <1>2, <1>4, OthersRelease
<1>5. CASE UNCHANGED vars
  BY <1>5 DEF vars, Relying, Holders
<1> QED
  BY <1>3, <1>4, <1>5 DEF Next, JobStep

(* For any number of processes and of overlapping jobs, through crashes,    *)
(* lost connections and failed statements: no process has the lock while    *)
(* another one relies on it.                                                *)
THEOREM PortImplemented == Spec => ImplementsPort
<1>1. Init => Port!Init
  BY DEF Init, Port!Init, Relying, Holders
<1>2. IInv /\ [Next]_vars => [Port!Next]_Relying
  BY StepRefinesPort
<1> QED
  BY <1>1, <1>2, IInvariant, PTL DEF Spec, ImplementsPort, Port!Spec

-----------------------------------------------------------------------------
(* The lock inside the cycle.                                               *)

\* A step of a cycle that leaves the lock alone, or fails and is counted.
LockAsBefore ==
  /\ UNCHANGED <<grants, session, heldLocks, pc>>
  /\ faults' = faults \/ (faults < MaxFaults /\ faults' = faults + 1)

(* What a step of the system is to the lock: a step of the lock, or none.   *)
LEMMA CycleStepOfLock ==
  ASSUME [CycleNext]_cycleVars
  PROVE  [Next]_vars \/ LockAsBefore
<1> USE DEF lockVars, vars, LockAsBefore
<1>1. ASSUME NEW p \in Processes, NEW j \in Jobs, FireJob(p, j) PROVE Next
  BY <1>1 DEF FireJob, Next
<1>2. ASSUME NEW p \in Processes, NEW j \in Jobs, LockStep(p, j) PROVE Next
  BY <1>2 DEF LockStep, Next, JobStep
<1>3. ASSUME NEW p \in Processes, NEW j \in Jobs,
             EnterBody(p, j) \/ LeaveBody(p, j)
      PROVE  Next
  BY <1>3 DEF EnterBody, LeaveBody, Next, JobStep
<1>4. ASSUME NEW p \in Processes, Restart(p) \/ Disconnect(p) PROVE Next
  BY <1>4 DEF Restart, Disconnect, Next
<1>5. ASSUME NEW p \in Processes, NEW j \in Jobs,
             \/ Misfire(p, j) \/ NoTrade(p, j) \/ RecordTrade(p, j)
      PROVE  UNCHANGED vars
  BY <1>5 DEF Misfire, NoTrade, RecordTrade
<1>6. ASSUME NEW p \in Processes, NEW j \in Jobs,
             \/ CheckKey(p, j) \/ PlaceOrder(p, j) \/ SaveTrade(p, j)
             \/ MarkKey(p, j) \/ Timeout(p, j)
      PROVE  LockAsBefore
  BY <1>6 DEF CheckKey, PlaceOrder, SaveTrade, MarkKey, Timeout, Fault
<1>7. CASE NextHour \/ ManualRun
  BY <1>7 DEF NextHour, ManualRun
<1>8. CASE UNCHANGED cycleVars
  BY <1>8 DEF cycleVars
<1> QED
  BY <1>1, <1>2, <1>3, <1>4, <1>5, <1>6, <1>7, <1>8 DEF CycleNext, Step, BodyStep

(* The inductive invariant of the lock is kept by the whole system.         *)
LEMMA LockKept ==
  ASSUME IInv, [CycleNext]_cycleVars
  PROVE  IInv'
<1>1. CASE [Next]_vars
  BY <1>1, TypeStep, OneSessionStep, CoverStep DEF IInv
<1>2. CASE LockAsBefore
  <2>1. TypeOK'
    BY <1>2, ConstantsAssumption DEF LockAsBefore, IInv, TypeOK
  <2>2. OneSession' /\ GrantsCoverHolders'
    BY <1>2 DEF LockAsBefore, IInv, OneSession, GrantsCoverHolders, Holders
  <2> QED
    BY <2>1, <2>2 DEF IInv
<1> QED
  BY <1>1, <1>2, CycleStepOfLock

-----------------------------------------------------------------------------
(* Type correctness.                                                        *)

LEMMA CycleTypeInit == CycleInit => CycleTypeOK
<1> SUFFICES ASSUME CycleInit PROVE CycleTypeOK
  OBVIOUS
<1>1. 0 \in Hours
  BY JobsAssumption DEF Hours
<1> QED
  BY <1>1, TypeInit, JobsAssumption DEF CycleInit, CycleTypeOK, Stage

(* What the two ways of changing a stage or a count do to its type.         *)
LEMMA GoToType ==
  ASSUME CycleTypeOK, NEW p \in Processes, NEW j \in Jobs,
         NEW from, NEW to \in Stage, GoTo(p, j, from, to)
  PROVE  stage' \in [Processes -> [Jobs -> Stage]]
BY DEF GoTo, CycleTypeOK

LEMMA BumpType ==
  ASSUME NEW count \in [Hours -> Nat], NEW h \in Hours
  PROVE  Bump(count, h) \in [Hours -> Nat]
BY DEF Bump

LEMMA CycleTypeStep ==
  ASSUME CycleTypeOK, [CycleNext]_cycleVars
  PROVE  CycleTypeOK'
<1> USE JobsAssumption DEF CycleTypeOK, jobVars, durable
<1>0. TypeOK'
  <2>1. CASE [Next]_vars
    BY <2>1, TypeStep
  <2>2. CASE LockAsBefore
    BY <2>2, ConstantsAssumption DEF LockAsBefore, TypeOK
  <2> QED
    BY <2>1, <2>2, CycleStepOfLock
<1>a. /\ "none" \in Stage /\ "check" \in Stage /\ "pipeline" \in Stage
      /\ "save" \in Stage /\ "mark" \in Stage /\ "record" \in Stage
      /\ "done" \in Stage
  BY DEF Stage
<1>b. ASSUME NEW p \in Processes, NEW j \in Jobs
      PROVE  candle[p][j] \in Hours
  OBVIOUS
<1>1. CASE NextHour
  BY <1>0, <1>1 DEF NextHour, Hours, TradingJobs
<1>2. CASE ManualRun
  BY <1>0, <1>2, BumpType DEF ManualRun
<1>3. ASSUME NEW p \in Processes, NEW j \in Jobs,
             Misfire(p, j) \/ FireJob(p, j) \/ LockStep(p, j)
      PROVE  CycleTypeOK'
  BY <1>0, <1>3 DEF Misfire, FireJob, LockStep
<1>4. ASSUME NEW p \in Processes, NEW j \in Jobs, EnterBody(p, j)
      PROVE  CycleTypeOK'
  BY <1>0, <1>4, <1>a, GoToType DEF EnterBody
<1>5. ASSUME NEW p \in Processes, NEW j \in Jobs, LeaveBody(p, j)
      PROVE  CycleTypeOK'
  BY <1>0, <1>5, <1>a, GoToType DEF LeaveBody
<1>6. ASSUME NEW p \in Processes, NEW j \in Jobs, CheckKey(p, j)
      PROVE  CycleTypeOK'
  <2>1. stage' \in [Processes -> [Jobs -> Stage]]
    <3>1. \/ GoTo(p, j, "check", "pipeline")
          \/ GoTo(p, j, "check", "done")
      BY <1>6 DEF CheckKey
    <3> QED
      BY <3>1, <1>a, GoToType
  <2>2. candle' \in [Processes -> [Jobs -> Hours]]
    BY <1>6 DEF CheckKey
  <2> QED
    BY <1>0, <1>6, <2>1, <2>2 DEF CheckKey
<1>7. ASSUME NEW p \in Processes, NEW j \in Jobs, NoTrade(p, j)
      PROVE  CycleTypeOK'
  BY <1>0, <1>7, <1>a, GoToType DEF NoTrade
<1>8. ASSUME NEW p \in Processes, NEW j \in Jobs, PlaceOrder(p, j)
      PROVE  CycleTypeOK'
  <2>1. stage' \in [Processes -> [Jobs -> Stage]]
    <3>1. \/ GoTo(p, j, "pipeline", "mark")
          \/ GoTo(p, j, "pipeline", "save")
      BY <1>8 DEF PlaceOrder
    <3> QED
      BY <3>1, <1>a, GoToType
  <2>2. orders' \in [Hours -> Nat]
    <3>1. orders' = orders \/ orders' = Bump(orders, candle[p][j])
      BY <1>8 DEF PlaceOrder
    <3>2. Bump(orders, candle[p][j]) \in [Hours -> Nat]
      BY <1>b, BumpType
    <3> QED
      BY <3>1, <3>2
  <2> QED
    BY <1>0, <1>8, <2>1, <2>2 DEF PlaceOrder
<1>9. ASSUME NEW p \in Processes, NEW j \in Jobs, SaveTrade(p, j)
      PROVE  CycleTypeOK'
  <2>1. stage' \in [Processes -> [Jobs -> Stage]]
    BY <1>9, <1>a, GoToType DEF SaveTrade
  <2>2. saved' \in [Hours -> Nat]
    BY <1>9, <1>b, BumpType DEF SaveTrade
  <2>3. traded' \in [Processes -> [Jobs -> BOOLEAN]]
    <3>1. CASE UNCHANGED traded
      BY <3>1
    <3>2. CASE traded' = [traded EXCEPT ![p][j] = TRUE]
      BY <3>2, Zenon
    <3> QED
      BY <1>9, <3>1, <3>2 DEF SaveTrade
  <2> QED
    BY <1>0, <1>9, <2>1, <2>2, <2>3 DEF SaveTrade
<1>10. ASSUME NEW p \in Processes, NEW j \in Jobs, MarkKey(p, j)
       PROVE  CycleTypeOK'
  BY <1>0, <1>10, <1>a, <1>b, GoToType DEF MarkKey
<1>11. ASSUME NEW p \in Processes, NEW j \in Jobs, RecordTrade(p, j)
       PROVE  CycleTypeOK'
  <2>1. stage' \in [Processes -> [Jobs -> Stage]]
    BY <1>11, <1>a, GoToType DEF RecordTrade
  <2>2. posted' \in [Hours -> Nat]
    <3>1. posted' = posted \/ posted' = Bump(posted, candle[p][j])
      BY <1>11 DEF RecordTrade
    <3> QED
      BY <3>1, <1>b, BumpType
  <2> QED
    BY <1>0, <1>11, <2>1, <2>2 DEF RecordTrade
<1>12. ASSUME NEW p \in Processes, NEW j \in Jobs, Timeout(p, j)
       PROVE  CycleTypeOK'
  <2>1. stage' \in [Processes -> [Jobs -> Stage]]
    BY <1>12, <1>a, GoToType DEF Timeout
  <2>2. saved' \in [Hours -> Nat]
    BY <1>12, <1>b, BumpType DEF Timeout
  <2>3. keys' \in SUBSET Hours
    BY <1>12, <1>b DEF Timeout
  <2> QED
    BY <1>0, <1>12, <2>1, <2>2, <2>3 DEF Timeout
<1>13. ASSUME NEW p \in Processes, Restart(p) PROVE CycleTypeOK'
  BY <1>0, <1>13, <1>a DEF Restart, TradingJobs
<1>14. ASSUME NEW p \in Processes, Disconnect(p) PROVE CycleTypeOK'
  BY <1>0, <1>14 DEF Disconnect
<1>15. CASE UNCHANGED cycleVars
  BY <1>0, <1>15 DEF cycleVars
<1> QED
  BY <1>1, <1>2, <1>3, <1>4, <1>5, <1>6, <1>7, <1>8, <1>9, <1>10, <1>11,
     <1>12, <1>13, <1>14, <1>15
  DEF CycleNext, Step, BodyStep

(* Every state of the scheduler is of its type, whatever fails: no count    *)
(* goes below zero, no key is about an hour that has not begun to exist.    *)
THEOREM CycleTypeCorrect == CycleSpec => []CycleTypeOK
BY CycleTypeInit, CycleTypeStep, PTL DEF CycleSpec

-----------------------------------------------------------------------------
(* Where the jobs of the system are.                                        *)

(* A job has a stage exactly while its body runs; only the trading jobs go  *)
(* through a cycle; only a cycle whose trade was saved has a result to      *)
(* record.                                                                  *)
Located(p, j) ==
  /\ stage[p][j] # "none" <=> pc[p][j] = "running"
  /\ stage[p][j] \notin {"none", "done"} => j \in TradingJobs
  /\ traded[p][j] => stage[p][j] \in {"mark", "record", "done"}
  /\ stage[p][j] = "record" => traded[p][j]

StageOfRunning == \A p \in Processes, j \in Jobs : Located(p, j)

\* A step of job j of process p leaves the bodies of all others alone.
OthersStay(p, j) ==
  \A q \in Processes, i \in Jobs : ~(q = p /\ i = j) =>
    /\ stage'[q][i] = stage[q][i]
    /\ candle'[q][i] = candle[q][i]
    /\ traded'[q][i] = traded[q][i]

LEMMA GoToStage ==
  ASSUME CycleTypeOK, NEW p \in Processes, NEW j \in Jobs,
         NEW from, NEW to, GoTo(p, j, from, to)
  PROVE  /\ stage[p][j] = from /\ stage'[p][j] = to
         /\ \A q \in Processes, i \in Jobs :
              ~(q = p /\ i = j) => stage'[q][i] = stage[q][i]
BY DEF GoTo, CycleTypeOK

LEMMA MovePc ==
  ASSUME TypeOK, NEW p \in Processes, NEW j \in Jobs,
         NEW from, NEW to, Move(p, j, from, to)
  PROVE  /\ pc[p][j] = from /\ pc'[p][j] = to
         /\ \A q \in Processes, i \in Jobs :
              ~(q = p /\ i = j) => pc'[q][i] = pc[q][i]
BY DEF Move, TypeOK

(* What each step of a body does to the stage, the candle and the result of *)
(* its job.                                                                 *)
LEMMA BodyOfJob ==
  ASSUME CycleTypeOK, NEW p \in Processes, NEW j \in Jobs,
         EnterBody(p, j) \/ BodyStep(p, j) \/ LeaveBody(p, j)
  PROVE  OthersStay(p, j)
<1>0. ASSUME NEW from, NEW to, GoTo(p, j, from, to),
             UNCHANGED <<candle, traded>>
      PROVE  OthersStay(p, j)
  BY <1>0, GoToStage DEF OthersStay
<1>1. CASE EnterBody(p, j)
  BY <1>0, <1>1 DEF EnterBody
<1>2. CASE CheckKey(p, j)
  <2>1. GoTo(p, j, "check", "pipeline") \/ GoTo(p, j, "check", "done")
    BY <1>2 DEF CheckKey
  <2>2. \A q \in Processes, i \in Jobs :
          ~(q = p /\ i = j) => candle'[q][i] = candle[q][i]
    BY <1>2 DEF CheckKey, CycleTypeOK
  <2>3. UNCHANGED traded
    BY <1>2 DEF CheckKey
  <2> QED
    BY <2>1, <2>2, <2>3, GoToStage DEF OthersStay
<1>3. CASE NoTrade(p, j)
  BY <1>0, <1>3 DEF NoTrade, durable
<1>4. CASE PlaceOrder(p, j)
  BY <1>0, <1>4 DEF PlaceOrder
<1>5. CASE SaveTrade(p, j)
  <2>1. GoTo(p, j, "save", "mark") \/ GoTo(p, j, "save", "done")
    BY <1>5 DEF SaveTrade
  <2>2. \A q \in Processes, i \in Jobs :
          ~(q = p /\ i = j) => traded'[q][i] = traded[q][i]
    BY <1>5 DEF SaveTrade, CycleTypeOK
  <2>3. UNCHANGED candle
    BY <1>5 DEF SaveTrade
  <2> QED
    BY <2>1, <2>2, <2>3, GoToStage DEF OthersStay
<1>6. CASE MarkKey(p, j)
  BY <1>0, <1>6 DEF MarkKey
<1>7. CASE RecordTrade(p, j)
  BY <1>0, <1>7 DEF RecordTrade
<1>8. CASE Timeout(p, j)
  BY <1>0, <1>8 DEF Timeout
<1>9. CASE LeaveBody(p, j)
  <2>1. GoTo(p, j, "done", "none") /\ UNCHANGED candle
    BY <1>9 DEF LeaveBody
  <2>2. \A q \in Processes, i \in Jobs :
          ~(q = p /\ i = j) => traded'[q][i] = traded[q][i]
    BY <1>9 DEF LeaveBody, CycleTypeOK
  <2> QED
    BY <2>1, <2>2, GoToStage DEF OthersStay
<1> QED
  BY <1>1, <1>2, <1>3, <1>4, <1>5, <1>6, <1>7, <1>8, <1>9 DEF BodyStep

LEMMA LocatedStep ==
  ASSUME CycleTypeOK, StageOfRunning, [CycleNext]_cycleVars
  PROVE  StageOfRunning'
<1> TypeOK
  BY DEF CycleTypeOK
<1>0. \A q \in Processes, i \in Jobs : Located(q, i)
  BY DEF StageOfRunning
<1>a. ASSUME NEW p \in Processes, NEW j \in Jobs, OthersStay(p, j),
             \A q \in Processes, i \in Jobs :
               ~(q = p /\ i = j) => pc'[q][i] = pc[q][i],
             Located(p, j)'
      PROVE  StageOfRunning'
  BY <1>0, <1>a DEF OthersStay, StageOfRunning, Located
<1>1. ASSUME NEW p \in Processes, NEW j \in Jobs, EnterBody(p, j)
      PROVE  StageOfRunning'
  <2>1. /\ pc[p][j] = "granted" /\ pc'[p][j] = "running"
        /\ \A q \in Processes, i \in Jobs :
              ~(q = p /\ i = j) => pc'[q][i] = pc[q][i]
    BY <1>1, MovePc DEF EnterBody, Enter
  <2>2. /\ stage[p][j] = "none"
        /\ stage'[p][j] = IF j \in TradingJobs THEN "check" ELSE "done"
        /\ traded' = traded
    BY <1>1, GoToStage DEF EnterBody
  <2>3. Located(p, j)'
    BY <1>0, <2>1, <2>2 DEF Located
  <2> QED
    BY <1>1, <1>a, <2>1, <2>3, BodyOfJob
<1>2. ASSUME NEW p \in Processes, NEW j \in Jobs, LeaveBody(p, j)
      PROVE  StageOfRunning'
  <2>1. /\ pc'[p][j] # "running"
        /\ \A q \in Processes, i \in Jobs :
              ~(q = p /\ i = j) => pc'[q][i] = pc[q][i]
    <3>1. Move(p, j, "running", "unlocking") \/ Move(p, j, "running", "idle")
      BY <1>2 DEF LeaveBody, CallRelease, SkipRelease
    <3> QED
      BY <3>1, MovePc
  <2>2. stage'[p][j] = "none" /\ traded'[p][j] = FALSE
    BY <1>2, GoToStage DEF LeaveBody, CycleTypeOK
  <2>3. Located(p, j)'
    BY <2>1, <2>2 DEF Located
  <2> QED
    BY <1>2, <1>a, <2>1, <2>3, BodyOfJob
<1>3. ASSUME NEW p \in Processes, NEW j \in Jobs, BodyStep(p, j)
      PROVE  StageOfRunning'
  <2>1. UNCHANGED pc
    BY <1>3
    DEF BodyStep, CheckKey, NoTrade, PlaceOrder, SaveTrade, MarkKey,
        RecordTrade, Timeout, lockVars, vars
  <2>2. /\ stage[p][j] \notin {"none", "done"}
        /\ stage'[p][j] # "none"
        /\ stage'[p][j] = "record" => traded'[p][j]
        /\ traded'[p][j] => stage'[p][j] \in {"mark", "record", "done"}
    <3>1. CASE CheckKey(p, j)
      <4>1. GoTo(p, j, "check", "pipeline") \/ GoTo(p, j, "check", "done")
        BY <3>1 DEF CheckKey
      <4> QED
        BY <1>0, <3>1, <4>1, GoToStage DEF CheckKey, Located
    <3>2. CASE NoTrade(p, j)
      BY <1>0, <3>2, GoToStage DEF NoTrade, Located
    <3>3. CASE PlaceOrder(p, j)
      <4>1. GoTo(p, j, "pipeline", "mark") \/ GoTo(p, j, "pipeline", "save")
        BY <3>3 DEF PlaceOrder
      <4> QED
        BY <1>0, <3>3, <4>1, GoToStage DEF PlaceOrder, Located
    <3>4. CASE SaveTrade(p, j)
      <4>1. GoTo(p, j, "save", "mark") \/ GoTo(p, j, "save", "done")
        BY <3>4 DEF SaveTrade
      <4> QED
        BY <1>0, <4>1, GoToStage
    <3>5. CASE MarkKey(p, j)
      BY <1>0, <3>5, GoToStage DEF MarkKey, Located
    <3>6. CASE RecordTrade(p, j)
      BY <1>0, <3>6, GoToStage DEF RecordTrade, Located
    <3>7. CASE Timeout(p, j)
      <4>1. PICK s \in {"check", "pipeline", "save", "mark"} : GoTo(p, j, s, "done")
        BY <3>7 DEF Timeout
      <4> QED
        BY <1>0, <3>7, <4>1, GoToStage DEF Timeout, Located
    <3> QED
      BY <1>3, <3>1, <3>2, <3>3, <3>4, <3>5, <3>6, <3>7 DEF BodyStep
  <2>3. Located(p, j)'
    BY <1>0, <2>1, <2>2 DEF Located
  <2> QED
    BY <1>3, <1>a, <2>1, <2>3, BodyOfJob
<1>4. ASSUME NEW p \in Processes, NEW j \in Jobs, FireJob(p, j) \/ LockStep(p, j)
      PROVE  StageOfRunning'
  <2>1. /\ stage' = stage /\ traded' = traded
    BY <1>4 DEF FireJob, LockStep, jobVars
  <2>2. PICK from, to : /\ Move(p, j, from, to)
                        /\ from # "running" /\ to # "running"
    BY <1>4
    DEF FireJob, LockStep, Fire, Grant, Refuse, Unlock, Discard, Abort
  <2>3. \A q \in Processes, i \in Jobs :
          pc'[q][i] = "running" <=> pc[q][i] = "running"
    BY <2>2, MovePc
  <2> QED
    BY <1>0, <2>1, <2>3 DEF StageOfRunning, Located
<1>5. ASSUME NEW p \in Processes, Restart(p) PROVE StageOfRunning'
  <2>1. ASSUME NEW q \in Processes, NEW i \in Jobs PROVE Located(q, i)'
    <3>1. CASE q = p
      BY <1>5, <3>1 DEF Restart, Crash, Located, CycleTypeOK, TypeOK
    <3>2. CASE q # p
      <4>1. pc'[q] = pc[q] /\ stage'[q] = stage[q] /\ traded'[q] = traded[q]
        BY <1>5, <3>2 DEF Restart, Crash, CycleTypeOK, TypeOK
      <4> QED
        BY <1>0, <4>1 DEF Located
    <3> QED
      BY <3>1, <3>2
  <2> QED
    BY <2>1 DEF StageOfRunning, Located
<1>6. ASSUME UNCHANGED <<pc, stage, traded>> PROVE StageOfRunning'
  BY <1>6 DEF StageOfRunning, Located
<1> QED
  BY <1>1, <1>2, <1>3, <1>4, <1>5, <1>6
  DEF CycleNext, Step, Misfire, NextHour, ManualRun, Disconnect,
      LoseConnection, cycleVars, lockVars, vars, jobVars

-----------------------------------------------------------------------------
(* Counting jobs.                                                           *)

Bit(b) == IF b THEN 1 ELSE 0

(* Two finite sets that differ in one member at most.                       *)
LEMMA ChangeOne ==
  ASSUME NEW S, NEW T, NEW x, IsFiniteSet(S), IsFiniteSet(T), S \ {x} = T \ {x}
  PROVE  /\ Cardinality(S) \in Nat /\ Cardinality(T) \in Nat
         /\ Cardinality(T) + Bit(x \in S) = Cardinality(S) + Bit(x \in T)
<1>0. Cardinality(S) \in Nat /\ Cardinality(T) \in Nat
  BY FS_CardinalityType
<1>1. CASE x \in S <=> x \in T
  <2>1. S = T
    BY <1>1
  <2> QED
    BY <1>0, <2>1
<1>2. CASE x \in S /\ x \notin T
  <2>1. T = S \ {x}
    BY <1>2
  <2>2. Cardinality(T) = Cardinality(S) - 1
    BY <1>2, <2>1, FS_RemoveElement
  <2> QED
    BY <1>0, <1>2, <2>2 DEF Bit
<1>3. CASE x \notin S /\ x \in T
  <2>1. S = T \ {x}
    BY <1>3
  <2>2. Cardinality(S) = Cardinality(T) - 1
    BY <1>3, <2>1, FS_RemoveElement
  <2> QED
    BY <1>0, <1>3, <2>2 DEF Bit
<1> QED
  BY <1>1, <1>2, <1>3

LEMMA PlacesFinite ==
  ASSUME NEW S \in SUBSET (Processes \X Jobs)
  PROVE  IsFiniteSet(S) /\ Cardinality(S) \in Nat
<1>1. IsFiniteSet(Processes \X Jobs)
  BY FS_Product, JobsAssumption, ConstantsAssumption
<1> QED
  BY <1>1, FS_Subset, FS_CardinalityType

\* The jobs whose cycle, about candle h, has yet to save a trade; and those that
\* have saved one and not yet come to record it.
IsSaving(p, j, h) == candle[p][j] = h /\ stage[p][j] = "save"
IsRecording(p, j, h) ==
  candle[p][j] = h /\ traded[p][j] /\ stage[p][j] \in {"mark", "record"}

Recording(h) == {t \in Processes \X Jobs : IsRecording(t[1], t[2], h)}

LEMMA SavingCount ==
  ASSUME NEW p \in Processes, NEW j \in Jobs, NEW h, OthersStay(p, j)
  PROVE  /\ Cardinality(Saving(h)) \in Nat /\ Cardinality(Saving(h)') \in Nat
         /\ Cardinality(Saving(h)') + Bit(IsSaving(p, j, h))
              = Cardinality(Saving(h)) + Bit(IsSaving(p, j, h)')
<1>1. /\ <<p, j>> \in Saving(h) <=> IsSaving(p, j, h)
      /\ <<p, j>> \in Saving(h)' <=> IsSaving(p, j, h)'
  BY DEF Saving, IsSaving
<1>2. Saving(h) \ {<<p, j>>} = Saving(h)' \ {<<p, j>>}
  <2>1. ASSUME NEW t \in Processes \X Jobs, t # <<p, j>>
        PROVE  t \in Saving(h) <=> t \in Saving(h)'
    <3>1. ~(t[1] = p /\ t[2] = j)
      BY <2>1
    <3> QED
      BY <3>1 DEF Saving, OthersStay
  <2> QED
    BY <2>1 DEF Saving
<1>3. Saving(h) \in SUBSET (Processes \X Jobs) /\ Saving(h)' \in SUBSET (Processes \X Jobs)
  BY DEF Saving
<1>4. IsFiniteSet(Saving(h)) /\ IsFiniteSet(Saving(h)')
  BY <1>3, PlacesFinite
<1>5. /\ Cardinality(Saving(h)) \in Nat /\ Cardinality(Saving(h)') \in Nat
      /\ Cardinality(Saving(h)') + Bit(<<p, j>> \in Saving(h))
           = Cardinality(Saving(h)) + Bit(<<p, j>> \in Saving(h)')
  BY <1>2, <1>4, ChangeOne
<1> QED
  BY <1>1, <1>5 DEF Bit

LEMMA RecordingCount ==
  ASSUME NEW p \in Processes, NEW j \in Jobs, NEW h, OthersStay(p, j)
  PROVE  /\ Cardinality(Recording(h)) \in Nat /\ Cardinality(Recording(h)') \in Nat
         /\ Cardinality(Recording(h)') + Bit(IsRecording(p, j, h))
              = Cardinality(Recording(h)) + Bit(IsRecording(p, j, h)')
<1>1. /\ <<p, j>> \in Recording(h) <=> IsRecording(p, j, h)
      /\ <<p, j>> \in Recording(h)' <=> IsRecording(p, j, h)'
  BY DEF Recording, IsRecording
<1>2. Recording(h) \ {<<p, j>>} = Recording(h)' \ {<<p, j>>}
  <2>1. ASSUME NEW t \in Processes \X Jobs, t # <<p, j>>
        PROVE  t \in Recording(h) <=> t \in Recording(h)'
    <3>1. ~(t[1] = p /\ t[2] = j)
      BY <2>1
    <3> QED
      BY <3>1 DEF Recording, IsRecording, OthersStay
  <2> QED
    BY <2>1 DEF Recording
<1>3. /\ Recording(h) \in SUBSET (Processes \X Jobs)
      /\ Recording(h)' \in SUBSET (Processes \X Jobs)
  BY DEF Recording
<1>4. IsFiniteSet(Recording(h)) /\ IsFiniteSet(Recording(h)')
  BY <1>3, PlacesFinite
<1>5. /\ Cardinality(Recording(h)) \in Nat /\ Cardinality(Recording(h)') \in Nat
      /\ Cardinality(Recording(h)') + Bit(<<p, j>> \in Recording(h))
           = Cardinality(Recording(h)) + Bit(<<p, j>> \in Recording(h)')
  BY <1>2, <1>4, ChangeOne
<1> QED
  BY <1>1, <1>5 DEF Bit

-----------------------------------------------------------------------------
(* Orders and the rows of the trades table.                                 *)

\* Every row stands for an order, and so will the row a cycle is about to save;
\* every row of create_trade, written or still to be written, for a saved one.
Backed(h) ==
  /\ saved[h] + Cardinality(Saving(h)) <= orders[h]
  /\ posted[h] + Cardinality(Recording(h)) <= saved[h]

RowsBacked == \A h \in Hours : Backed(h)

\* The part of OrdersRecorded that is about candle h.
Recorded(h) ==
  orders[h] <= saved[h] + Cardinality(Saving(h)) + Width * faults + manual

CycleIInv == CycleTypeOK /\ IInv /\ StageOfRunning /\ RowsBacked

LEMMA BumpAt ==
  ASSUME NEW count \in [Hours -> Nat], NEW g \in Hours, NEW h \in Hours
  PROVE  Bump(count, g)[h] = count[h] + Bit(h = g)
BY DEF Bump, Bit

LEMMA Amounts ==
  ASSUME CycleTypeOK, NEW h \in Hours
  PROVE  /\ orders[h] \in Nat /\ saved[h] \in Nat /\ posted[h] \in Nat
         /\ faults \in Nat /\ manual \in Nat
BY JobsAssumption, ConstantsAssumption DEF CycleTypeOK, TypeOK

(* What a step of a cycle moves between orders, rows and jobs: no row       *)
(* without its order, no order lost without a fault.                        *)
LEMMA BodyFlow ==
  ASSUME CycleTypeOK, StageOfRunning, NEW p \in Processes, NEW j \in Jobs,
         NEW h \in Hours, BodyStep(p, j)
  PROVE  /\ saved'[h] + Bit(IsSaving(p, j, h)') + orders[h]
              <= saved[h] + Bit(IsSaving(p, j, h)) + orders'[h]
         /\ posted'[h] + Bit(IsRecording(p, j, h)') + saved[h]
              <= posted[h] + Bit(IsRecording(p, j, h)) + saved'[h]
         /\ orders'[h] + Bit(IsSaving(p, j, h)) + saved[h] + faults
              <= orders[h] + Bit(IsSaving(p, j, h)') + saved'[h] + faults'
         /\ manual' = manual
<1> DEFINE g == candle[p][j]
<1>0. g \in Hours /\ (\A b : Bit(b) \in {0, 1}) /\ Bit(TRUE) = 1 /\ Bit(FALSE) = 0
  BY DEF CycleTypeOK, Bit
<1>a. /\ orders[h] \in Nat /\ saved[h] \in Nat /\ posted[h] \in Nat
      /\ faults \in Nat
      /\ traded[p][j] => stage[p][j] \in {"mark", "record", "done"}
      /\ stage[p][j] = "record" => traded[p][j]
      /\ orders \in [Hours -> Nat] /\ saved \in [Hours -> Nat]
      /\ posted \in [Hours -> Nat]
  BY Amounts DEF StageOfRunning, Located, CycleTypeOK
<1>b. ASSUME NEW kind, Fault(kind) PROVE faults' = faults + 1
  BY <1>b DEF Fault
<1> USE DEF IsSaving, IsRecording, Bit
<1>1. CASE CheckKey(p, j)
  <2>1. /\ stage[p][j] = "check" /\ stage'[p][j] \in {"pipeline", "done"}
        /\ faults' = faults \/ faults' = faults + 1
        /\ UNCHANGED durable
    BY <1>1, <1>b, GoToStage DEF CheckKey
  <2> QED
    BY <1>a, <2>1 DEF durable
<1>2. CASE NoTrade(p, j)
  <2>1. /\ stage[p][j] = "pipeline" /\ stage'[p][j] \in {"mark", "done"}
        /\ UNCHANGED <<faults, traded>> /\ UNCHANGED durable
    BY <1>2, GoToStage DEF NoTrade, lockVars, vars
  <2> QED
    BY <1>a, <2>1 DEF durable
<1>3. CASE PlaceOrder(p, j)
  <2>1. /\ stage[p][j] = "pipeline" /\ stage'[p][j] \in {"mark", "save"}
        /\ UNCHANGED <<candle, traded, saved, posted, manual>>
    BY <1>3, GoToStage DEF PlaceOrder
  <2>2. \/ stage'[p][j] = "mark" /\ UNCHANGED <<faults, orders>>
        \/ /\ stage'[p][j] = "save" /\ UNCHANGED faults
           /\ orders' = Bump(orders, g)
        \/ /\ stage'[p][j] = "mark" /\ faults' = faults + 1
           /\ orders' = Bump(orders, g)
    BY <1>3, <1>b, GoToStage DEF PlaceOrder
  <2>3. orders' = Bump(orders, g) => orders'[h] = orders[h] + Bit(h = g)
    BY <1>0, <1>a, BumpAt
  <2> QED
    BY <1>a, <2>1, <2>2, <2>3
<1>4. CASE SaveTrade(p, j)
  <2>1. /\ stage[p][j] = "save" /\ stage'[p][j] \in {"mark", "done"}
        /\ UNCHANGED <<candle, orders, posted, manual>>
    BY <1>4, GoToStage DEF SaveTrade
  <2>2. \/ /\ saved' = Bump(saved, g) /\ stage'[p][j] = "mark"
           /\ faults' = faults
        \/ /\ saved' \in {saved, Bump(saved, g)} /\ stage'[p][j] = "done"
           /\ faults' = faults + 1
    BY <1>4, <1>b, GoToStage DEF SaveTrade
  <2>3. saved' = Bump(saved, g) => saved'[h] = saved[h] + Bit(h = g)
    BY <1>0, <1>a, BumpAt
  <2> QED
    BY <1>a, <2>1, <2>2, <2>3
<1>5. CASE MarkKey(p, j)
  <2>1. /\ stage[p][j] = "mark"
        /\ stage'[p][j] = IF traded[p][j] THEN "record" ELSE "done"
        /\ faults' = faults \/ faults' = faults + 1
        /\ UNCHANGED <<candle, traded, orders, saved, posted, manual>>
    BY <1>5, <1>b, GoToStage DEF MarkKey
  <2> QED
    BY <1>a, <2>1
<1>6. CASE RecordTrade(p, j)
  <2>1. /\ stage[p][j] = "record" /\ stage'[p][j] = "done"
        /\ posted' \in {posted, Bump(posted, g)}
        /\ UNCHANGED <<candle, traded, orders, saved, manual, faults>>
    BY <1>6, GoToStage DEF RecordTrade, lockVars, vars
  <2>2. posted' = Bump(posted, g) => posted'[h] = posted[h] + Bit(h = g)
    BY <1>0, <1>a, BumpAt
  <2> QED
    BY <1>a, <2>1, <2>2
<1>7. CASE Timeout(p, j)
  <2>1. /\ stage'[p][j] = "done" /\ faults' = faults + 1
        /\ UNCHANGED <<candle, traded, orders, posted, manual>>
    BY <1>7, <1>b, GoToStage DEF Timeout
  <2>2. \/ stage[p][j] \in {"check", "pipeline", "mark"} /\ UNCHANGED saved
        \/ stage[p][j] = "save" /\ saved' \in {saved, Bump(saved, g)}
    BY <1>7, GoToStage DEF Timeout
  <2>3. saved' = Bump(saved, g) => saved'[h] = saved[h] + Bit(h = g)
    BY <1>0, <1>a, BumpAt
  <2> QED
    BY <1>a, <2>1, <2>2, <2>3
<1> QED
  BY <1>1, <1>2, <1>3, <1>4, <1>5, <1>6, <1>7 DEF BodyStep

(* The steps that are neither a cycle's nor a crash touch no row and no job *)
(* that owes one; an order they add is a manual one.                        *)
LEMMA QuietBooks ==
  ASSUME CycleTypeOK, NEW h \in Hours, [CycleNext]_cycleVars,
         ~\E p \in Processes, j \in Jobs : BodyStep(p, j),
         ~\E p \in Processes : Restart(p)
  PROVE  /\ UNCHANGED <<saved, posted>>
         /\ Cardinality(Saving(h)') = Cardinality(Saving(h))
         /\ Cardinality(Recording(h)') = Cardinality(Recording(h))
         /\ orders[h] <= orders'[h]
         /\ orders'[h] + manual <= orders[h] + manual'
         /\ faults <= faults'
<1>a. orders[h] \in Nat /\ faults \in Nat /\ manual \in Nat
  BY Amounts
<1>b. faults <= faults'
  BY <1>a, CycleStepOfLock DEF LockAsBefore, Next, Fire, JobStep, Grant, Refuse,
     Enter, CallRelease, SkipRelease, Unlock, Discard, Abort, LoseConnection,
     Crash, Fault, vars
<1>1. CASE ManualRun
  <2>1. UNCHANGED <<stage, candle, traded, saved, posted>> /\ manual' = manual + 1
    BY <1>1 DEF ManualRun, jobVars
  <2>2. orders' = Bump(orders, hour)
    BY <1>1 DEF ManualRun
  <2>3. orders'[h] = orders[h] + Bit(h = hour)
    BY <2>2, BumpAt DEF CycleTypeOK
  <2> QED
    BY <1>a, <1>b, <2>1, <2>3 DEF Saving, Recording, IsRecording, Bit
<1>2. ASSUME NEW p \in Processes, NEW j \in Jobs, EnterBody(p, j) \/ LeaveBody(p, j)
      PROVE  /\ UNCHANGED <<orders, saved, posted, manual>>
             /\ Cardinality(Saving(h)') = Cardinality(Saving(h))
             /\ Cardinality(Recording(h)') = Cardinality(Recording(h))
  <2>1. UNCHANGED durable /\ OthersStay(p, j)
    BY <1>2, BodyOfJob DEF EnterBody, LeaveBody
  <2>2. stage[p][j] \in {"none", "done"} /\ stage'[p][j] \in {"none", "check", "done"}
    BY <1>2, GoToStage DEF EnterBody, LeaveBody
  <2>3. /\ ~IsSaving(p, j, h) /\ ~IsSaving(p, j, h)'
        /\ ~IsRecording(p, j, h) /\ ~IsRecording(p, j, h)'
    BY <2>2 DEF IsSaving, IsRecording
  <2> QED
    BY <2>1, <2>3, SavingCount, RecordingCount DEF durable, Bit
<1>3. ASSUME UNCHANGED <<stage, candle, traded>>, UNCHANGED durable
      PROVE  /\ UNCHANGED <<orders, saved, posted, manual>>
             /\ Cardinality(Saving(h)') = Cardinality(Saving(h))
             /\ Cardinality(Recording(h)') = Cardinality(Recording(h))
  BY <1>3 DEF Saving, Recording, IsRecording, durable
<1> QED
  BY <1>a, <1>b, <1>1, <1>2, <1>3
  DEF CycleNext, Step, NextHour, Misfire, FireJob, LockStep, Disconnect,
      jobVars, cycleVars

(* A crash takes jobs out of the books and changes no row.                  *)
LEMMA CrashBooks ==
  ASSUME CycleTypeOK, NEW h, NEW p \in Processes, Restart(p)
  PROVE  /\ UNCHANGED durable
         /\ faults' = faults + 1
         /\ Saving(h)' = {t \in Saving(h) : t[1] # p}
         /\ Recording(h)' \subseteq Recording(h)
<1>1. /\ \A j \in Jobs : stage'[p][j] = "none"
      /\ \A q \in Processes \ {p} : stage'[q] = stage[q] /\ traded'[q] = traded[q]
      /\ candle' = candle
  BY DEF Restart, CycleTypeOK
<1>2. UNCHANGED durable /\ faults' = faults + 1
  BY DEF Restart, Crash, Fault
<1>3. ASSUME NEW t \in Processes \X Jobs
      PROVE  /\ t \in Saving(h)' <=> t \in Saving(h) /\ t[1] # p
             /\ t \in Recording(h)' => t \in Recording(h)
  <2>1. t[1] \in Processes /\ t[2] \in Jobs
    OBVIOUS
  <2> QED
    BY <1>1, <2>1 DEF Saving, Recording, IsRecording
<1>4. /\ Saving(h) \subseteq Processes \X Jobs
      /\ Saving(h)' \subseteq Processes \X Jobs
      /\ Recording(h)' \subseteq Processes \X Jobs
  BY DEF Saving, Recording
<1> QED
  BY <1>2, <1>3, <1>4

LEMMA BookSizes ==
  ASSUME NEW h
  PROVE  /\ IsFiniteSet(Saving(h)) /\ Cardinality(Saving(h)) \in Nat
         /\ IsFiniteSet(Recording(h)) /\ Cardinality(Recording(h)) \in Nat
         /\ IsFiniteSet(Saving(h)') /\ Cardinality(Saving(h)') \in Nat
         /\ IsFiniteSet(Recording(h)') /\ Cardinality(Recording(h)') \in Nat
<1>1. /\ Saving(h) \in SUBSET (Processes \X Jobs)
      /\ Recording(h) \in SUBSET (Processes \X Jobs)
      /\ Saving(h)' \in SUBSET (Processes \X Jobs)
      /\ Recording(h)' \in SUBSET (Processes \X Jobs)
  BY DEF Saving, Recording
<1> QED
  BY <1>1, PlacesFinite

LEMMA BackedStep ==
  ASSUME CycleTypeOK, CycleTypeOK', StageOfRunning, RowsBacked, [CycleNext]_cycleVars
  PROVE  RowsBacked'
<1> SUFFICES ASSUME NEW h \in Hours PROVE Backed(h)'
  BY DEF RowsBacked, Hours
<1>0. Backed(h)
  BY DEF RowsBacked
<1>a. /\ orders[h] \in Nat /\ saved[h] \in Nat /\ posted[h] \in Nat
      /\ orders'[h] \in Nat /\ saved'[h] \in Nat /\ posted'[h] \in Nat
  BY DEF CycleTypeOK
<1>1. ASSUME NEW p \in Processes, NEW j \in Jobs, BodyStep(p, j) PROVE Backed(h)'
  <2>1. OthersStay(p, j)
    BY <1>1, BodyOfJob
  <2> QED
    BY <1>0, <1>1, <1>a, <2>1, BodyFlow, SavingCount, RecordingCount DEF Backed, Bit
<1>2. ASSUME NEW p \in Processes, Restart(p) PROVE Backed(h)'
  <2>1. UNCHANGED durable /\ Saving(h)' \subseteq Saving(h)
        /\ Recording(h)' \subseteq Recording(h)
    BY <1>2, CrashBooks
  <2>2. /\ Cardinality(Saving(h)') <= Cardinality(Saving(h))
        /\ Cardinality(Recording(h)') <= Cardinality(Recording(h))
    BY <2>1, BookSizes, FS_Subset
  <2> QED
    BY <1>0, <1>a, <2>1, <2>2, BookSizes DEF Backed, durable
<1>3. CASE /\ ~\E p \in Processes, j \in Jobs : BodyStep(p, j)
           /\ ~\E p \in Processes : Restart(p)
  BY <1>0, <1>3, <1>a, QuietBooks, BookSizes DEF Backed
<1> QED
  BY <1>1, <1>2, <1>3

LEMMA CycleIInvariant == CycleSpec => []CycleIInv
<1>1. CycleInit => CycleIInv
  <2> SUFFICES ASSUME CycleInit PROVE CycleIInv
    OBVIOUS
  <2>1. CycleTypeOK /\ IInv
    BY CycleTypeInit, TypeInit, OneSessionInit, CoverInit DEF CycleInit, IInv
  <2>2. StageOfRunning
    BY DEF CycleInit, Init, StageOfRunning, Located
  <2>3. ASSUME NEW h \in Hours PROVE Backed(h)
    <3>1. Saving(h) = {} /\ Recording(h) = {}
      BY DEF CycleInit, Saving, Recording, IsRecording
    <3>2. orders[h] = 0 /\ saved[h] = 0 /\ posted[h] = 0
      BY DEF CycleInit
    <3> QED
      BY <3>1, <3>2, FS_EmptySet DEF Backed
  <2> QED
    BY <2>1, <2>2, <2>3 DEF CycleIInv, RowsBacked
<1>2. CycleIInv /\ [CycleNext]_cycleVars => CycleIInv'
  BY CycleTypeStep, LockKept, LocatedStep, BackedStep DEF CycleIInv
<1> QED
  BY <1>1, <1>2, PTL DEF CycleSpec

(* The trades table has no phantoms: through every retry, timeout and crash *)
(* of any number of overlapping jobs a row of save_trade stands for an      *)
(* accepted order and a row of create_trade for a row of save_trade.        *)
THEOREM NoPhantomTradesHolds == CycleSpec => []NoPhantomTrades
<1>1. CycleIInv => NoPhantomTrades
  <2> SUFFICES ASSUME CycleIInv, NEW h \in Hours
               PROVE  posted[h] <= saved[h] /\ saved[h] <= orders[h]
    BY DEF NoPhantomTrades
  <2>1. Backed(h) /\ orders[h] \in Nat /\ saved[h] \in Nat /\ posted[h] \in Nat
    BY Amounts DEF CycleIInv, RowsBacked
  <2> QED
    BY <2>1, BookSizes DEF Backed
<1> QED
  BY <1>1, CycleIInvariant, PTL

(* Through crashes, timeouts and failed statements of the cycles the jobs   *)
(* of two processes overlap only after a lost connection.                   *)
THEOREM CycleExclusionHolds == CycleSpec => []CrossProcessExclusion
<1>1. CycleIInv => CrossProcessExclusion
  BY RunningHasGrant DEF CycleIInv, IInv, OneSession, CrossProcessExclusion
<1> QED
  BY <1>1, CycleIInvariant, PTL

-----------------------------------------------------------------------------
(* What a fault may cost: one order of each trading job of a process.       *)

LEMMA WidthType ==
  /\ Width \in Nat
  /\ \A j \in TradingJobs : Width >= 1
<1>1. IsFiniteSet(TradingJobs)
  BY JobsAssumption, ConstantsAssumption, FS_Subset DEF TradingJobs
<1> QED
  BY <1>1, FS_CardinalityType, FS_EmptySet DEF Width

LEMMA Times ==
  ASSUME NEW w \in Nat, NEW f \in Nat
  PROVE  w * f \in Nat /\ w * (f + 1) = w * f + w /\ w * (1 + f) = w + w * f
OBVIOUS

LEMMA Grows ==
  ASSUME NEW w \in Nat, NEW f \in Nat, NEW g \in Nat, g >= f
  PROVE  w * g >= w * f
<1>1. PICK d \in Nat : g = f + d
  OBVIOUS
<1>2. w * g = w * f + w * d
  BY <1>1
<1>3. w * f \in Nat /\ w * d \in Nat
  BY Times
<1> QED
  BY <1>2, <1>3

\* The budget of the faults, with one more.
LEMMA Budget ==
  ASSUME CycleTypeOK, CycleTypeOK'
  PROVE  /\ Width * faults \in Nat /\ Width * faults' \in Nat
         /\ faults' >= faults => Width * faults' >= Width * faults
         /\ faults' = faults + 1 => Width * faults' = Width * faults + Width
         /\ manual \in Nat /\ manual' \in Nat
<1> DEFINE w == Width
<1>1. /\ w \in Nat /\ faults \in Nat /\ faults' \in Nat
      /\ manual \in Nat /\ manual' \in Nat
  BY WidthType, JobsAssumption, ConstantsAssumption DEF CycleTypeOK, TypeOK
<1> HIDE DEF w
<1>2. w * faults \in Nat /\ w * faults' \in Nat
  BY <1>1, Times
<1>3. w * (faults + 1) = w * faults + w
  BY <1>1, Times
<1>4. faults' >= faults => w * faults' >= w * faults
  BY <1>1, Grows
<1>5. faults' = faults + 1 => w * faults' = w * faults + w
  BY <1>3
<1> QED
  BY <1>1, <1>2, <1>4, <1>5 DEF w

LEMMA OfOneProcess ==
  ASSUME NEW p, NEW S \in SUBSET ({p} \X TradingJobs)
  PROVE  IsFiniteSet(S) /\ Cardinality(S) \in Nat /\ Cardinality(S) <= Width
<1>1. IsFiniteSet(TradingJobs)
  BY JobsAssumption, ConstantsAssumption, FS_Subset DEF TradingJobs
<1>2. IsFiniteSet({p}) /\ Cardinality({p}) = 1
  BY FS_Singleton
<1>3. /\ IsFiniteSet({p} \X TradingJobs)
      /\ Cardinality({p} \X TradingJobs) = 1 * Width
  BY <1>1, <1>2, FS_Product DEF Width
<1>4. IsFiniteSet(S) /\ Cardinality(S) <= Cardinality({p} \X TradingJobs)
  BY <1>3, FS_Subset
<1> QED
  BY <1>3, <1>4, WidthType, FS_CardinalityType

\* What a set has more than another is what it has and the other has not.
LEMMA Surplus ==
  ASSUME NEW S, NEW T, IsFiniteSet(S), IsFiniteSet(T)
  PROVE  /\ IsFiniteSet(S \ T) /\ Cardinality(S \ T) \in Nat
         /\ Cardinality(S) <= Cardinality(T) + Cardinality(S \ T)
<1>1. IsFiniteSet(S \ T) /\ Cardinality(S \ T) = Cardinality(S) - Cardinality(S \cap T)
  BY FS_Difference
<1>2. IsFiniteSet(S \cap T) /\ Cardinality(S \cap T) <= Cardinality(T)
  <2>1. S \cap T \in SUBSET T
    OBVIOUS
  <2> QED
    BY <2>1, FS_Subset
<1> QED
  BY <1>1, <1>2, FS_CardinalityType

-----------------------------------------------------------------------------
(* No order goes missing without a fault.                                   *)

LEMMA AtMost ==
  ASSUME NEW a \in Nat, NEW b \in Nat, NEW d \in Nat, NEW w \in Nat,
         a <= b + d, d <= w
  PROVE  a <= b + w
OBVIOUS

\* Orders o, rows s, jobs k about to write one, cost c of the faults, manual runs m.
LEMMA StillCovered ==
  ASSUME NEW o \in Nat, NEW s \in Nat, NEW k \in Nat, NEW c \in Nat, NEW m \in Nat,
         NEW oo \in Nat, NEW ss \in Nat, NEW kk \in Nat, NEW cc \in Nat, NEW mm \in Nat,
         o <= s + k + c + m,
         oo + s + k + c + m <= o + ss + kk + cc + mm
  PROVE  oo <= ss + kk + cc + mm
OBVIOUS

\* A step of one job: it is about to write a row before (b) or after (bb) it.
LEMMA StepCovered ==
  ASSUME NEW o \in Nat, NEW s \in Nat, NEW k \in Nat, NEW c \in Nat, NEW f \in Nat,
         NEW oo \in Nat, NEW ss \in Nat, NEW kk \in Nat, NEW cc \in Nat, NEW ff \in Nat,
         NEW b \in Nat, NEW bb \in Nat, NEW m \in Nat,
         o <= s + k + c + m,
         oo + b + s + f <= o + bb + ss + ff,
         kk + b = k + bb,
         cc + f >= c + ff
  PROVE  oo <= ss + kk + cc + m
OBVIOUS

(* A crash loses the rows of the jobs of one process at most.               *)
LEMMA CrashLoses ==
  ASSUME CycleTypeOK, StageOfRunning, NEW h \in Hours, NEW p \in Processes, Restart(p)
  PROVE  Cardinality(Saving(h)) <= Cardinality(Saving(h)') + Width
<1>1. Saving(h)' = {t \in Saving(h) : t[1] # p}
  BY CrashBooks
<1>2. Saving(h) \ Saving(h)' \in SUBSET ({p} \X TradingJobs)
  BY <1>1 DEF Saving, StageOfRunning, Located
<1>3. Cardinality(Saving(h) \ Saving(h)') <= Width
  BY <1>2, OfOneProcess
<1>4. /\ IsFiniteSet(Saving(h)) /\ Cardinality(Saving(h)) \in Nat
      /\ IsFiniteSet(Saving(h)') /\ Cardinality(Saving(h)') \in Nat
  <2>1. /\ Saving(h) \in SUBSET (Processes \X Jobs)
        /\ Saving(h)' \in SUBSET (Processes \X Jobs)
    BY DEF Saving
  <2> QED
    BY <2>1, PlacesFinite
<1>5. /\ Cardinality(Saving(h) \ Saving(h)') \in Nat
      /\ Cardinality(Saving(h)) <= Cardinality(Saving(h)') + Cardinality(Saving(h) \ Saving(h)')
  BY <1>4, Surplus
<1> QED
  BY <1>3, <1>4, <1>5, WidthType, AtMost

LEMMA RecordedStep ==
  ASSUME CycleTypeOK, CycleTypeOK', StageOfRunning, OrdersRecorded, [CycleNext]_cycleVars
  PROVE  OrdersRecorded'
<1> SUFFICES ASSUME NEW h \in Hours PROVE Recorded(h)'
  BY DEF OrdersRecorded, Recorded, Hours, Width
<1>0. Recorded(h)
  BY DEF OrdersRecorded, Recorded
<1>a. /\ orders[h] \in Nat /\ saved[h] \in Nat
      /\ orders'[h] \in Nat /\ saved'[h] \in Nat
      /\ faults \in Nat /\ faults' \in Nat
      /\ manual \in Nat /\ manual' \in Nat
  BY JobsAssumption, ConstantsAssumption DEF CycleTypeOK, TypeOK
<1>b. /\ Width \in Nat /\ Width' = Width
      /\ Width * faults \in Nat /\ Width * faults' \in Nat
      /\ faults' >= faults => Width * faults' >= Width * faults
      /\ faults' = faults + 1 => Width * faults' = Width * faults + Width
  BY Budget, WidthType DEF Width
<1> DEFINE cost == Width * faults
           paid == Width * faults'
<1>c. /\ cost \in Nat /\ paid \in Nat
      /\ faults' >= faults => paid >= cost
      /\ faults' = faults + 1 => paid = cost + Width
  BY <1>b
<1>d. /\ Recorded(h) = (orders[h] <= saved[h] + Cardinality(Saving(h)) + cost + manual)
      /\ Recorded(h)' = (orders'[h] <= saved'[h] + Cardinality(Saving(h)') + paid + manual')
  BY <1>b DEF Recorded
<1>e. Cardinality(Saving(h)) \in Nat /\ Cardinality(Saving(h)') \in Nat
  <2>1. /\ Saving(h) \in SUBSET (Processes \X Jobs)
        /\ Saving(h)' \in SUBSET (Processes \X Jobs)
    BY DEF Saving
  <2> QED
    BY <2>1, PlacesFinite
<1> HIDE DEF cost, paid
<1>1. ASSUME NEW p \in Processes, NEW j \in Jobs, BodyStep(p, j) PROVE Recorded(h)'
  <2>1. OthersStay(p, j)
    BY <1>1, BodyOfJob
  <2>2. j \in TradingJobs /\ Width >= 1
    <3>1. stage[p][j] \notin {"none", "done"}
      BY <1>1, GoToStage
      DEF BodyStep, CheckKey, NoTrade, PlaceOrder, SaveTrade, MarkKey, RecordTrade, Timeout
    <3> QED
      BY <3>1, WidthType DEF StageOfRunning, Located
  <2>3. faults' = faults \/ faults' = faults + 1
    BY <1>1
    DEF BodyStep, CheckKey, NoTrade, PlaceOrder, SaveTrade, MarkKey, RecordTrade, Timeout,
        Fault, lockVars, vars
  <2>4. /\ orders'[h] + Bit(IsSaving(p, j, h)) + saved[h] + faults
             <= orders[h] + Bit(IsSaving(p, j, h)') + saved'[h] + faults'
        /\ manual' = manual
    BY <1>1, BodyFlow
  <2>5. /\ Cardinality(Saving(h)) \in Nat /\ Cardinality(Saving(h)') \in Nat
        /\ Cardinality(Saving(h)') + Bit(IsSaving(p, j, h))
             = Cardinality(Saving(h)) + Bit(IsSaving(p, j, h)')
    BY <2>1, SavingCount
  <2>6. Bit(IsSaving(p, j, h)) \in Nat /\ Bit(IsSaving(p, j, h)') \in Nat
    BY DEF Bit
  <2>7. paid + faults >= cost + faults'
    BY <1>a, <1>b, <1>c, <2>2, <2>3
  <2>8. orders[h] <= saved[h] + Cardinality(Saving(h)) + cost + manual
    BY <1>0, <1>d
  <2>9. orders'[h] <= saved'[h] + Cardinality(Saving(h)') + paid + manual
    BY <1>a, <1>c, <2>4, <2>5, <2>6, <2>7, <2>8, StepCovered
  <2> QED
    BY <1>d, <2>4, <2>9
<1>2. ASSUME NEW p \in Processes, Restart(p) PROVE Recorded(h)'
  <2>1. faults' = faults + 1 /\ UNCHANGED <<orders, saved, manual>>
    BY <1>2, CrashBooks DEF durable
  <2>2. Cardinality(Saving(h)) <= Cardinality(Saving(h)') + Width
    BY <1>2, CrashLoses
  <2>3. orders[h] <= saved[h] + Cardinality(Saving(h)) + cost + manual
    BY <1>0, <1>d
  <2>4. orders'[h] = orders[h] /\ saved'[h] = saved[h] /\ manual' = manual /\ paid = cost + Width
    BY <1>c, <2>1
  <2>5. orders'[h] + saved[h] + Cardinality(Saving(h)) + cost + manual
          <= orders[h] + saved'[h] + Cardinality(Saving(h)') + paid + manual'
    BY <1>a, <1>b, <1>c, <1>e, <2>2, <2>4
  <2>6. orders'[h] <= saved'[h] + Cardinality(Saving(h)') + paid + manual'
    BY <1>a, <1>c, <1>e, <2>3, <2>5, StillCovered
  <2> QED
    BY <1>d, <2>6
<1>3. CASE /\ ~\E p \in Processes, j \in Jobs : BodyStep(p, j)
           /\ ~\E p \in Processes : Restart(p)
  <2>1. /\ saved' = saved
        /\ Cardinality(Saving(h)') = Cardinality(Saving(h))
        /\ orders'[h] + manual <= orders[h] + manual'
        /\ faults <= faults'
    BY <1>3, QuietBooks
  <2>2. orders[h] <= saved[h] + Cardinality(Saving(h)) + cost + manual
    BY <1>0, <1>d
  <2>3. orders'[h] + saved[h] + Cardinality(Saving(h)) + cost + manual
          <= orders[h] + saved'[h] + Cardinality(Saving(h)') + paid + manual'
    BY <1>a, <1>c, <1>e, <2>1
  <2>4. orders'[h] <= saved'[h] + Cardinality(Saving(h)') + paid + manual'
    BY <1>a, <1>c, <1>e, <2>2, <2>3, StillCovered
  <2> QED
    BY <1>d, <2>4
<1> QED
  BY <1>1, <1>2, <1>3

(* Every accepted order is saved, or about to be, but for one per manual    *)
(* run and one of each trading job of a process per fault: no path from the *)
(* order to the end of the job forgets it.                                  *)
THEOREM OrdersRecordedHolds == CycleSpec => []OrdersRecorded
<1>1. CycleInit => OrdersRecorded
  <2> SUFFICES ASSUME CycleInit, NEW h \in Hours PROVE Recorded(h)
    BY DEF OrdersRecorded, Recorded
  <2>1. orders[h] = 0 /\ saved[h] = 0 /\ faults = 0 /\ manual = 0
    BY DEF CycleInit, Init
  <2> QED
    BY <2>1, BookSizes, WidthType DEF Recorded
<1>2. CycleIInv /\ CycleIInv' /\ OrdersRecorded /\ [CycleNext]_cycleVars => OrdersRecorded'
  BY RecordedStep DEF CycleIInv
<1> QED
  BY <1>1, <1>2, CycleIInvariant, PTL DEF CycleSpec

-----------------------------------------------------------------------------
(* A fault yields one duplicate of each trading job of a process at most.   *)

\* A job that may still send an order for candle h which is not covered by the
\* lock: it has passed the check for h, or it has the lock or is before its check
\* although its connection, and with it the lock, is lost.
Owes(p, j, h) ==
  /\ j \in TradingJobs
  /\ \/ stage[p][j] = "pipeline" /\ candle[p][j] = h
     \/ session[p] = "dead" /\ (pc[p][j] = "granted" \/ stage[p][j] = "check")

Owed(h) == {t \in Processes \X Jobs : Owes(t[1], t[2], h)}

\* A job under the lock that is between the check and the mark of candle h.
Covers(p, j, h) ==
  /\ session[p] # "dead" /\ candle[p][j] = h
  /\ stage[p][j] \in {"pipeline", "save", "mark"}

Covering(h) == {t \in Processes \X Jobs : Covers(t[1], t[2], h)}

\* What the key allows: an order of each trading job of the process that marks it,
\* and as long as it is not marked, of each that has passed the check.
Allowed(h) == IF h \in keys THEN Width ELSE Cardinality(Covering(h))

\* The orders sent and owed for candle h.
Paid(h) == orders[h] + Cardinality(Owed(h)) <= Allowed(h) + Width * faults + manual

DebtPaid == \A h \in Hours : Paid(h)

LEMMA OwedSize ==
  ASSUME NEW h
  PROVE  /\ IsFiniteSet(Owed(h)) /\ Cardinality(Owed(h)) \in Nat
         /\ IsFiniteSet(Owed(h)') /\ Cardinality(Owed(h)') \in Nat
         /\ IsFiniteSet(Covering(h)) /\ Cardinality(Covering(h)) \in Nat
         /\ IsFiniteSet(Covering(h)') /\ Cardinality(Covering(h)') \in Nat
<1>1. /\ Owed(h) \in SUBSET (Processes \X Jobs)
      /\ Owed(h)' \in SUBSET (Processes \X Jobs)
      /\ Covering(h) \in SUBSET (Processes \X Jobs)
      /\ Covering(h)' \in SUBSET (Processes \X Jobs)
  BY DEF Owed, Covering
<1> QED
  BY <1>1, PlacesFinite

LEMMA OwedCount ==
  ASSUME NEW p \in Processes, NEW j \in Jobs, NEW h, OthersStay(p, j),
         UNCHANGED session,
         \A q \in Processes, i \in Jobs :
           ~(q = p /\ i = j) => pc'[q][i] = pc[q][i]
  PROVE  Cardinality(Owed(h)') + Bit(Owes(p, j, h))
           = Cardinality(Owed(h)) + Bit(Owes(p, j, h)')
<1>1. /\ <<p, j>> \in Owed(h) <=> Owes(p, j, h)
      /\ <<p, j>> \in Owed(h)' <=> Owes(p, j, h)'
  BY DEF Owed, Owes
<1>2. Owed(h) \ {<<p, j>>} = Owed(h)' \ {<<p, j>>}
  <2>1. ASSUME NEW t \in Processes \X Jobs, t # <<p, j>>
        PROVE  t \in Owed(h) <=> t \in Owed(h)'
    <3>1. ~(t[1] = p /\ t[2] = j)
      BY <2>1
    <3>2. Owes(t[1], t[2], h) <=> Owes(t[1], t[2], h)'
      BY <3>1 DEF Owes, OthersStay
    <3> QED
      BY <3>2 DEF Owed
  <2> QED
    BY <2>1 DEF Owed
<1>3. /\ Cardinality(Owed(h)') + Bit(<<p, j>> \in Owed(h))
           = Cardinality(Owed(h)) + Bit(<<p, j>> \in Owed(h)')
  BY <1>2, OwedSize, ChangeOne
<1> QED
  BY <1>1, <1>3 DEF Bit

LEMMA CoveringCount ==
  ASSUME NEW p \in Processes, NEW j \in Jobs, NEW h, OthersStay(p, j), UNCHANGED session
  PROVE  Cardinality(Covering(h)') + Bit(Covers(p, j, h))
           = Cardinality(Covering(h)) + Bit(Covers(p, j, h)')
<1>1. /\ <<p, j>> \in Covering(h) <=> Covers(p, j, h)
      /\ <<p, j>> \in Covering(h)' <=> Covers(p, j, h)'
  BY DEF Covering, Covers
<1>2. Covering(h) \ {<<p, j>>} = Covering(h)' \ {<<p, j>>}
  <2>1. ASSUME NEW t \in Processes \X Jobs, t # <<p, j>>
        PROVE  t \in Covering(h) <=> t \in Covering(h)'
    <3>1. ~(t[1] = p /\ t[2] = j)
      BY <2>1
    <3>2. Covers(t[1], t[2], h) <=> Covers(t[1], t[2], h)'
      BY <3>1 DEF Covers, OthersStay
    <3> QED
      BY <3>2 DEF Covering
  <2> QED
    BY <2>1 DEF Covering
<1>3. /\ Cardinality(Covering(h)') + Bit(<<p, j>> \in Covering(h))
           = Cardinality(Covering(h)) + Bit(<<p, j>> \in Covering(h)')
  BY <1>2, OwedSize, ChangeOne
<1> QED
  BY <1>1, <1>3 DEF Bit

(* The jobs under the lock are of one process.                              *)
LEMMA CoveringOfOne ==
  ASSUME CycleIInv, NEW h
  PROVE  Cardinality(Covering(h)) <= Width
<1>1. CASE Covering(h) = {}
  BY <1>1, FS_EmptySet, WidthType
<1>2. CASE Covering(h) # {}
  <2>1. PICK t \in Covering(h) : TRUE
    BY <1>2
  <2>2. ASSUME NEW u \in Covering(h) PROVE u \in {t[1]} \X TradingJobs
    <3>1. /\ t[1] \in Processes /\ t[2] \in Jobs /\ Covers(t[1], t[2], h)
          /\ u \in Processes \X Jobs /\ Covers(u[1], u[2], h)
      BY <2>1, <2>2 DEF Covering
    <3>2. /\ pc[t[1]][t[2]] = "running" /\ session[t[1]] # "dead"
          /\ pc[u[1]][u[2]] = "running" /\ session[u[1]] # "dead"
          /\ u[2] \in TradingJobs
      BY <3>1 DEF Covers, CycleIInv, StageOfRunning, Located
    <3>3. u[1] = t[1]
      BY <3>1, <3>2, RunningHasGrant DEF CycleIInv, IInv, OneSession
    <3> QED
      BY <3>1, <3>2, <3>3
  <2>3. Covering(h) \in SUBSET ({t[1]} \X TradingJobs)
    BY <2>2
  <2> QED
    BY <2>3, OfOneProcess
<1> QED
  BY <1>1, <1>2

\* Orders o, owed d, allowed a, cost c, manual runs m; loss l by a fault.
LEMMA StillPaid ==
  ASSUME NEW o \in Nat, NEW d \in Nat, NEW a \in Nat, NEW c \in Nat, NEW m \in Nat,
         NEW oo \in Nat, NEW dd \in Nat, NEW aa \in Nat, NEW cc \in Nat, NEW mm \in Nat,
         NEW l \in Nat,
         o + d <= a + c + m,
         cc >= c + l,
         oo + dd + m + a <= o + d + mm + aa + l
  PROVE  oo + dd <= aa + cc + mm
OBVIOUS

(* A step that is no fault, or is a small one: what it adds is covered.     *)
LEMMA PaidQuiet ==
  ASSUME CycleIInv, CycleIInv', NEW h \in Hours, Paid(h), NEW loss \in Nat,
         keys \in SUBSET keys', manual <= manual',
         faults <= faults',
         faults' = faults => loss = 0, faults' # faults => loss <= Width,
         faults' \in {faults, faults + 1},
         h \notin keys' =>
           orders'[h] + Cardinality(Owed(h)') + manual + Cardinality(Covering(h))
             <= orders[h] + Cardinality(Owed(h)) + manual' + Cardinality(Covering(h)') + loss,
         h \in keys' =>
           orders'[h] + Cardinality(Owed(h)') + manual
             <= orders[h] + Cardinality(Owed(h)) + manual' + loss
  PROVE  Paid(h)'
<1> CycleTypeOK /\ CycleTypeOK'
  BY DEF CycleIInv
<1> DEFINE cost == Width * faults
           paid == Width * faults'
           O == Cardinality(Owed(h))
           OO == Cardinality(Owed(h)')
           C == Cardinality(Covering(h))
           CC == Cardinality(Covering(h)')
<1>1. /\ orders[h] \in Nat /\ orders'[h] \in Nat
      /\ faults \in Nat /\ manual \in Nat /\ manual' \in Nat
      /\ O \in Nat /\ OO \in Nat /\ C \in Nat /\ CC \in Nat
      /\ Width \in Nat /\ cost \in Nat /\ paid \in Nat
  BY OwedSize, Budget, WidthType, Amounts DEF CycleTypeOK
<1>2. C <= Width
  BY CoveringOfOne
<1>3. paid >= cost + loss
  <2>1. CASE faults' = faults
    <3>1. loss = 0 /\ paid = cost
      BY <2>1
    <3> HIDE DEF paid, cost
    <3> QED
      BY <1>1, <3>1
  <2>2. CASE faults' = faults + 1
    <3>1. paid = cost + Width
      BY <2>2, Budget
    <3>2. loss <= Width
      BY <1>1, <2>2
    <3> HIDE DEF paid, cost
    <3> QED
      BY <1>1, <3>1, <3>2
  <2> QED
    BY <2>1, <2>2
<1>4. Width' = Width
  BY DEF Width
<1>5. /\ orders[h] + O <= (IF h \in keys THEN Width ELSE C) + cost + manual
      /\ Paid(h)' = (orders'[h] + OO <= (IF h \in keys' THEN Width ELSE CC) + paid + manual')
  BY <1>4 DEF Paid, Allowed
<1> HIDE DEF cost, paid, O, OO, C, CC
<1>6. CASE h \in keys'
  <2>1. orders'[h] + OO + manual <= orders[h] + O + manual' + loss
    BY <1>6 DEF O, OO
  <2>2. orders[h] + O <= Width + cost + manual
    BY <1>1, <1>2, <1>5
  <2>3. orders'[h] + OO + manual + Width <= orders[h] + O + manual' + Width + loss
    BY <1>1, <2>1
  <2>4. orders'[h] + OO <= Width + paid + manual'
    BY <1>1, <1>3, <2>2, <2>3, StillPaid
  <2> QED
    BY <1>5, <1>6, <2>4
<1>7. CASE h \notin keys'
  <2>1. orders'[h] + OO + manual + C <= orders[h] + O + manual' + CC + loss
    BY <1>7 DEF O, OO, C, CC
  <2>2. orders[h] + O <= C + cost + manual
    BY <1>5, <1>7
  <2>3. orders'[h] + OO <= CC + paid + manual'
    BY <1>1, <1>3, <2>1, <2>2, StillPaid
  <2> QED
    BY <1>5, <1>7, <2>3
<1> QED
  BY <1>6, <1>7

(* The steps of a cycle.                                                    *)
LEMMA PaidByBody ==
  ASSUME CycleIInv, CycleIInv', NEW h \in Hours, Paid(h),
         NEW p \in Processes, NEW j \in Jobs, BodyStep(p, j)
  PROVE  Paid(h)'
<1> CycleTypeOK /\ CycleTypeOK'
  BY DEF CycleIInv
<1> DEFINE g == candle[p][j]
<1>0. /\ g \in Hours /\ orders \in [Hours -> Nat]
      /\ orders[h] \in Nat /\ orders'[h] \in Nat /\ faults \in Nat
      /\ manual \in Nat
  BY Amounts DEF CycleTypeOK
<1>1. OthersStay(p, j) /\ UNCHANGED <<session, pc>> /\ manual' = manual
  <2>1. OthersStay(p, j)
    BY BodyOfJob
  <2>2. UNCHANGED <<session, pc, manual>>
    BY DEF BodyStep, CheckKey, NoTrade, PlaceOrder, SaveTrade, MarkKey,
           RecordTrade, Timeout, lockVars, vars, durable
  <2> QED
    BY <2>1, <2>2
<1>2. /\ Cardinality(Owed(h)) \in Nat /\ Cardinality(Owed(h)') \in Nat
      /\ Cardinality(Owed(h)') + Bit(Owes(p, j, h))
           = Cardinality(Owed(h)) + Bit(Owes(p, j, h)')
      /\ Cardinality(Covering(h)) \in Nat /\ Cardinality(Covering(h)') \in Nat
      /\ Cardinality(Covering(h)') + Bit(Covers(p, j, h))
           = Cardinality(Covering(h)) + Bit(Covers(p, j, h)')
  BY <1>1, OwedCount, CoveringCount, OwedSize
<1>3. j \in TradingJobs /\ Width \in Nat /\ Width >= 1 /\ pc[p][j] = "running"
  <2>1. stage[p][j] \notin {"none", "done"}
    BY GoToStage
    DEF BodyStep, CheckKey, NoTrade, PlaceOrder, SaveTrade, MarkKey, RecordTrade, Timeout
  <2> QED
    BY <2>1, WidthType DEF CycleIInv, StageOfRunning, Located
<1>b. ASSUME NEW kind, Fault(kind) PROVE faults' = faults + 1
  BY <1>b DEF Fault
\* A step within the budget of its faults.
<1>c. ASSUME keys \in SUBSET keys', faults' \in {faults, faults + 1},
             NEW loss \in {0, 1}, faults' = faults => loss = 0,
             h \notin keys' =>
               orders'[h] + Bit(Owes(p, j, h)') + Bit(Covers(p, j, h))
                 <= orders[h] + Bit(Owes(p, j, h)) + Bit(Covers(p, j, h)') + loss,
             h \in keys' =>
               orders'[h] + Bit(Owes(p, j, h)') <= orders[h] + Bit(Owes(p, j, h)) + loss
      PROVE  Paid(h)'
  <2>1. /\ Bit(Owes(p, j, h)) \in Nat /\ Bit(Owes(p, j, h)') \in Nat
        /\ Bit(Covers(p, j, h)) \in Nat /\ Bit(Covers(p, j, h)') \in Nat
    BY DEF Bit
  <2>2. /\ faults <= faults' /\ manual <= manual'
        /\ loss \in Nat /\ (faults' # faults => loss <= Width)
    BY <1>0, <1>1, <1>3, <1>c
  <2> HIDE DEF Bit
  <2>3. h \notin keys' =>
          orders'[h] + Cardinality(Owed(h)') + manual + Cardinality(Covering(h))
            <= orders[h] + Cardinality(Owed(h)) + manual' + Cardinality(Covering(h)') + loss
    BY <1>0, <1>1, <1>2, <1>c, <2>1, <2>2
  <2>4. h \in keys' =>
          orders'[h] + Cardinality(Owed(h)') + manual
            <= orders[h] + Cardinality(Owed(h)) + manual' + loss
    BY <1>0, <1>1, <1>2, <1>c, <2>1, <2>2
  <2> QED
    BY <1>c, <2>2, <2>3, <2>4, PaidQuiet
<1> HIDE DEF g
<1>5. CASE CheckKey(p, j)
  <2>1. /\ stage[p][j] = "check" /\ candle'[p][j] = hour
        /\ \/ hour \in keys /\ stage'[p][j] = "done" /\ faults' = faults
           \/ hour \notin keys /\ stage'[p][j] = "pipeline" /\ faults' = faults
           \/ stage'[p][j] \in {"pipeline", "done"} /\ faults' = faults + 1
        /\ UNCHANGED <<orders, keys>>
    BY <1>5, <1>b, GoToStage DEF CheckKey, durable, CycleTypeOK
  <2>2. ~Covers(p, j, h)
    BY <2>1 DEF Covers
  <2>3. CASE session[p] = "dead" \/ stage'[p][j] = "done" \/ h # hour
    <3>1. Owes(p, j, h)' => Owes(p, j, h)
      BY <1>1, <1>3, <2>1, <2>3 DEF Owes
    <3> QED
      BY <1>0, <1>c, <2>1, <2>2, <3>1 DEF Bit
  <2>4. CASE session[p] # "dead" /\ stage'[p][j] = "pipeline" /\ h = hour
    <3>1. Covers(p, j, h)'
      BY <1>1, <2>1, <2>4 DEF Covers
    <3>2. faults' = faults => h \notin keys'
      BY <1>0, <2>1, <2>4
    <3>3. CASE faults' = faults
      BY <1>0, <1>c, <2>1, <2>2, <3>1, <3>2, <3>3 DEF Bit
    <3>4. CASE faults' = faults + 1
      BY <1>0, <1>c, <2>1, <2>2, <3>1, <3>4 DEF Bit
    <3> QED
      BY <2>1, <3>3, <3>4
  <2> QED
    BY <2>1, <2>3, <2>4
<1>6. CASE NoTrade(p, j)
  <2>1. /\ stage[p][j] = "pipeline" /\ stage'[p][j] \in {"mark", "done"}
        /\ UNCHANGED <<faults, candle, orders, keys>>
    BY <1>6, GoToStage DEF NoTrade, lockVars, vars, durable
  <2>2. ~Owes(p, j, h)'
    BY <1>1, <1>3, <2>1 DEF Owes
  <2>3. Covers(p, j, h) => Owes(p, j, h)
    BY <1>3, <2>1 DEF Owes, Covers
  <2> QED
    BY <1>0, <1>c, <2>1, <2>2, <2>3 DEF Bit
<1>7. CASE PlaceOrder(p, j)
  <2>1. /\ stage[p][j] = "pipeline" /\ stage'[p][j] \in {"mark", "save"}
        /\ orders' \in {orders, Bump(orders, g)}
        /\ faults' = faults \/ faults' = faults + 1
        /\ UNCHANGED <<candle, keys>>
    BY <1>7, <1>b, GoToStage DEF PlaceOrder, g
  <2>2. orders'[h] <= orders[h] + Bit(h = g)
    BY <1>0, <2>1, BumpAt DEF Bit
  <2>3. ~Owes(p, j, h)' /\ (h = g => Owes(p, j, h))
    BY <1>1, <1>3, <2>1 DEF Owes, g
  <2>4. Covers(p, j, h) => Covers(p, j, h)'
    BY <1>1, <2>1 DEF Covers
  <2> QED
    BY <1>0, <1>c, <2>1, <2>2, <2>3, <2>4 DEF Bit
<1>8. CASE SaveTrade(p, j)
  <2>1. /\ stage[p][j] = "save"
        /\ \/ stage'[p][j] = "mark" /\ faults' = faults
           \/ stage'[p][j] = "done" /\ faults' = faults + 1
        /\ UNCHANGED <<candle, keys, orders>>
    BY <1>8, <1>b, GoToStage DEF SaveTrade
  <2>2. ~Owes(p, j, h)'
    BY <1>1, <1>3, <2>1 DEF Owes
  <2>3. CASE faults' = faults
    <3>1. Covers(p, j, h) => Covers(p, j, h)'
      BY <1>0, <1>1, <2>1, <2>3 DEF Covers
    <3> QED
      BY <1>0, <1>c, <2>1, <2>2, <2>3, <3>1 DEF Bit
  <2>4. CASE faults' = faults + 1
    BY <1>0, <1>c, <2>1, <2>2, <2>4 DEF Bit
  <2> QED
    BY <2>1, <2>3, <2>4
<1>9. CASE MarkKey(p, j)
  <2>1. /\ stage[p][j] = "mark" /\ stage'[p][j] \in {"record", "done"}
        /\ \/ keys' = keys \cup {g} /\ faults' = faults
           \/ keys' = keys /\ faults' = faults + 1
        /\ UNCHANGED <<candle, orders>>
    BY <1>9, <1>b, GoToStage DEF MarkKey, g
  <2>2. ~Owes(p, j, h)'
    BY <1>1, <1>3, <2>1 DEF Owes
  <2>3. CASE keys' = keys \cup {g} /\ faults' = faults
    <3>1. h \notin keys' => ~Covers(p, j, h)
      BY <2>3 DEF Covers, g
    <3> QED
      BY <1>0, <1>c, <2>1, <2>2, <2>3, <3>1 DEF Bit
  <2>4. CASE keys' = keys /\ faults' = faults + 1
    BY <1>0, <1>c, <2>1, <2>2, <2>4 DEF Bit
  <2> QED
    BY <2>1, <2>3, <2>4
<1>10. CASE RecordTrade(p, j)
  <2>1. /\ stage[p][j] = "record" /\ stage'[p][j] = "done"
        /\ UNCHANGED <<candle, orders, keys, faults>>
    BY <1>10, GoToStage DEF RecordTrade, lockVars, vars
  <2>2. ~Owes(p, j, h)' /\ ~Covers(p, j, h)
    BY <1>1, <1>3, <2>1 DEF Owes, Covers
  <2> QED
    BY <1>0, <1>c, <2>1, <2>2 DEF Bit
<1>11. CASE Timeout(p, j)
  <2>1. /\ stage[p][j] # "none" /\ stage'[p][j] = "done"
        /\ faults' = faults + 1 /\ UNCHANGED orders /\ keys \in SUBSET keys'
    BY <1>11, <1>b, GoToStage DEF Timeout
  <2>2. ~Owes(p, j, h)'
    BY <1>1, <1>3, <2>1 DEF Owes
  <2> QED
    BY <1>0, <1>c, <2>1, <2>2 DEF Bit
<1> QED
  BY <1>5, <1>6, <1>7, <1>8, <1>9, <1>10, <1>11 DEF BodyStep

(* The steps of the lock.                                                   *)
LEMMA PaidByLock ==
  ASSUME CycleIInv, CycleIInv', NEW h \in Hours, Paid(h),
         NEW p \in Processes, NEW j \in Jobs, FireJob(p, j) \/ LockStep(p, j)
  PROVE  Paid(h)'
<1> CycleTypeOK /\ TypeOK
  BY DEF CycleIInv, CycleTypeOK
<1>1. UNCHANGED <<stage, candle, orders, keys, manual>>
  BY DEF FireJob, LockStep, jobVars, durable
<1>2. faults' = faults \/ faults' = faults + 1
  BY DEF FireJob, LockStep, Fire, Grant, Refuse, Unlock, Discard, Abort, Fault
<1>3. \A q \in Processes : session'[q] = "dead" <=> session[q] = "dead"
  BY DEF FireJob, LockStep, Fire, Grant, Refuse, Unlock, Discard, Abort, TypeOK
<1>4. /\ session[p] # "dead"
      \/ \A i \in Jobs : pc'[p][i] = "granted" => pc[p][i] = "granted"
  <2>1. CASE Grant(p, j)
    BY <2>1 DEF Grant
  <2>2. CASE ~Grant(p, j)
    <3>1. PICK from, to : Move(p, j, from, to) /\ to # "granted"
      BY <2>2 DEF FireJob, LockStep, Fire, Refuse, Unlock, Discard, Abort
    <3> QED
      BY <3>1, MovePc
  <2> QED
    BY <2>1, <2>2
<1>5. \A q \in Processes \ {p}, i \in Jobs : pc'[q][i] = pc[q][i]
  <2>1. PICK from, to : Move(p, j, from, to)
    BY DEF FireJob, LockStep, Fire, Grant, Refuse, Unlock, Discard, Abort
  <2> QED
    BY <2>1, MovePc
<1>6. Owed(h)' \subseteq Owed(h)
  <2>1. ASSUME NEW q \in Processes, NEW i \in Jobs, Owes(q, i, h)'
        PROVE  Owes(q, i, h)
    BY <1>1, <1>3, <1>4, <1>5, <2>1 DEF Owes
  <2> QED
    BY <2>1 DEF Owed
<1>7. Cardinality(Owed(h)') <= Cardinality(Owed(h))
  BY <1>6, OwedSize, FS_Subset
<1>8. Covering(h)' = Covering(h)
  BY <1>1, <1>3 DEF Covering, Covers
<1>9. /\ orders[h] \in Nat /\ faults \in Nat /\ manual \in Nat /\ Width \in Nat
  BY Amounts, WidthType
<1> QED
  BY <1>1, <1>2, <1>7, <1>8, <1>9, OwedSize, PaidQuiet

(* A job enters or leaves its body.                                         *)
LEMMA PaidByEntry ==
  ASSUME CycleIInv, CycleIInv', NEW h \in Hours, Paid(h),
         NEW p \in Processes, NEW j \in Jobs, EnterBody(p, j) \/ LeaveBody(p, j)
  PROVE  Paid(h)'
<1> CycleTypeOK /\ TypeOK
  BY DEF CycleIInv, CycleTypeOK
<1>1. /\ UNCHANGED <<candle, orders, keys, manual, faults, session>>
      /\ OthersStay(p, j)
  BY BodyOfJob
  DEF EnterBody, LeaveBody, Enter, CallRelease, SkipRelease, durable
<1>2. \/ /\ Move(p, j, "granted", "running")
         /\ GoTo(p, j, "none", IF j \in TradingJobs THEN "check" ELSE "done")
      \/ /\ Move(p, j, "running", "unlocking") \/ Move(p, j, "running", "idle")
         /\ GoTo(p, j, "done", "none")
  BY DEF EnterBody, LeaveBody, Enter, CallRelease, SkipRelease
<1>3. /\ \A q \in Processes, i \in Jobs :
           ~(q = p /\ i = j) => pc'[q][i] = pc[q][i]
      /\ \/ pc[p][j] = "granted" /\ stage'[p][j] \in {"check", "done"}
         \/ stage'[p][j] = "none"
      /\ pc'[p][j] # "granted"
      /\ stage[p][j] \in {"none", "done"}
  BY <1>2, MovePc, GoToStage
<1>4. Owes(p, j, h)' => Owes(p, j, h)
  BY <1>1, <1>3 DEF Owes
<1>5. Cardinality(Owed(h)') + Bit(Owes(p, j, h))
        = Cardinality(Owed(h)) + Bit(Owes(p, j, h)')
  BY <1>1, <1>3, OwedCount
<1>6. Cardinality(Owed(h)') <= Cardinality(Owed(h))
  BY <1>4, <1>5, OwedSize DEF Bit
<1>7. Covering(h)' = Covering(h)
  <2>1. ASSUME NEW q \in Processes, NEW i \in Jobs
        PROVE  Covers(q, i, h)' <=> Covers(q, i, h)
    BY <1>1, <1>3 DEF Covers, OthersStay
  <2> QED
    BY <2>1 DEF Covering
<1>8. orders[h] \in Nat /\ faults \in Nat /\ manual \in Nat
  BY Amounts
<1> QED
  BY <1>1, <1>6, <1>7, <1>8, OwedSize, PaidQuiet

(* A crash takes away the jobs that were covered: those of one process.     *)
LEMMA PaidByRestart ==
  ASSUME CycleIInv, CycleIInv', NEW h \in Hours, Paid(h),
         NEW p \in Processes, Restart(p)
  PROVE  Paid(h)'
<1> CycleTypeOK /\ TypeOK
  BY DEF CycleIInv, CycleTypeOK
<1>1. /\ UNCHANGED <<candle, orders, keys, manual>> /\ faults' = faults + 1
      /\ \A i \in Jobs : stage'[p][i] = "none" /\ pc'[p][i] = "idle"
      /\ \A q \in Processes \ {p} :
           session'[q] = session[q] /\ stage'[q] = stage[q] /\ pc'[q] = pc[q]
  BY DEF Restart, Crash, Fault, durable, CycleTypeOK, TypeOK
<1>2. Owed(h)' \subseteq Owed(h)
  <2>1. ASSUME NEW q \in Processes, NEW i \in Jobs, Owes(q, i, h)'
        PROVE  Owes(q, i, h)
    BY <1>1, <2>1 DEF Owes
  <2> QED
    BY <2>1 DEF Owed
<1>3. Cardinality(Owed(h)') <= Cardinality(Owed(h))
  BY <1>2, OwedSize, FS_Subset
<1>4. orders[h] \in Nat /\ faults \in Nat /\ manual \in Nat /\ Width \in Nat
  BY Amounts, WidthType
<1>5. Cardinality(Covering(h)) <= Width
  BY CoveringOfOne
<1> QED
  BY <1>1, <1>3, <1>4, <1>5, OwedSize, PaidQuiet

(* A lost connection uncovers the trading jobs of its process: before the   *)
(* check they owe an order now, after it they cover none any more.          *)
LEMMA PaidByDisconnect ==
  ASSUME CycleIInv, CycleIInv', NEW h \in Hours, Paid(h),
         NEW p \in Processes, Disconnect(p)
  PROVE  Paid(h)'
<1> CycleTypeOK /\ TypeOK
  BY DEF CycleIInv, CycleTypeOK
<1>1. /\ UNCHANGED <<stage, pc, candle, orders, keys, manual>>
      /\ faults' = faults + 1
      /\ \A q \in Processes \ {p} : session'[q] = session[q]
      /\ session[p] # "dead"
  BY DEF Disconnect, LoseConnection, Fault, jobVars, durable, TypeOK
<1> DEFINE New == Owed(h)' \ Owed(h)
           Gone == Covering(h) \ Covering(h)'
<1>2. ASSUME NEW t \in New
      PROVE  /\ t \in {p} \X TradingJobs
             /\ pc[p][t[2]] = "granted" \/ stage[p][t[2]] = "check"
  <2>1. /\ t \in Processes \X Jobs /\ Owes(t[1], t[2], h)' /\ ~Owes(t[1], t[2], h)
    BY <1>2 DEF Owed
  <2>2. t[1] = p
    BY <1>1, <2>1 DEF Owes
  <2> QED
    BY <1>1, <2>1, <2>2 DEF Owes
<1>3. ASSUME NEW t \in Gone
      PROVE  /\ t \in {p} \X TradingJobs /\ pc[p][t[2]] = "running"
             /\ stage[p][t[2]] # "check"
  <2>1. t \in Processes \X Jobs /\ Covers(t[1], t[2], h) /\ ~Covers(t[1], t[2], h)'
    BY <1>3 DEF Covering
  <2>2. t[1] = p
    BY <1>1, <2>1 DEF Covers
  <2> QED
    BY <2>1, <2>2 DEF Covers, CycleIInv, StageOfRunning, Located
<1>4. /\ New \cap Gone = {} /\ New \cup Gone \in SUBSET ({p} \X TradingJobs)
  BY <1>2, <1>3
<1>5. /\ IsFiniteSet(New) /\ IsFiniteSet(Gone)
      /\ Cardinality(New) \in Nat /\ Cardinality(Gone) \in Nat
      /\ Cardinality(Owed(h)') <= Cardinality(Owed(h)) + Cardinality(New)
      /\ Cardinality(Covering(h)) <= Cardinality(Covering(h)') + Cardinality(Gone)
  BY OwedSize, Surplus
<1>6. Cardinality(New) + Cardinality(Gone) <= Width
  <2>1. Cardinality(New \cup Gone) = Cardinality(New) + Cardinality(Gone) - 0
    BY <1>4, <1>5, FS_Union, FS_EmptySet
  <2>2. Cardinality(New \cup Gone) <= Width
    BY <1>4, OfOneProcess
  <2> QED
    BY <1>5, <2>1, <2>2
<1>7. orders[h] \in Nat /\ faults \in Nat /\ manual \in Nat /\ Width \in Nat
  BY Amounts, WidthType
<1> DEFINE loss == Cardinality(New) + Cardinality(Gone)
<1>8. loss \in Nat /\ loss <= Width
  BY <1>5, <1>6
<1>9. /\ orders'[h] + Cardinality(Owed(h)') + manual + Cardinality(Covering(h))
           <= orders[h] + Cardinality(Owed(h)) + manual' + Cardinality(Covering(h)') + loss
      /\ orders'[h] + Cardinality(Owed(h)') + manual
           <= orders[h] + Cardinality(Owed(h)) + manual' + loss
  BY <1>1, <1>5, <1>7, OwedSize
<1> HIDE DEF loss, New, Gone
<1> QED
  BY <1>1, <1>7, <1>8, <1>9, PaidQuiet

LEMMA PaidStep ==
  ASSUME CycleIInv, CycleIInv', DebtPaid, [CycleNext]_cycleVars
  PROVE  DebtPaid'
<1> SUFFICES ASSUME NEW h \in Hours PROVE Paid(h)'
  BY DEF DebtPaid, Hours
<1> CycleTypeOK
  BY DEF CycleIInv
<1>0. Paid(h)
  BY DEF DebtPaid
<1>a. orders[h] \in Nat /\ faults \in Nat /\ manual \in Nat /\ Width \in Nat
  BY Amounts, WidthType
<1>1. ASSUME NEW p \in Processes, NEW j \in Jobs, Step(p, j) \/ FireJob(p, j)
      PROVE  Paid(h)'
  BY <1>0, <1>1, PaidByBody, PaidByLock, PaidByEntry DEF Step
<1>2. ASSUME NEW p \in Processes, Restart(p) \/ Disconnect(p) PROVE Paid(h)'
  BY <1>0, <1>2, PaidByRestart, PaidByDisconnect
<1>3. CASE ManualRun
  <2>1. /\ UNCHANGED <<stage, candle, pc, session, keys, faults>>
        /\ manual' = manual + 1 /\ orders' = Bump(orders, hour)
    BY <1>3 DEF ManualRun, lockVars, vars, jobVars
  <2>2. orders'[h] = orders[h] + Bit(h = hour)
    BY <2>1, BumpAt DEF CycleTypeOK
  <2>3. Owed(h)' = Owed(h) /\ Covering(h)' = Covering(h)
    BY <2>1 DEF Owed, Owes, Covering, Covers
  <2>4. orders'[h] + Cardinality(Owed(h)') + manual
          <= orders[h] + Cardinality(Owed(h)) + manual'
    BY <1>a, <2>1, <2>2, <2>3, OwedSize DEF Bit
  <2>5. orders'[h] \in Nat
    BY <1>a, <2>2 DEF Bit
  <2> QED
    BY <1>0, <1>a, <2>1, <2>3, <2>4, <2>5, OwedSize, PaidQuiet
<1>4. ASSUME UNCHANGED <<stage, candle, pc, session, keys, faults, orders, manual>>
      PROVE  Paid(h)'
  BY <1>0, <1>4 DEF Paid, Allowed, Owed, Owes, Covering, Covers, Width
<1> QED
  BY <1>1, <1>2, <1>3, <1>4
  DEF CycleNext, NextHour, Misfire, cycleVars, lockVars, vars, jobVars, durable

(* On every candle, lock and key let one order of each trading job of a     *)
(* process through; all others are paid for, by a manual run each, or by a  *)
(* fault: for any number of processes, hours and faults, with any number of *)
(* trading jobs, and whatever other jobs share the lock.                    *)
THEOREM DuplicatesCostFaultsHolds == CycleSpec => []DuplicatesCostFaults
<1>1. CycleInit => DebtPaid
  <2> SUFFICES ASSUME CycleInit, NEW h \in Hours PROVE Paid(h)
    BY DEF DebtPaid
  <2>1. Owed(h) = {} /\ Covering(h) = {}
    BY DEF CycleInit, Init, Owed, Owes, Covering, Covers
  <2>2. orders[h] = 0 /\ faults = 0 /\ manual = 0
    BY DEF CycleInit, Init
  <2>3. Cardinality(Owed(h)) = 0 /\ Cardinality(Covering(h)) = 0 /\ Width \in Nat
    BY <2>1, FS_EmptySet, WidthType
  <2>4. Allowed(h) \in Nat
    BY <2>3 DEF Allowed
  <2> QED
    BY <2>2, <2>3, <2>4 DEF Paid
<1>2. CycleIInv /\ CycleIInv' /\ DebtPaid /\ [CycleNext]_cycleVars => DebtPaid'
  BY PaidStep
<1>3. CycleIInv /\ DebtPaid => DuplicatesCostFaults
  <2> SUFFICES ASSUME CycleIInv, DebtPaid, NEW h \in Hours
               PROVE  orders[h] <= Width * (1 + faults) + manual
    BY DEF DuplicatesCostFaults
  <2> DEFINE w == Width
  <2>1. orders[h] \in Nat /\ faults \in Nat /\ manual \in Nat /\ w \in Nat
    BY Amounts, WidthType DEF CycleIInv
  <2>2. Allowed(h) <= w
    BY CoveringOfOne, WidthType DEF Allowed
  <2>3. Allowed(h) \in Nat
    BY <2>1, OwedSize DEF Allowed
  <2>4. orders[h] + Cardinality(Owed(h)) <= Allowed(h) + w * faults + manual
    BY DEF DebtPaid, Paid
  <2> HIDE DEF w
  <2>5. w * faults \in Nat /\ w * (1 + faults) = w + w * faults
    BY <2>1
  <2>6. orders[h] <= w * (1 + faults) + manual
    BY <2>1, <2>2, <2>3, <2>4, <2>5, OwedSize
  <2> QED
    BY <2>6 DEF w
<1> QED
  BY <1>1, <1>2, <1>3, CycleIInvariant, PTL DEF CycleSpec
=============================================================================
