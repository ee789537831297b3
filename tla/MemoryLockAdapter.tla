------------------------- MODULE MemoryLockAdapter -------------------------
(***************************************************************************)
(* InMemoryLockAdapter, the lock of a Container without a database: a set  *)
(* of names guarded by an asyncio.Lock.  release discards the name whoever *)
(* calls it; that only the job that acquired it calls it is the discipline *)
(* of the jobs (lock_acquired in their finally block).                     *)
(*                                                                         *)
(* Jobs of one process share the adapter.  The asyncio.Lock makes acquire  *)
(* and release atomic; the job resumes from either one later.              *)
(***************************************************************************)
CONSTANTS
  Jobs,   \* the job ids that take locks
  Names   \* lock names

VARIABLES
  locks,  \* _locks
  pc,     \* pc[j]: where job j is
  name    \* name[j]: the lock the job is about

vars == <<locks, pc, name>>

JobState == {"idle", "calling", "acquired", "refused", "running", "releasing"}

TypeOK ==
  /\ locks \in SUBSET Names
  /\ pc \in [Jobs -> JobState]
  /\ name \in [Jobs -> Names]

Init ==
  /\ locks = {}
  /\ pc = [j \in Jobs |-> "idle"]
  /\ name \in [Jobs -> Names]

Move(j, from, to) ==
  /\ pc[j] = from
  /\ pc' = [pc EXCEPT ![j] = to]

-----------------------------------------------------------------------------
(* Wrong forms of Acquire and Release, against which the properties are     *)
(* tested: no look at the set, the owner entered instead of the name, and   *)
(* release_all in place of release.                                         *)

AcquireUnasked(j) ==
  /\ Move(j, "calling", "acquired")
  /\ locks' = locks \cup {name[j]}
  /\ UNCHANGED name

ReleaseAll(j) ==
  /\ Move(j, "releasing", "idle")
  /\ locks' = {}
  /\ UNCHANGED name

-----------------------------------------------------------------------------
(* A job calls acquire(n) and waits for the asyncio.Lock.                   *)
CallAcquire(j, n) ==
  /\ Move(j, "idle", "calling")
  /\ name' = [name EXCEPT ![j] = n]
  /\ UNCHANGED locks

Acquire(j) ==
  \/ /\ name[j] \notin locks
     /\ Move(j, "calling", "acquired")
     /\ locks' = locks \cup {name[j]}
     /\ UNCHANGED name
  \/ /\ name[j] \in locks
     /\ Move(j, "calling", "refused")
     /\ UNCHANGED <<locks, name>>

(* The job resumes: it runs if it was given the lock, else it returns.      *)
Resume(j) ==
  /\ Move(j, "acquired", "running") \/ Move(j, "refused", "idle")
  /\ UNCHANGED <<locks, name>>

(* The job ends, and its finally block calls release.                       *)
CallRelease(j) ==
  /\ Move(j, "running", "releasing")
  /\ UNCHANGED <<locks, name>>

Release(j) ==
  /\ Move(j, "releasing", "idle")
  /\ locks' = locks \ {name[j]}
  /\ UNCHANGED name

Next ==
  \E j \in Jobs : \/ \E n \in Names : CallAcquire(j, n)
                  \/ Acquire(j)
                  \/ Resume(j)
                  \/ CallRelease(j)
                  \/ Release(j)

Spec == Init /\ [][Next]_vars

-----------------------------------------------------------------------------
\* The jobs that own lock n: acquire set it for them, release has not run.
Owners(n) == {j \in Jobs : name[j] = n /\ pc[j] \in {"acquired", "running", "releasing"}}

(* A name is in the set exactly while one job owns it: acquire and release  *)
(* of different jobs and names never get out of step.                       *)
LocksMatchOwners ==
  /\ \A n \in Names : n \in locks <=> Owners(n) # {}
  /\ \A n \in Names : \A i, j \in Owners(n) : i = j

Port(n) == INSTANCE ExclusiveLock WITH Clients <- Jobs, holders <- Owners(n)

(* For each name the adapter implements the lock LockPort promises: every   *)
(* step of the jobs is, for each name, a step of ExclusiveLock or a stutter.*)
(* (The conjunction of Port(n)!Spec over the names, in the form TLC checks.)*)
ImplementsPort ==
  /\ \A n \in Names : Port(n)!Init
  /\ [][\A n \in Names : [Port(n)!Next]_(Owners(n))]_vars
=============================================================================
