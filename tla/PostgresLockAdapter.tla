------------------------ MODULE PostgresLockAdapter ------------------------
(***************************************************************************)
(* The lock "trading_cycle" as the scheduler jobs use it: every job takes  *)
(* it with PostgresAdvisoryLockAdapter.acquire, runs, and gives it back    *)
(* with release in a finally block.                                        *)
(*                                                                         *)
(* One process has one Container, hence one adapter, hence one SQLAlchemy  *)
(* session, shared by all the jobs of its event loop.  PostgreSQL counts   *)
(* advisory locks per session: the same session may take the same lock     *)
(* again, and must then give it back as many times.  The adapter records   *)
(* what it holds in a set.  An await splits acquire and release into the   *)
(* call, the statement on the server and the return to the coroutine; the  *)
(* statements of one connection are serialised by its driver.              *)
(***************************************************************************)
EXTENDS Integers, FiniteSets

CONSTANTS
  Processes,   \* scheduler processes, each with an adapter of its own
  Jobs,        \* the job ids of a process that take the lock
  FaultKinds,  \* the kinds of fault the environment may produce (strings)
  MaxFaults,   \* bound: faults in one behaviour
  MaxGrants    \* bound: no job fires when its session holds this many grants

ASSUME ConstantsAssumption ==
  /\ IsFiniteSet(Jobs)
  /\ MaxFaults \in Nat
  /\ MaxGrants \in Nat \ {0}

VARIABLES
  grants,     \* grants[p]: how often the server has lock 1001 granted to p's session
  session,    \* the adapter's _session and the state of its connection
  heldLocks,  \* heldLocks[p]: "trading_cycle" is in _held_locks
  pc,         \* pc[p][j]: where job j of process p is
  faults      \* faults so far

vars == <<grants, session, heldLocks, pc, faults>>

\* "fresh": AsyncSession created, not connected yet.  "aborted": a statement
\* failed and nothing rolls the transaction back.  "dead": connection lost;
\* is_active stays true, so _get_session keeps returning this session.
SessionState == {"none", "fresh", "open", "aborted", "dead"}

JobState == {"idle", "asking", "granted", "running", "unlocking", "unlocked"}

TypeOK ==
  /\ grants \in [Processes -> Nat]
  /\ session \in [Processes -> SessionState]
  /\ heldLocks \in [Processes -> BOOLEAN]
  /\ pc \in [Processes -> [Jobs -> JobState]]
  /\ faults \in 0 .. MaxFaults

Init ==
  /\ grants = [p \in Processes |-> 0]
  /\ session = [p \in Processes |-> "none"]
  /\ heldLocks = [p \in Processes |-> FALSE]
  /\ pc = [p \in Processes |-> [j \in Jobs |-> "idle"]]
  /\ faults = 0

Move(p, j, from, to) ==
  /\ pc[p][j] = from
  /\ pc' = [pc EXCEPT ![p][j] = to]

Fault(kind) ==
  /\ kind \in FaultKinds
  /\ faults < MaxFaults
  /\ faults' = faults + 1

FreeForOthers(p) == \A q \in Processes \ {p} : grants[q] = 0

-----------------------------------------------------------------------------
(* Wrong forms of the actions below, each a slip the code could have made;  *)
(* the properties are tested against them.                                  *)

\* The lock id is not the same in every process (say, hash of a string).
GrantOwnId(p, j) ==
  /\ session[p] \in {"fresh", "open"}
  /\ Move(p, j, "asking", "granted")
  /\ grants' = [grants EXCEPT ![p] = @ + 1]
  /\ session' = [session EXCEPT ![p] = "open"]
  /\ UNCHANGED <<heldLocks, faults>>

\* release sends pg_advisory_unlock_all.
UnlockAll(p, j) ==
  /\ Move(p, j, "unlocking", "unlocked")
  /\ grants' = [grants EXCEPT ![p] = 0]
  /\ UNCHANGED <<session, heldLocks, faults>>

\* The name is discarded only after an unlock that worked.
DiscardIfUnlocked(p, j) ==
  /\ Move(p, j, "unlocked", "idle")
  /\ heldLocks' = [heldLocks EXCEPT ![p] = session[p] # "open" /\ @]
  /\ UNCHANGED <<grants, session, faults>>

-----------------------------------------------------------------------------
(* The scheduler fires job j: it calls acquire, which calls _get_session    *)
(* and sends pg_try_advisory_lock.  A job id has at most one instance.      *)
Fire(p, j) ==
  /\ grants[p] < MaxGrants
  /\ Move(p, j, "idle", "asking")
  /\ session' = [session EXCEPT ![p] = IF @ = "none" THEN "fresh" ELSE @]
  /\ UNCHANGED <<grants, heldLocks, faults>>

(* The server grants the lock: no other session has it.  It does not ask    *)
(* whether this session has it already.                                     *)
Grant(p, j) ==
  /\ session[p] \in {"fresh", "open"}
  /\ FreeForOthers(p)
  /\ Move(p, j, "asking", "granted")
  /\ grants' = [grants EXCEPT ![p] = @ + 1]
  /\ session' = [session EXCEPT ![p] = "open"]
  /\ UNCHANGED <<heldLocks, faults>>

(* acquire returns False, and the job returns: another session has the      *)
(* lock; or the statement raised, because the session is unusable or, while *)
(* it is connecting, in use by another job.                                 *)
Refuse(p, j) ==
  /\ \/ session[p] \in {"fresh", "open"} /\ ~FreeForOthers(p)
     \/ session[p] \in {"aborted", "dead"}
     \/ session[p] = "fresh" /\ \E i \in Jobs \ {j} : pc[p][i] = "asking"
  /\ Move(p, j, "asking", "idle")
  /\ session' = [session EXCEPT ![p] =
                   IF @ = "fresh" /\ ~FreeForOthers(p) THEN "open" ELSE @]
  /\ UNCHANGED <<grants, heldLocks, faults>>

(* acquire returns True: the name is in _held_locks and the job runs.       *)
Enter(p, j) ==
  /\ Move(p, j, "granted", "running")
  /\ heldLocks' = [heldLocks EXCEPT ![p] = TRUE]
  /\ UNCHANGED <<grants, session, faults>>

(* The finally block calls release and the name is in _held_locks.          *)
CallRelease(p, j) ==
  /\ heldLocks[p]
  /\ Move(p, j, "running", "unlocking")
  /\ UNCHANGED <<grants, session, heldLocks, faults>>

(* release returns at once: another job of the process took the name out of *)
(* the set.  Nothing is sent to the server.                                 *)
SkipRelease(p, j) ==
  /\ ~heldLocks[p]
  /\ Move(p, j, "running", "idle")
  /\ UNCHANGED <<grants, session, heldLocks, faults>>

(* pg_advisory_unlock takes one grant away, or raises on a broken session.  *)
Unlock(p, j) ==
  /\ Move(p, j, "unlocking", "unlocked")
  /\ grants' = [grants EXCEPT ![p] = IF session[p] = "open" /\ @ > 0
                                     THEN @ - 1 ELSE @]
  /\ UNCHANGED <<session, heldLocks, faults>>

(* Either way release discards the name, and the job ends.                  *)
Discard(p, j) ==
  /\ Move(p, j, "unlocked", "idle")
  /\ heldLocks' = [heldLocks EXCEPT ![p] = FALSE]
  /\ UNCHANGED <<grants, session, faults>>

-----------------------------------------------------------------------------
(* A lock statement fails on a live connection: acquire answers False,      *)
(* release logs the error, and neither rolls back.                          *)
Abort(p, j) ==
  /\ Fault("abort")
  /\ session[p] = "open"
  /\ \/ Move(p, j, "asking", "idle")
     \/ Move(p, j, "unlocking", "unlocked")
  /\ session' = [session EXCEPT ![p] = "aborted"]
  /\ UNCHANGED <<grants, heldLocks>>

(* The connection breaks: the server drops the grants of the session.       *)
LoseConnection(p) ==
  /\ Fault("loss")
  /\ session[p] \in {"open", "aborted"}
  /\ session' = [session EXCEPT ![p] = "dead"]
  /\ grants' = [grants EXCEPT ![p] = 0]
  /\ UNCHANGED <<heldLocks, pc>>

(* The process stops and is started again with a new adapter.               *)
Crash(p) ==
  /\ Fault("crash")
  /\ grants' = [grants EXCEPT ![p] = 0]
  /\ session' = [session EXCEPT ![p] = "none"]
  /\ heldLocks' = [heldLocks EXCEPT ![p] = FALSE]
  /\ pc' = [pc EXCEPT ![p] = [j \in Jobs |-> "idle"]]

-----------------------------------------------------------------------------
JobStep(p, j) ==
  \/ Grant(p, j)
  \/ Refuse(p, j)
  \/ Enter(p, j)
  \/ CallRelease(p, j)
  \/ SkipRelease(p, j)
  \/ Unlock(p, j)
  \/ Discard(p, j)

Next ==
  \/ \E p \in Processes, j \in Jobs : \/ Fire(p, j)
                                      \/ JobStep(p, j)
                                      \/ Abort(p, j)
  \/ \E p \in Processes : LoseConnection(p) \/ Crash(p)

\* Cron triggers keep firing, statements are answered, and a job body ends:
\* trading_job under wait_for(600), position_management_job after one pass.
Fairness ==
  \A p \in Processes, j \in Jobs : WF_vars(Fire(p, j)) /\ WF_vars(JobStep(p, j))

Spec == Init /\ [][Next]_vars /\ Fairness

-----------------------------------------------------------------------------
\* The jobs that have taken a grant and not yet sent the unlock for it.
Holders(p) == {j \in Jobs : pc[p][j] \in {"granted", "running", "unlocking"}}

\* What PostgreSQL guarantees, and the proofs build on: the lock is granted to
\* one session at a time.
OneSession ==
  \A p, q \in Processes : grants[p] > 0 /\ grants[q] > 0 => p = q

(* While the connection lives, the server counts at least one grant for     *)
(* every job between acquire and release: no release by one job takes away  *)
(* the grant of another, although they share a session and a set.           *)
GrantsCoverHolders ==
  \A p \in Processes : session[p] # "dead" => grants[p] >= Cardinality(Holders(p))

(* Jobs of two processes run at once only if one of them has lost its       *)
(* connection, which acquire's caller is never told.                        *)
CrossProcessExclusion ==
  \A p, q \in Processes : \A i, j \in Jobs :
    /\ p # q
    /\ pc[p][i] = "running"
    /\ pc[q][j] = "running"
    => "dead" \in {session[p], session[q]}

(* The name is in _held_locks only while some job of the process is between *)
(* acquire's return and release's: no exit path leaves it behind.           *)
HeldHasOwner ==
  \A p \in Processes : heldLocks[p] =>
    \E j \in Jobs : pc[p][j] \in {"running", "unlocking", "unlocked"}

\* The processes that rely on the lock: some job of theirs is between acquire
\* and release, and the connection is still there.
Relying == {p \in Processes : session[p] # "dead" /\ Holders(p) # {}}

(* However many jobs of a process overlap on its one session, in whatever   *)
(* order they release, and whatever statement, connection or process        *)
(* fails: to the processes it is the lock LockPort promises.  A process has *)
(* it from its first job that gets it to the last one that gives it back,   *)
(* or to its crash or the loss of its connection; nobody else gets it in    *)
(* between.  That it can be had again afterwards is not promised            *)
(* (IdleHoldsNothing).                                                      *)
Port == INSTANCE ExclusiveLock WITH Clients <- Processes, holders <- Relying

ImplementsPort == Port!Spec

(* Documented: the finally block always frees the lock (scheduler.py:577,   *)
(* "Lock release, always executed"): an idle process with a working session *)
(* holds nothing.  Two jobs that overlap are enough to break it.            *)
IdleHoldsNothing ==
  \A p \in Processes :
    session[p] = "open" /\ (\A j \in Jobs : pc[p][j] = "idle") => grants[p] = 0

(* Documented: after an error the next run recovers by itself               *)
(* (SCHEDULER_GUIDE.md, "automatic recovery: retry after an error").        *)
RunsAgainAfterError ==
  \A p \in Processes :
    session[p] \in {"aborted", "dead"} ~> \E j \in Jobs : pc[p][j] = "running"
=============================================================================
