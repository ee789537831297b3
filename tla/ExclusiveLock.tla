--------------------------- MODULE ExclusiveLock ---------------------------
(***************************************************************************)
(* What LockPort promises to the jobs that call it: acquire answers True   *)
(* to one client at a time, and the lock is free again once that client    *)
(* has released it or is gone.  A client is what the lock tells apart: a   *)
(* process with PostgreSQL, a job with the lock in memory.                 *)
(***************************************************************************)
CONSTANT Clients

VARIABLE holders  \* the clients that have the lock

Init == holders = {}

Acquire(c) ==
  /\ holders = {}
  /\ holders' = {c}

Release(c) ==
  /\ c \in holders
  /\ holders' = holders \ {c}

Next == \E c \in Clients : Acquire(c) \/ Release(c)

Spec == Init /\ [][Next]_holders

-----------------------------------------------------------------------------
(* No two clients have the lock at once.                                    *)
MutualExclusion == \A c, d \in holders : c = d
=============================================================================
