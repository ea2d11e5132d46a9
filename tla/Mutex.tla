------------------------------- MODULE Mutex --------------------------------
(***************************************************************************)
(* What the locks of threads/synch.c promise (the comment of lock_init,    *)
(* lines 161-175): a lock is held by at most one thread at a time, and the *)
(* thread that acquired it is the one that releases it.                    *)
(***************************************************************************)
CONSTANTS Thread, Lock, NULL

VARIABLE owner  \* the thread that holds each lock

Init == owner = [l \in Lock |-> NULL]

Acquire(t, l) ==
  /\ owner[l] = NULL
  /\ owner' = [owner EXCEPT ![l] = t]

Release(t, l) ==
  /\ owner[l] = t
  /\ owner' = [owner EXCEPT ![l] = NULL]

Next == \E t \in Thread, l \in Lock : Acquire(t, l) \/ Release(t, l)

Spec == Init /\ [][Next]_owner
=============================================================================
