------------------------------ MODULE MCSynch -------------------------------
(* Instances of the synchronisation primitives for TLC.                    *)
EXTENDS Synch

CONSTANTS main, idle, l

(* Every condition variable goes with the one client lock.                 *)
MCLockOf == [c \in Condition |-> l]
=============================================================================
