------------------------------ MODULE MCTimer -------------------------------
(* Instances of Timer for TLC.                                             *)
EXTENDS Timer

CONSTANTS main, idle, a, b

(* One thread of high priority, the others of low.                         *)
MCStartPri == [t \in Thread |-> IF t = a THEN 2 ELSE 1]

(* A negative tick count (a .cfg file has no way to write one).            *)
MCNegative == {-1}
=============================================================================
