-------------------------------- MODULE Fifo --------------------------------
(***************************************************************************)
(* What an interrupt queue promises: bytes come out in the order they went *)
(* in, each once, and at most Capacity of them are held.                   *)
(***************************************************************************)
EXTENDS Naturals, Sequences

CONSTANTS Byte, Capacity

VARIABLES
  items,  \* the bytes held, oldest first
  out     \* the byte last taken

Init == items = <<>> /\ out \in Byte

Put(b) ==
  /\ Len(items) < Capacity
  /\ items' = Append(items, b)
  /\ UNCHANGED out

Get ==
  /\ items # <<>>
  /\ out' = Head(items)
  /\ items' = Tail(items)

Next == Get \/ \E b \in Byte : Put(b)

Spec == Init /\ [][Next]_<<items, out>>
=============================================================================
