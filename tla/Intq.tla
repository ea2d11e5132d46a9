-------------------------------- MODULE Intq --------------------------------
(***************************************************************************)
(* The interrupt queue of devices/intq.c: a ring buffer shared by threads  *)
(* and interrupt handlers, on which threads wait.                          *)
(*                                                                         *)
(* The functions run with interrupts off, so a thread goes in one step     *)
(* from one point where it blocks to the next.  It blocks in wait(), with  *)
(* the queue's lock held, and in lock_acquire() when another thread holds  *)
(* the lock; the lock is the abstract one that Synch implements.           *)
(***************************************************************************)
EXTENDS Integers

CONSTANTS
  Reader,        \* the threads that call intq_getc()
  Writer,        \* the threads that call intq_putc()
  IntrGet,       \* whether an interrupt handler calls intq_getc()
  IntrPut,       \* whether an interrupt handler calls intq_putc()
  Byte,          \* the bytes
  NULL,          \* no thread
  INTQ_BUFSIZE   \* the size of the buffer

Client == Reader \cup Writer

VARIABLES
  buf, head, tail,      \* the ring buffer
  not_full, not_empty,  \* the thread that waits for each condition
  holder,               \* the thread that holds the queue's lock
  pc,                   \* where each thread is
  byte,                 \* the byte a writer is putting
  out,                  \* history: the byte intq_getc() last returned
  panic                 \* an ASSERT has failed

vars == <<buf, head, tail, not_full, not_empty, holder, pc, byte, out, panic>>

Pos == 0 .. (INTQ_BUFSIZE - 1)

TypeOK ==
  /\ buf \in [Pos -> Byte]
  /\ head \in Pos
  /\ tail \in Pos
  /\ not_full \in Writer \cup {NULL}
  /\ not_empty \in Reader \cup {NULL}
  /\ holder \in Client \cup {NULL}
  /\ pc \in [Client -> {"idle", "lock", "wait", "woken"}]
  /\ byte \in [Writer -> Byte]
  /\ out \in Byte
  /\ panic \in BOOLEAN

AnyByte == CHOOSE b \in Byte : TRUE

(* intq_init().                                                            *)
Init ==
  /\ buf = [p \in Pos |-> AnyByte]
  /\ head = 0
  /\ tail = 0
  /\ not_full = NULL
  /\ not_empty = NULL
  /\ holder = NULL
  /\ pc = [t \in Client |-> "idle"]
  /\ byte = [t \in Writer |-> AnyByte]
  /\ out = AnyByte
  /\ panic = FALSE

next(pos) == (pos + 1) % INTQ_BUFSIZE

intq_empty == head = tail

(* Mutant: the queue is never full.                                        *)
intq_full_never == FALSE

intq_full == next(head) = tail

-----------------------------------------------------------------------------
(* signal() of the waiter w, p being the rest of the step's effect on pc:  *)
(* thread_unblock() asserts that w is blocked.                             *)
Signal(w, p) ==
  /\ pc' = IF w = NULL THEN p ELSE [p EXCEPT ![w] = "woken"]
  /\ panic' = (w # NULL /\ p[w] # "wait")

(* Mutant: the waiter is not woken.                                        *)
Take_silent(p) ==
  /\ out' = buf[tail]
  /\ tail' = next(tail)
  /\ pc' = p
  /\ UNCHANGED <<buf, head, not_full, not_empty, byte, panic>>

(* The end of intq_getc().                                                 *)
Take(p) ==
  /\ out' = buf[tail]
  /\ tail' = next(tail)
  /\ Signal(not_full, p)
  /\ not_full' = NULL
  /\ UNCHANGED <<buf, head, not_empty, byte>>

(* The end of intq_putc(b).                                                *)
Store(b, p) ==
  /\ buf' = [buf EXCEPT ![head] = b]
  /\ head' = next(head)
  /\ Signal(not_empty, p)
  /\ not_empty' = NULL
  /\ UNCHANGED <<tail, not_full, out>>

(* wait(), entered with the lock held: it asserts that the condition it    *)
(* waits for is still false.                                               *)
Wait(t) ==
  /\ pc' = [pc EXCEPT ![t] = "wait"]
  /\ holder' = t
  /\ IF t \in Reader
     THEN not_empty' = t /\ panic' = ~intq_empty /\ UNCHANGED not_full
     ELSE not_full' = t /\ panic' = ~intq_full /\ UNCHANGED not_empty
  /\ UNCHANGED <<buf, head, tail, out>>

LockBlocks(t) ==
  /\ pc' = [pc EXCEPT ![t] = "lock"]
  /\ UNCHANGED <<buf, head, tail, not_full, not_empty, out, panic>>

(* The loop of intq_getc(), entered when the lock is held by lk.           *)
GetLoop(t, lk) ==
  /\ \/ intq_empty /\ lk = NULL /\ Wait(t)
     \/ intq_empty /\ lk # NULL /\ LockBlocks(t) /\ holder' = lk
     \/ ~intq_empty /\ Take([pc EXCEPT ![t] = "idle"]) /\ holder' = lk
  /\ UNCHANGED byte

(* The loop of intq_putc(b).                                               *)
PutLoop(t, b, lk) ==
  /\ \/ intq_full /\ lk = NULL /\ Wait(t)
     \/ intq_full /\ lk # NULL /\ LockBlocks(t) /\ holder' = lk
     \/ ~intq_full /\ Store(b, [pc EXCEPT ![t] = "idle"]) /\ holder' = lk
  /\ byte' = [byte EXCEPT ![t] = b]

intq_getc(t) == ~panic /\ pc[t] = "idle" /\ GetLoop(t, holder)

intq_putc(t, b) == ~panic /\ pc[t] = "idle" /\ PutLoop(t, b, holder)

(* A thread that waited for the lock gets it, and goes on to wait() with   *)
(* no second look at the queue.                                            *)
lock_acquire(t) ==
  /\ ~panic
  /\ pc[t] = "lock"
  /\ holder = NULL
  /\ Wait(t)
  /\ UNCHANGED byte

(* A thread that was signalled releases the lock and goes round the loop.  *)
resume(t) ==
  /\ ~panic
  /\ pc[t] = "woken"
  /\ \/ t \in Reader /\ GetLoop(t, NULL)
     \/ t \in Writer /\ PutLoop(t, byte[t], NULL)

(* An interrupt handler, which looks before it calls.                      *)
intr_getc == ~panic /\ IntrGet /\ ~intq_empty /\ Take(pc) /\ UNCHANGED holder

intr_putc(b) ==
  /\ ~panic /\ IntrPut
  /\ ~intq_full
  /\ Store(b, pc)
  /\ UNCHANGED <<holder, byte>>

Next ==
  \/ \E t \in Reader : intq_getc(t)
  \/ \E t \in Writer, b \in Byte : intq_putc(t, b)
  \/ \E t \in Client : lock_acquire(t) \/ resume(t)
  \/ intr_getc
  \/ \E b \in Byte : intr_putc(b)

Spec == Init /\ [][Next]_vars

-----------------------------------------------------------------------------
(* Properties.                                                             *)

(* No wakeup is lost: a thread recorded as waiting is blocked in wait(),   *)
(* it holds the lock, and what it waits for has not happened; and a thread *)
(* blocked in wait() is recorded, since signal() is all that can wake it.  *)
NoLostWakeup ==
  ~panic =>
    /\ not_empty # NULL => intq_empty
    /\ not_full # NULL => intq_full
    /\ \A t \in Client : pc[t] = "wait" <=> t \in {not_empty, not_full}
    /\ \A t \in Client : pc[t] \in {"wait", "woken"} => holder = t

(* No ASSERT of intq.c or of thread_unblock() fails.  It holds when one    *)
(* thread at most uses the queue, the other end being a device.            *)
NoPanic == ~panic

(* The bytes in the buffer, oldest first, and the promise they keep: a     *)
(* first-in first-out queue of INTQ_BUFSIZE - 1 bytes, in spite of the     *)
(* wrap-around and of the threads that wait.                               *)
Contents ==
  [k \in 1 .. ((head - tail) % INTQ_BUFSIZE) |-> buf[(tail + k - 1) % INTQ_BUFSIZE]]

Abstract == INSTANCE Fifo WITH items <- Contents, Capacity <- INTQ_BUFSIZE - 1

ImplementsFifo == Abstract!Spec

(* A reader that waits gets a byte once there is one.                      *)
GetcReturns == \A t \in Reader : (pc[t] # "idle" /\ ~intq_empty) ~> pc[t] = "idle"

(* A writer that waits gets its byte in: the device makes room.            *)
PutcReturns == \A t \in Writer : pc[t] # "idle" ~> pc[t] = "idle"
=============================================================================
