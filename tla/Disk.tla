-------------------------------- MODULE Disk --------------------------------
(***************************************************************************)
(* One ATA channel of devices/disk.c: disk_read() and disk_write() by      *)
(* several threads, the disk itself, and the interrupt handler that tells  *)
(* the waiting thread that the disk has finished.                          *)
(*                                                                         *)
(* The disk follows the PIO protocol that the driver relies on: a read     *)
(* ends with an interrupt when the data is ready, a write takes the data   *)
(* with no interrupt and ends with one when the data is stored.  It does   *)
(* so within the driver's time limits and without errors.  The lock and    *)
(* the semaphore are the abstract ones that Synch implements.              *)
(***************************************************************************)
EXTENDS Integers

CONSTANTS
  Thread,      \* the threads that use the channel
  NULL,        \* no thread
  Sector,      \* the sectors of the channel's disks
  Value,       \* what a sector can hold
  MaxSpurious  \* bound: interrupts the disk did not mean to raise

VARIABLES
  holder,               \* the thread that holds the channel's lock
  expecting_interrupt,  \* member of struct channel
  completion_wait,      \* the semaphore's value
  pc, op, sec_no, buffer,  \* where each thread is, what it was asked to do
  dev,                  \* what the disk is doing
  dev_sector,           \* its sector registers
  dev_data,             \* its data buffer
  irq,                  \* its interrupt request
  content,              \* what is stored
  sent,                 \* history: the data last sent to each sector
  spurious              \* interrupts raised for no reason so far

threadVars == <<pc, op, sec_no, buffer>>
devVars == <<dev, dev_sector, dev_data, irq, content>>
vars == <<holder, expecting_interrupt, completion_wait, threadVars, devVars,
          sent, spurious>>

Label == {"idle", "lock", "select", "issue", "command", "down", "poll",
          "transfer", "unlock", "panic"}

TypeOK ==
  /\ holder \in Thread \cup {NULL}
  /\ expecting_interrupt \in BOOLEAN
  /\ completion_wait \in 0 .. (1 + MaxSpurious)
  /\ pc \in [Thread -> Label]
  /\ op \in [Thread -> {"read", "write"}]
  /\ sec_no \in [Thread -> Sector]
  /\ buffer \in [Thread -> Value]
  /\ dev \in {"idle", "reading", "ready", "preparing", "accepting", "storing"}
  /\ dev_sector \in Sector
  /\ dev_data \in Value
  /\ irq \in BOOLEAN
  /\ content \in [Sector -> Value]
  /\ sent \in [Sector -> Value]
  /\ spurious \in 0 .. MaxSpurious

AnySector == CHOOSE s \in Sector : TRUE
AnyValue == CHOOSE v \in Value : TRUE

(* The channel after reset_channel() and before its first command.         *)
Init ==
  /\ holder = NULL
  /\ expecting_interrupt = FALSE
  /\ completion_wait = 0
  /\ pc = [t \in Thread |-> "idle"]
  /\ op = [t \in Thread |-> "read"]
  /\ sec_no = [t \in Thread |-> AnySector]
  /\ buffer = [t \in Thread |-> AnyValue]
  /\ dev = "idle"
  /\ dev_sector = AnySector
  /\ dev_data = AnyValue
  /\ irq = FALSE
  /\ content = [s \in Sector |-> AnyValue]
  /\ sent = content
  /\ spurious = 0

At(t, label) == (\A u \in Thread : pc[u] # "panic") /\ pc[t] = label

Goto(t, label) == pc' = [pc EXCEPT ![t] = label]

(* The status register: BSY, the disk is at work; DRQ, it wants data moved.*)
BSY == dev \in {"reading", "preparing", "storing"}
DRQ == dev \in {"ready", "accepting"}

-----------------------------------------------------------------------------
(* disk_read() and disk_write() ...                                        *)
Call(t, o, s, v) ==
  /\ At(t, "idle")
  /\ op' = [op EXCEPT ![t] = o]
  /\ sec_no' = [sec_no EXCEPT ![t] = s]
  /\ buffer' = [buffer EXCEPT ![t] = v]
  /\ Goto(t, "lock")
  /\ UNCHANGED <<holder, expecting_interrupt, completion_wait, devVars, sent, spurious>>

disk_read(t, s) == Call(t, "read", s, AnyValue)

disk_write(t, s, v) == Call(t, "write", s, v)

(* ... acquire the channel's lock ...                                      *)
lock_acquire(t) ==
  /\ At(t, "lock")
  /\ holder = NULL
  /\ holder' = t
  /\ Goto(t, "select")
  /\ UNCHANGED <<expecting_interrupt, completion_wait, op, sec_no, buffer,
                 devVars, sent, spurious>>

(* Mutant: the disk is not waited for.                                     *)
select_sector_busy(t) ==
  /\ At(t, "select")
  /\ irq' = FALSE
  /\ dev_sector' = sec_no[t]
  /\ Goto(t, "issue")
  /\ UNCHANGED <<holder, expecting_interrupt, completion_wait, op, sec_no,
                 buffer, dev, dev_data, content, sent, spurious>>

(* ... wait until the disk is idle, which reads its status register and so *)
(* clears its interrupt request, and load its sector registers ...         *)
select_sector(t) ==
  /\ At(t, "select")
  /\ ~BSY /\ ~DRQ
  /\ irq' = FALSE
  /\ dev_sector' = sec_no[t]
  /\ Goto(t, "issue")
  /\ UNCHANGED <<holder, expecting_interrupt, completion_wait, op, sec_no,
                 buffer, dev, dev_data, content, sent, spurious>>

(* Mutant: expecting_interrupt is not set.                                 *)
issue_pio_command_unexpected(t) ==
  /\ At(t, "issue")
  /\ Goto(t, "command")
  /\ UNCHANGED <<holder, expecting_interrupt, completion_wait, op, sec_no,
                 buffer, devVars, sent, spurious>>

(* ... expect an interrupt ...                                             *)
issue_pio_command(t) ==
  /\ At(t, "issue")
  /\ expecting_interrupt' = TRUE
  /\ Goto(t, "command")
  /\ UNCHANGED <<holder, completion_wait, op, sec_no, buffer, devVars, sent, spurious>>

(* ... and give the command.  A read then waits for the interrupt, a write *)
(* for the disk to accept data.                                            *)
outb_command(t) ==
  /\ At(t, "command")
  /\ dev' = IF op[t] = "read" THEN "reading" ELSE "preparing"
  /\ Goto(t, IF op[t] = "read" THEN "down" ELSE "poll")
  /\ UNCHANGED <<holder, expecting_interrupt, completion_wait, op, sec_no,
                 buffer, dev_sector, dev_data, irq, content, sent, spurious>>

(* Mutant: the value is not decremented.                                   *)
sema_down_keeps(t) ==
  /\ At(t, "down")
  /\ completion_wait > 0
  /\ Goto(t, IF op[t] = "read" THEN "poll" ELSE "unlock")
  /\ UNCHANGED <<holder, expecting_interrupt, completion_wait, op, sec_no,
                 buffer, devVars, sent, spurious>>

(* sema_down() of completion_wait.                                         *)
sema_down(t) ==
  /\ At(t, "down")
  /\ completion_wait > 0
  /\ completion_wait' = completion_wait - 1
  /\ Goto(t, IF op[t] = "read" THEN "poll" ELSE "unlock")
  /\ UNCHANGED <<holder, expecting_interrupt, op, sec_no, buffer, devVars, sent, spurious>>

(* wait_while_busy(): the kernel panics when the disk wants no data moved. *)
wait_while_busy(t) ==
  /\ At(t, "poll")
  /\ ~BSY
  /\ Goto(t, IF DRQ THEN "transfer" ELSE "panic")
  /\ UNCHANGED <<holder, expecting_interrupt, completion_wait, op, sec_no,
                 buffer, devVars, sent, spurious>>

input_sector(t) ==
  /\ At(t, "transfer")
  /\ op[t] = "read"
  /\ buffer' = [buffer EXCEPT ![t] = dev_data]
  /\ dev' = "idle"
  /\ Goto(t, "unlock")
  /\ UNCHANGED <<holder, expecting_interrupt, completion_wait, op, sec_no,
                 dev_sector, dev_data, irq, content, sent, spurious>>

output_sector(t) ==
  /\ At(t, "transfer")
  /\ op[t] = "write"
  /\ dev_data' = buffer[t]
  /\ dev' = "storing"
  /\ sent' = [sent EXCEPT ![dev_sector] = buffer[t]]
  /\ Goto(t, "down")
  /\ UNCHANGED <<holder, expecting_interrupt, completion_wait, op, sec_no,
                 buffer, dev_sector, irq, content, spurious>>

(* The lock is released and the call returns, its locals forgotten.        *)
lock_release(t) ==
  /\ At(t, "unlock")
  /\ holder' = NULL
  /\ Goto(t, "idle")
  /\ op' = [op EXCEPT ![t] = "read"]
  /\ sec_no' = [sec_no EXCEPT ![t] = AnySector]
  /\ buffer' = [buffer EXCEPT ![t] = AnyValue]
  /\ UNCHANGED <<expecting_interrupt, completion_wait, devVars, sent, spurious>>

-----------------------------------------------------------------------------
(* The disk finishes reading, or storing, and raises its interrupt; when   *)
(* it is ready to accept data it raises none.                              *)
DiskReady ==
  /\ dev = "reading"
  /\ dev' = "ready"
  /\ dev_data' = content[dev_sector]
  /\ irq' = TRUE
  /\ UNCHANGED <<holder, expecting_interrupt, completion_wait, threadVars,
                 dev_sector, content, sent, spurious>>

DiskAccepts ==
  /\ dev = "preparing"
  /\ dev' = "accepting"
  /\ UNCHANGED <<holder, expecting_interrupt, completion_wait, threadVars,
                 dev_sector, dev_data, irq, content, sent, spurious>>

DiskStored ==
  /\ dev = "storing"
  /\ dev' = "idle"
  /\ content' = [content EXCEPT ![dev_sector] = dev_data]
  /\ irq' = TRUE
  /\ UNCHANGED <<holder, expecting_interrupt, completion_wait, threadVars,
                 dev_sector, dev_data, sent, spurious>>

(* interrupt_handler(): when an interrupt is expected, acknowledge it and  *)
(* up the semaphore.                                                       *)
Handler ==
  /\ completion_wait' = IF expecting_interrupt THEN completion_wait + 1
                        ELSE completion_wait
  /\ irq' = FALSE
  /\ UNCHANGED <<holder, expecting_interrupt, threadVars, dev, dev_sector,
                 dev_data, content, sent>>

interrupt_handler == irq /\ Handler /\ UNCHANGED spurious

(* An interrupt that the disk did not mean.                                *)
SpuriousInterrupt ==
  /\ spurious < MaxSpurious
  /\ ~irq
  /\ Handler
  /\ spurious' = spurious + 1

Step(t) ==
  \/ select_sector(t) \/ issue_pio_command(t) \/ outb_command(t)
  \/ sema_down(t) \/ wait_while_busy(t) \/ input_sector(t)
  \/ output_sector(t) \/ lock_release(t)

Next ==
  \/ \E t \in Thread, s \in Sector :
        disk_read(t, s) \/ \E v \in Value : disk_write(t, s, v)
  \/ \E t \in Thread : lock_acquire(t) \/ Step(t)
  \/ DiskReady \/ DiskAccepts \/ DiskStored
  \/ interrupt_handler
  \/ SpuriousInterrupt

Spec == Init /\ [][Next]_vars

(* The disk finishes what it was told to do, its interrupt is delivered,   *)
(* ready threads run, and a lock that stays free is taken by a thread that *)
(* waits for it.  It is not given to each of them in turn: lock_release()  *)
(* does not yield, and sema_down() puts a waiter that finds the lock taken *)
(* again at the end of the list.                                           *)
FairSpec ==
  /\ Spec
  /\ WF_vars(DiskReady) /\ WF_vars(DiskAccepts) /\ WF_vars(DiskStored)
  /\ WF_vars(interrupt_handler)
  /\ \A t \in Thread : WF_vars(Step(t)) /\ WF_vars(lock_acquire(t))

-----------------------------------------------------------------------------
(* Properties.                                                             *)

(* disk.c, lines 239-241: disk_write() "returns after the disk has         *)
(* acknowledged receiving the data", unless an interrupt was spurious.     *)
WriteAcknowledged ==
  spurious = 0 => \A t \in Thread :
     pc[t] = "unlock" /\ op[t] = "write" => content[sec_no[t]] = buffer[t]

(* Completions and commands match one to one: a thread that takes the      *)
(* channel finds no completion, and no interrupt request, of an earlier    *)
(* command, which it would take for its own.  Only a spurious interrupt    *)
(* leaves one behind, and each leaves one at most.                         *)
NoStaleCompletion ==
  \A t \in Thread :
     pc[t] \in {"select", "issue", "command"} =>
        completion_wait + (IF irq THEN 1 ELSE 0) <= spurious

(* disk_read() returns the data that was last sent to the sector, even     *)
(* when a spurious interrupt ended an earlier wait too soon: no command    *)
(* overtakes one that the disk is still working on.  And disk_write() has  *)
(* the disk's acknowledgement when it returns.                             *)
ReadsLatest ==
  /\ TypeOK /\ WriteAcknowledged
  /\ \A t \in Thread :
       pc[t] = "unlock" /\ op[t] = "read" => buffer[t] = sent[sec_no[t]]

(* A call that has the channel returns: it does not wait for an interrupt  *)
(* that was missed.  And the channel is not left unused: a call that waits *)
(* for it for ever sees the calls of others return for ever.  (Whether     *)
(* each call returns then depends on when the others call again; see       *)
(* FairSpec.)                                                              *)
DiskReturns ==
  \A t \in Thread :
     /\ pc[t] \notin {"idle", "lock"} ~> pc[t] = "idle"
     /\ []<>(pc[t] # "lock") \/ []<>(\E u \in Thread \ {t} : pc[u] = "unlock")
=============================================================================
