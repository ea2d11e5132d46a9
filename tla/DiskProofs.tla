----------------------------- MODULE DiskProofs -----------------------------
(***************************************************************************)
(* Proofs about Disk, for any threads, sectors, values and number of       *)
(* spurious interrupts: completions match commands, and reads return what  *)
(* was last sent.                                                          *)
(***************************************************************************)
EXTENDS Disk, TLAPS

(* What the proofs need of the constants.                                  *)
DiskConstants ==
  /\ NULL \notin Thread
  /\ Sector # {} /\ Value # {}
  /\ MaxSpurious \in Nat

(* The steps of a thread that has the channel's lock, and those of them    *)
(* between which the disk is at work for it.                               *)
Holding == Label \ {"idle", "lock"}
Busy == {"issue", "command", "down", "poll", "transfer"}

(* A thread past lock_acquire() is the lock's holder.                      *)
LockOK ==
  \A t \in Thread : (pc[t] \in Holding) <=> (holder = t)

(* Interrupt requests that are up, or will be when the disk has finished;  *)
(* and the completion the holder is about to take.                         *)
Requested == IF irq = TRUE THEN 1 ELSE 0
Coming == IF dev \in {"reading", "storing"} THEN 1 ELSE 0
Awaited == IF \E t \in Thread : pc[t] = "down" THEN 1 ELSE 0

(* No more completions than awaited ones, but for spurious interrupts.     *)
CountOK == completion_wait + Requested + Coming <= spurious + Awaited

(* The disk does what the thread that has the channel believes.  When none *)
(* has, or the one that has is before or after its command, it may still   *)
(* be storing, since a spurious interrupt may have ended the wait.         *)
PhaseOK ==
  /\ (\A t \in Thread : pc[t] \notin Busy) => dev \in {"idle", "storing"}
  /\ \A t \in Thread :
       /\ pc[t] # "panic"
       /\ pc[t] \in Busy => dev_sector = sec_no[t]
       /\ pc[t] \in {"issue", "command"} => dev = "idle"
       /\ pc[t] \in {"down", "poll"} /\ op[t] = "read" => dev \in {"reading", "ready"}
       /\ pc[t] = "down" /\ op[t] = "write" => dev \in {"storing", "idle"}
       /\ pc[t] = "poll" /\ op[t] = "write" => dev \in {"preparing", "accepting"}
       /\ pc[t] = "transfer" => dev = IF op[t] = "read" THEN "ready" ELSE "accepting"

(* What is stored is what was sent, except for the sector being stored.    *)
DataOK ==
  /\ \A s \in Sector : content[s] = sent[s] \/ (dev = "storing" /\ dev_sector = s)
  /\ dev = "storing" => sent[dev_sector] = dev_data
  /\ dev = "ready" => dev_data = content[dev_sector]
  /\ \A t \in Thread :
       /\ pc[t] = "unlock" => buffer[t] = sent[sec_no[t]]
       /\ pc[t] = "down" /\ op[t] = "write" => buffer[t] = sent[sec_no[t]]

(* The inductive invariant.  NoStaleCompletion alone is not inductive: it  *)
(* needs the count of the completions to come, and ReadsLatest needs what  *)
(* the disk is at when a spurious interrupt has ended a wait too soon.     *)
DiskInv == TypeOK /\ LockOK /\ CountOK /\ PhaseOK /\ DataOK

(* The lock's holder is alone in the driver.                               *)
LEMMA Alone ==
  ASSUME LockOK, NEW t \in Thread, pc[t] \in Holding
  PROVE  \A u \in Thread : u # t => pc[u] \notin Holding
BY DEF LockOK

(* disk_init() establishes the invariant.                                  *)
LEMMA DiskInit == ASSUME DiskConstants PROVE Init => DiskInv
<1> SUFFICES ASSUME Init PROVE DiskInv
  OBVIOUS
<1>1. AnySector \in Sector /\ AnyValue \in Value
  BY DEF DiskConstants, AnySector, AnyValue
<1>2. TypeOK
  <2>1. expecting_interrupt \in BOOLEAN /\ irq \in BOOLEAN
    BY Zenon DEF Init
  <2>2. QED
    BY <1>1, <2>1 DEF DiskConstants, Init, TypeOK, Label
<1>3. LockOK
  BY DEF DiskConstants, Init, LockOK, Holding
<1>4. CountOK
  BY DEF Init, CountOK, Requested, Coming, Awaited
<1>5. PhaseOK /\ DataOK
  BY DEF Init, PhaseOK, DataOK, Busy
<1>6. QED
  BY <1>2, <1>3, <1>4, <1>5 DEF DiskInv

(* disk_read() and disk_write() are called.                                *)
LEMMA CallStep ==
  ASSUME DiskConstants, DiskInv, NEW t \in Thread, NEW o \in {"read", "write"},
         NEW s \in Sector, NEW v \in Value, Call(t, o, s, v)
  PROVE  DiskInv'
<1> USE DEF Call, At, Goto, devVars
<1>1. TypeOK'
  BY DEF DiskConstants, DiskInv, TypeOK, Label, AnySector, AnyValue
<1>2. \A u \in Thread : u # t => pc'[u] = pc[u]
  BY DEF DiskInv, TypeOK
<1>3. LockOK'
  BY <1>2, Alone DEF DiskConstants, DiskInv, TypeOK, LockOK, Holding, Label
<1>4. CountOK'
  BY <1>2, Alone DEF DiskInv, TypeOK, PhaseOK, CountOK, Requested, Coming,
     Awaited, Holding, Label
<1>5. PhaseOK'
  BY <1>2, Alone DEF DiskInv, TypeOK, PhaseOK, Holding, Label, Busy
<1>6. DataOK'
  BY <1>2, Alone DEF DiskInv, TypeOK, PhaseOK, DataOK, Holding, Label, Busy
<1>7. QED
  BY <1>1, <1>3, <1>4, <1>5, <1>6 DEF DiskInv

(* The channel's lock is acquired.                                         *)
LEMMA AcquireStep ==
  ASSUME DiskConstants, DiskInv, NEW t \in Thread, lock_acquire(t)
  PROVE  DiskInv'
<1> USE DEF lock_acquire, At, Goto, devVars
<1>1. TypeOK'
  BY DEF DiskConstants, DiskInv, TypeOK, Label, AnySector, AnyValue
<1>2. \A u \in Thread : u # t => pc'[u] = pc[u]
  BY DEF DiskInv, TypeOK
<1>3. LockOK'
  BY <1>2, Alone DEF DiskConstants, DiskInv, TypeOK, LockOK, Holding, Label
<1>4. CountOK'
  BY <1>2, Alone DEF DiskInv, TypeOK, PhaseOK, CountOK, Requested, Coming,
     Awaited, Holding, Label
<1>5. PhaseOK'
  BY <1>2, Alone DEF DiskInv, TypeOK, PhaseOK, Holding, Label, Busy
<1>6. DataOK'
  BY <1>2, Alone DEF DiskInv, TypeOK, PhaseOK, DataOK, Holding, Label, Busy
<1>7. QED
  BY <1>1, <1>3, <1>4, <1>5, <1>6 DEF DiskInv

(* select_sector().                                                        *)
LEMMA SelectStep ==
  ASSUME DiskConstants, DiskInv, NEW t \in Thread, select_sector(t)
  PROVE  DiskInv'
<1> USE DEF select_sector, BSY, DRQ, At, Goto, devVars
<1>1. TypeOK'
  BY DEF DiskConstants, DiskInv, TypeOK, Label, AnySector, AnyValue
<1>2. \A u \in Thread : u # t => pc'[u] = pc[u]
  BY DEF DiskInv, TypeOK
<1>3. LockOK'
  BY <1>2, Alone DEF DiskConstants, DiskInv, TypeOK, LockOK, Holding, Label
<1>4. CountOK'
  BY <1>2, Alone DEF DiskInv, TypeOK, PhaseOK, CountOK, Requested, Coming,
     Awaited, Holding, Label
<1>5. PhaseOK'
  BY <1>2, Alone DEF DiskInv, TypeOK, PhaseOK, Holding, Label, Busy
<1>6. DataOK'
  BY <1>2, Alone DEF DiskInv, TypeOK, PhaseOK, DataOK, Holding, Label, Busy
<1>7. QED
  BY <1>1, <1>3, <1>4, <1>5, <1>6 DEF DiskInv

(* issue_pio_command() up to the command.                                  *)
LEMMA IssueStep ==
  ASSUME DiskConstants, DiskInv, NEW t \in Thread, issue_pio_command(t)
  PROVE  DiskInv'
<1> USE DEF issue_pio_command, At, Goto, devVars
<1>1. TypeOK'
  BY DEF DiskConstants, DiskInv, TypeOK, Label, AnySector, AnyValue
<1>2. \A u \in Thread : u # t => pc'[u] = pc[u]
  BY DEF DiskInv, TypeOK
<1>3. LockOK'
  BY <1>2, Alone DEF DiskConstants, DiskInv, TypeOK, LockOK, Holding, Label
<1>4. CountOK'
  BY <1>2, Alone DEF DiskInv, TypeOK, PhaseOK, CountOK, Requested, Coming,
     Awaited, Holding, Label
<1>5. PhaseOK'
  BY <1>2, Alone DEF DiskInv, TypeOK, PhaseOK, Holding, Label, Busy
<1>6. DataOK'
  BY <1>2, Alone DEF DiskInv, TypeOK, PhaseOK, DataOK, Holding, Label, Busy
<1>7. QED
  BY <1>1, <1>3, <1>4, <1>5, <1>6 DEF DiskInv

(* The command is given.                                                   *)
LEMMA CommandStep ==
  ASSUME DiskConstants, DiskInv, NEW t \in Thread, outb_command(t)
  PROVE  DiskInv'
<1> USE DEF outb_command, At, Goto, devVars
<1>1. TypeOK'
  BY DEF DiskConstants, DiskInv, TypeOK, Label, AnySector, AnyValue
<1>2. \A u \in Thread : u # t => pc'[u] = pc[u]
  BY DEF DiskInv, TypeOK
<1>3. LockOK'
  BY <1>2, Alone DEF DiskConstants, DiskInv, TypeOK, LockOK, Holding, Label
<1>4. CountOK'
  BY <1>2, Alone DEF DiskInv, TypeOK, PhaseOK, CountOK, Requested, Coming,
     Awaited, Holding, Label
<1>5. PhaseOK'
  BY <1>2, Alone DEF DiskInv, TypeOK, PhaseOK, Holding, Label, Busy
<1>6. DataOK'
  BY <1>2, Alone DEF DiskInv, TypeOK, PhaseOK, DataOK, Holding, Label, Busy
<1>7. QED
  BY <1>1, <1>3, <1>4, <1>5, <1>6 DEF DiskInv

(* sema_down() returns.                                                    *)
LEMMA DownStep ==
  ASSUME DiskConstants, DiskInv, NEW t \in Thread, sema_down(t)
  PROVE  DiskInv'
<1> USE DEF sema_down, At, Goto, devVars
<1>1. TypeOK'
  BY DEF DiskConstants, DiskInv, TypeOK, Label, AnySector, AnyValue
<1>2. \A u \in Thread : u # t => pc'[u] = pc[u]
  BY DEF DiskInv, TypeOK
<1>3. LockOK'
  BY <1>2, Alone DEF DiskConstants, DiskInv, TypeOK, LockOK, Holding, Label
<1>4. CountOK'
  BY <1>2, Alone DEF DiskInv, TypeOK, PhaseOK, CountOK, Requested, Coming,
     Awaited, Holding, Label
<1>5. PhaseOK'
  BY <1>2, Alone DEF DiskInv, TypeOK, PhaseOK, Holding, Label, Busy
<1>6. DataOK'
  BY <1>2, Alone DEF DiskInv, TypeOK, PhaseOK, DataOK, Holding, Label, Busy
<1>7. QED
  BY <1>1, <1>3, <1>4, <1>5, <1>6 DEF DiskInv

(* wait_while_busy() returns TRUE: the disk has data, or wants some.       *)
LEMMA PollStep ==
  ASSUME DiskConstants, DiskInv, NEW t \in Thread, wait_while_busy(t)
  PROVE  DiskInv'
<1> USE DEF wait_while_busy, BSY, DRQ, At, Goto, devVars
<1>1. TypeOK'
  BY DEF DiskConstants, DiskInv, TypeOK, Label, AnySector, AnyValue
<1>2. \A u \in Thread : u # t => pc'[u] = pc[u]
  BY DEF DiskInv, TypeOK
<1>3. LockOK'
  BY <1>2, Alone DEF DiskConstants, DiskInv, TypeOK, LockOK, Holding, Label
<1>4. CountOK'
  BY <1>2, Alone DEF DiskInv, TypeOK, PhaseOK, CountOK, Requested, Coming,
     Awaited, Holding, Label
<1>5. PhaseOK'
  BY <1>2, Alone DEF DiskInv, TypeOK, PhaseOK, Holding, Label, Busy
<1>6. DataOK'
  BY <1>2, Alone DEF DiskInv, TypeOK, PhaseOK, DataOK, Holding, Label, Busy
<1>7. QED
  BY <1>1, <1>3, <1>4, <1>5, <1>6 DEF DiskInv

(* input_sector().                                                         *)
LEMMA InputStep ==
  ASSUME DiskConstants, DiskInv, NEW t \in Thread, input_sector(t)
  PROVE  DiskInv'
<1> USE DEF input_sector, At, Goto, devVars
<1>1. TypeOK'
  BY DEF DiskConstants, DiskInv, TypeOK, Label, AnySector, AnyValue
<1>2. \A u \in Thread : u # t => pc'[u] = pc[u]
  BY DEF DiskInv, TypeOK
<1>3. LockOK'
  BY <1>2, Alone DEF DiskConstants, DiskInv, TypeOK, LockOK, Holding, Label
<1>4. CountOK'
  BY <1>2, Alone DEF DiskInv, TypeOK, PhaseOK, CountOK, Requested, Coming,
     Awaited, Holding, Label
<1>5. PhaseOK'
  BY <1>2, Alone DEF DiskInv, TypeOK, PhaseOK, Holding, Label, Busy
<1>6. DataOK'
  BY <1>2, Alone DEF DiskInv, TypeOK, PhaseOK, DataOK, Holding, Label, Busy
<1>7. QED
  BY <1>1, <1>3, <1>4, <1>5, <1>6 DEF DiskInv

(* output_sector().                                                        *)
LEMMA OutputStep ==
  ASSUME DiskConstants, DiskInv, NEW t \in Thread, output_sector(t)
  PROVE  DiskInv'
<1> USE DEF output_sector, At, Goto, devVars
<1>1. TypeOK'
  BY DEF DiskConstants, DiskInv, TypeOK, Label, AnySector, AnyValue
<1>2. \A u \in Thread : u # t => pc'[u] = pc[u]
  BY DEF DiskInv, TypeOK
<1>3. LockOK'
  BY <1>2, Alone DEF DiskConstants, DiskInv, TypeOK, LockOK, Holding, Label
<1>4. CountOK'
  BY <1>2, Alone DEF DiskInv, TypeOK, PhaseOK, CountOK, Requested, Coming,
     Awaited, Holding, Label
<1>5. PhaseOK'
  BY <1>2, Alone DEF DiskInv, TypeOK, PhaseOK, Holding, Label, Busy
<1>6. DataOK'
  BY <1>2, Alone DEF DiskInv, TypeOK, PhaseOK, DataOK, Holding, Label, Busy
<1>7. QED
  BY <1>1, <1>3, <1>4, <1>5, <1>6 DEF DiskInv

(* The channel's lock is released.                                         *)
LEMMA ReleaseStep ==
  ASSUME DiskConstants, DiskInv, NEW t \in Thread, lock_release(t)
  PROVE  DiskInv'
<1> USE DEF lock_release, At, Goto, devVars
<1>1. TypeOK'
  BY DEF DiskConstants, DiskInv, TypeOK, Label, AnySector, AnyValue
<1>2. \A u \in Thread : u # t => pc'[u] = pc[u]
  BY DEF DiskInv, TypeOK
<1>3. LockOK'
  BY <1>2, Alone DEF DiskConstants, DiskInv, TypeOK, LockOK, Holding, Label
<1>4. CountOK'
  BY <1>2, Alone DEF DiskInv, TypeOK, PhaseOK, CountOK, Requested, Coming,
     Awaited, Holding, Label
<1>5. PhaseOK'
  BY <1>2, Alone DEF DiskInv, TypeOK, PhaseOK, Holding, Label, Busy
<1>6. DataOK'
  BY <1>2, Alone DEF DiskInv, TypeOK, PhaseOK, DataOK, Holding, Label, Busy
<1>7. QED
  BY <1>1, <1>3, <1>4, <1>5, <1>6 DEF DiskInv

(* The disk has read the sector.                                           *)
LEMMA ReadyStep ==
  ASSUME DiskConstants, DiskInv, DiskReady
  PROVE  DiskInv'
<1> USE DEF DiskReady, threadVars
<1>1. TypeOK'
  BY DEF DiskConstants, DiskInv, TypeOK
<1>2. LockOK'
  BY DEF DiskInv, LockOK
<1>3. CountOK'
  BY DEF DiskInv, TypeOK, CountOK, Requested, Coming, Awaited
<1>4. PhaseOK'
  BY DEF DiskInv, PhaseOK, Busy
<1>5. DataOK'
  BY DEF DiskInv, TypeOK, PhaseOK, DataOK, Busy
<1>6. QED
  BY <1>1, <1>2, <1>3, <1>4, <1>5 DEF DiskInv

(* The disk accepts data.                                                  *)
LEMMA AcceptsStep ==
  ASSUME DiskConstants, DiskInv, DiskAccepts
  PROVE  DiskInv'
<1> USE DEF DiskAccepts, threadVars
<1>1. TypeOK'
  BY DEF DiskConstants, DiskInv, TypeOK
<1>2. LockOK'
  BY DEF DiskInv, LockOK
<1>3. CountOK'
  BY DEF DiskInv, TypeOK, CountOK, Requested, Coming, Awaited
<1>4. PhaseOK'
  BY DEF DiskInv, PhaseOK, Busy
<1>5. DataOK'
  BY DEF DiskInv, TypeOK, PhaseOK, DataOK, Busy
<1>6. QED
  BY <1>1, <1>2, <1>3, <1>4, <1>5 DEF DiskInv

(* The disk has stored the sector.                                         *)
LEMMA StoredStep ==
  ASSUME DiskConstants, DiskInv, DiskStored
  PROVE  DiskInv'
<1> USE DEF DiskStored, threadVars
<1>1. TypeOK'
  BY DEF DiskConstants, DiskInv, TypeOK
<1>2. LockOK'
  BY DEF DiskInv, LockOK
<1>3. CountOK'
  BY DEF DiskInv, TypeOK, CountOK, Requested, Coming, Awaited
<1>4. PhaseOK'
  BY DEF DiskInv, PhaseOK, Busy
<1>5. DataOK'
  BY DEF DiskInv, TypeOK, PhaseOK, DataOK, Busy
<1>6. QED
  BY <1>1, <1>2, <1>3, <1>4, <1>5 DEF DiskInv

(* The disk's interrupt is handled.                                        *)
LEMMA InterruptStep ==
  ASSUME DiskConstants, DiskInv, interrupt_handler
  PROVE  DiskInv'
<1> USE DEF interrupt_handler, Handler, threadVars
<1>1. TypeOK'
  <2>1. irq' \in BOOLEAN /\ expecting_interrupt' \in BOOLEAN
    BY Zenon DEF DiskInv, TypeOK
  <2>2. completion_wait' \in 0..(1 + MaxSpurious)
    BY DEF DiskConstants, DiskInv, TypeOK, CountOK, Requested, Coming, Awaited
  <2>3. QED
    BY <2>1, <2>2 DEF DiskConstants, DiskInv, TypeOK
<1>2. LockOK'
  BY DEF DiskInv, LockOK
<1>3. CountOK'
  BY DEF DiskInv, TypeOK, CountOK, Requested, Coming, Awaited
<1>4. PhaseOK'
  BY DEF DiskInv, PhaseOK, Busy
<1>5. DataOK'
  BY DEF DiskInv, TypeOK, PhaseOK, DataOK, Busy
<1>6. QED
  BY <1>1, <1>2, <1>3, <1>4, <1>5 DEF DiskInv

(* A spurious interrupt is handled.                                        *)
LEMMA SpuriousStep ==
  ASSUME DiskConstants, DiskInv, SpuriousInterrupt
  PROVE  DiskInv'
<1> USE DEF SpuriousInterrupt, Handler, threadVars
<1>1. TypeOK'
  <2>1. irq' \in BOOLEAN /\ expecting_interrupt' \in BOOLEAN
    BY Zenon DEF DiskInv, TypeOK
  <2>2. completion_wait' \in 0..(1 + MaxSpurious)
    BY DEF DiskConstants, DiskInv, TypeOK, CountOK, Requested, Coming, Awaited
  <2>3. QED
    BY <2>1, <2>2 DEF DiskConstants, DiskInv, TypeOK
<1>2. LockOK'
  BY DEF DiskInv, LockOK
<1>3. CountOK'
  BY DEF DiskInv, TypeOK, CountOK, Requested, Coming, Awaited
<1>4. PhaseOK'
  BY DEF DiskInv, PhaseOK, Busy
<1>5. DataOK'
  BY DEF DiskInv, TypeOK, PhaseOK, DataOK, Busy
<1>6. QED
  BY <1>1, <1>2, <1>3, <1>4, <1>5 DEF DiskInv

(* Every step preserves the invariant.                                     *)
LEMMA DiskStep == ASSUME DiskConstants PROVE DiskInv /\ [Next]_vars => DiskInv'
<1> SUFFICES ASSUME DiskInv, [Next]_vars PROVE DiskInv'
  OBVIOUS
<1>1. CASE \E t \in Thread, s \in Sector :
             disk_read(t, s) \/ \E v \in Value : disk_write(t, s, v)
  <2>1. AnyValue \in Value
    BY DEF DiskConstants, AnyValue
  <2>2. PICK t \in Thread, s \in Sector :
           disk_read(t, s) \/ \E v \in Value : disk_write(t, s, v)
    BY <1>1
  <2>3. CASE disk_read(t, s)
    <3>1. Call(t, "read", s, AnyValue)
      BY <2>3 DEF disk_read
    <3>2. QED
      BY <2>1, <3>1, CallStep
  <2>4. CASE \E v \in Value : disk_write(t, s, v)
    <3>1. PICK v \in Value : Call(t, "write", s, v)
      BY <2>4 DEF disk_write
    <3>2. QED
      BY <3>1, CallStep
  <2>5. QED
    BY <2>2, <2>3, <2>4
<1>2. CASE \E t \in Thread : lock_acquire(t) \/ Step(t)
  BY <1>2, AcquireStep, SelectStep, IssueStep, CommandStep, DownStep,
     PollStep, InputStep, OutputStep, ReleaseStep DEF Step
<1>3. CASE DiskReady \/ DiskAccepts \/ DiskStored
  BY <1>3, ReadyStep, AcceptsStep, StoredStep
<1>4. CASE interrupt_handler \/ SpuriousInterrupt
  BY <1>4, InterruptStep, SpuriousStep
<1>5. CASE UNCHANGED vars
  BY <1>5 DEF vars, threadVars, devVars, DiskInv, TypeOK, LockOK, CountOK,
     PhaseOK, DataOK, Requested, Coming, Awaited
<1>6. QED
  BY <1>1, <1>2, <1>3, <1>4, <1>5 DEF Next

(* The channel's invariant holds always.                                   *)
LEMMA DiskInvariant == ASSUME DiskConstants PROVE Spec => []DiskInv
BY DiskInit, DiskStep, PTL DEF Spec

(* Completions and commands match one to one: whatever the number of       *)
(* threads and of spurious interrupts, a thread that takes the channel     *)
(* finds at most one completion for each spurious interrupt so far.        *)
THEOREM CompletionsMatch == ASSUME DiskConstants PROVE Spec => []NoStaleCompletion
<1>1. DiskInv => NoStaleCompletion
  <2> SUFFICES ASSUME DiskInv, NEW t \in Thread, pc[t] \in {"select", "issue", "command"}
               PROVE  completion_wait + Requested <= spurious
    BY DEF NoStaleCompletion, Requested
  <2>1. \A u \in Thread : pc[u] # "down"
    BY Alone DEF DiskInv, Holding, Label
  <2>2. QED
    BY <2>1 DEF DiskInv, TypeOK, CountOK, Requested, Coming, Awaited
<1>2. QED
  BY <1>1, DiskInvariant, PTL

(* A read returns what was last sent to its sector, and a write returns    *)
(* with the disk's acknowledgement unless an interrupt was spurious.       *)
THEOREM DiskReadsLatest == ASSUME DiskConstants PROVE Spec => []ReadsLatest
<1>1. DiskInv => WriteAcknowledged
  <2> SUFFICES ASSUME DiskInv, spurious = 0, NEW t \in Thread, pc[t] = "unlock"
               PROVE  content[sec_no[t]] = buffer[t]
    BY DEF WriteAcknowledged
  <2>1. \A u \in Thread : pc[u] # "down"
    BY Alone DEF DiskInv, Holding, Label
  <2>2. dev # "storing"
    BY <2>1 DEF DiskInv, TypeOK, CountOK, Requested, Coming, Awaited
  <2>3. QED
    BY <2>2 DEF DiskInv, TypeOK, DataOK
<1>2. DiskInv => ReadsLatest
  BY <1>1 DEF DiskInv, DataOK, ReadsLatest
<1>3. QED
  BY <1>2, DiskInvariant, PTL

(* wait_while_busy() never returns FALSE to a caller that panics: after    *)
(* every wait, ended too soon or not, the disk wants the data moved.       *)
THEOREM NoDiskPanic ==
  ASSUME DiskConstants
  PROVE  Spec => [](\A t \in Thread : pc[t] # "panic")
<1>1. DiskInv => \A t \in Thread : pc[t] # "panic"
  BY DEF DiskInv, PhaseOK
<1>2. QED
  BY <1>1, DiskInvariant, PTL
=============================================================================
