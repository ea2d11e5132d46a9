------------------------------- MODULE Synch --------------------------------
(***************************************************************************)
(* The synchronisation primitives of threads/synch.c - semaphores, locks   *)
(* and condition variables - on top of the scheduler, with the parts of    *)
(* threads/thread.c that use them: thread_start() and idle(), which meet   *)
(* on a semaphore, and thread_create(), whose allocate_tid() takes a lock. *)
(*                                                                         *)
(* Threads other than the idle thread run client code that calls any       *)
(* primitive at any time, within the contracts synch.c states: it releases *)
(* only locks it acquired, acquires none it has, uses a condition variable *)
(* with its lock held, and exits with no lock held.                        *)
(***************************************************************************)
EXTENDS Thread, FiniteSets

CONSTANTS
  Semaphore,     \* semaphores of clients, and idle_started
  idle_started,  \* the semaphore of thread_start()
  IntrSema,      \* the semaphores some interrupt handler ups
  Lock,          \* locks of clients, and tid_lock
  tid_lock,      \* the lock of allocate_tid()
  Condition,     \* condition variables
  LockOf,        \* the lock that goes with each condition variable
  MaxValue,      \* bound: clients up no semaphore beyond this value
  MaxTid         \* bound: the last tid handed out

ASSUME SynchAssumption ==
  /\ idle_started \in Semaphore
  /\ IntrSema \subseteq Semaphore \ {idle_started}
  /\ tid_lock \in Lock
  /\ LockOf \in [Condition -> Lock \ {tid_lock}]
  /\ MaxValue \in Nat \ {0}
  /\ MaxTid \in Nat

(* The semaphores there are: plain ones, the one inside each lock, and the *)
(* one in the semaphore_elem that cond_wait() keeps on a thread's stack.   *)
Sema == Semaphore \cup Lock \cup Thread

ASSUME SemaDisjoint ==
  /\ Semaphore \cap Lock = {}
  /\ (Semaphore \cup Lock) \cap Thread = {}
  /\ NULL \notin Sema \cup Condition

VARIABLES
  value,         \* value of each semaphore
  waiters,       \* waiters list of each semaphore
  holder,        \* holder of each lock
  cond_waiters,  \* waiters list of each condition: whose semaphore_elem
  next_tid,      \* the static of allocate_tid()
  tid,           \* tid of each thread, 0 when it has none
  pc,            \* where each thread is
  obj,           \* the object of the primitive each thread is in
  ptr,           \* the other thread a primitive deals with
  owned          \* the locks a thread acquired and has not begun to release

synchVars == <<value, waiters, holder, cond_waiters, next_tid, tid, pc, obj,
               ptr, owned>>
vars == <<schedVars, synchVars>>

(* Inside the loop of sema_down(), after thread_block() was called.        *)
WaitLabel == {"sema_wait", "lock_wait", "cond_wait"}

Label ==
  {"none", "run", "boot", "idle_start", "idle_up", "idle_loop",
   "sema_down", "lock_down", "cond_down", "lock_own", "lock_up", "cond_up",
   "signal_up", "broadcast", "broadcast_up", "tid", "tid_inc", "create_unblock"}
  \cup WaitLabel

SynchTypeOK ==
  /\ TypeOK
  /\ value \in [Sema -> Nat]
  /\ waiters \in [Sema -> Seq(Thread)]
  /\ holder \in [Lock -> Thread \cup {NULL}]
  /\ cond_waiters \in [Condition -> Seq(Thread)]
  /\ next_tid \in Nat
  /\ tid \in [Thread -> Nat]
  /\ pc \in [Thread -> Label]
  /\ obj \in [Thread -> Semaphore \cup Lock \cup Condition \cup {NULL}]
  /\ ptr \in [Thread -> Thread \cup {NULL}]
  /\ owned \in [Thread -> SUBSET Lock]

(* After thread_init(): main has tid 1.                                    *)
SynchInit ==
  /\ Init
  /\ value = [s \in Sema |-> IF s \in Lock THEN 1 ELSE 0]
  /\ waiters = [s \in Sema |-> <<>>]
  /\ holder = [l \in Lock |-> NULL]
  /\ cond_waiters = [c \in Condition |-> <<>>]
  /\ next_tid = 2
  /\ tid = [t \in Thread |-> IF t = initial_thread THEN 1 ELSE 0]
  /\ pc = [t \in Thread |-> IF t = initial_thread THEN "boot" ELSE "none"]
  /\ obj = [t \in Thread |-> NULL]
  /\ ptr = [t \in Thread |-> NULL]
  /\ owned = [t \in Thread |-> {}]

-----------------------------------------------------------------------------
(* Control.                                                                *)

At(label) == Executing /\ pc[curr] = label

Goto(label) == pc' = [pc EXCEPT ![curr] = label]

(* Enter a primitive on o at the given label.                              *)
Call(label, o) == Goto(label) /\ obj' = [obj EXCEPT ![curr] = o]

Return == Call("run", NULL)

(* The state of the scheduler does not change.                             *)
NoSwitch == UNCHANGED schedVars

-----------------------------------------------------------------------------
(* Semaphores.                                                             *)

(* sema_down(s): one round of its loop, entered with interrupts on (label  *)
(* enter) or after thread_block() came back with interrupts off (label     *)
(* wait).  A thread that finds the value positive decrements it and leaves *)
(* with interrupts on; one that finds 0 joins the waiters and blocks.      *)
InSemaDown(enter, wait) ==
  \/ At(enter)
  \/ ~panic /\ intr_level = "OFF" /\ pc[curr] = wait

SemaDownBlocks(s, wait) ==
  /\ value[s] = 0
  /\ waiters' = [waiters EXCEPT ![s] = Append(@, curr)]
  /\ Goto(wait)
  /\ schedule([status EXCEPT ![curr] = "BLOCKED"], ready_list)
  /\ UNCHANGED <<value, holder, cond_waiters, next_tid, tid, obj, ptr, owned>>

SemaDownTakes(s) ==
  /\ value[s] > 0
  /\ value' = [value EXCEPT ![s] = @ - 1]
  /\ intr_level' = "ON"
  /\ UNCHANGED <<status, ready_list, curr, idle_thread, thread_ticks, halted,
                 panic, waiters, holder, cond_waiters, next_tid, tid, ptr,
                 owned>>

(* Mutant: nobody is woken.                                                *)
SemaUp_silent(s) ==
  /\ value' = [value EXCEPT ![s] = @ + 1]
  /\ UNCHANGED <<waiters, status, ready_list, panic, curr, idle_thread,
                 thread_ticks, intr_level>>

(* sema_up(s), by a thread or a handler: the first waiter, if there is     *)
(* one, is unblocked - thread_unblock() asserts that it is blocked - and   *)
(* the value goes up.                                                      *)
SemaUp(s) ==
  /\ value' = [value EXCEPT ![s] = @ + 1]
  /\ \/ /\ waiters[s] = <<>>
        /\ UNCHANGED <<waiters, status, ready_list, panic>>
     \/ /\ waiters[s] # <<>>
        /\ waiters' = [waiters EXCEPT ![s] = Tail(@)]
        /\ panic' = (status[Head(waiters[s])] # "BLOCKED")
        /\ status' = [status EXCEPT ![Head(waiters[s])] = "READY"]
        /\ ready_list' = Append(ready_list, Head(waiters[s]))
  /\ UNCHANGED <<curr, idle_thread, thread_ticks, intr_level>>

call_sema_down ==
  /\ At("run")
  /\ \E s \in Semaphore \ {idle_started} : Call("sema_down", s)
  /\ NoSwitch
  /\ UNCHANGED <<value, waiters, holder, cond_waiters, next_tid, tid, ptr, owned>>

sema_down ==
  /\ InSemaDown("sema_down", "sema_wait")
  /\ \/ SemaDownBlocks(obj[curr], "sema_wait")
     \/ SemaDownTakes(obj[curr]) /\ Return

sema_try_down(s) ==
  /\ At("run")
  /\ value[s] > 0
  /\ value' = [value EXCEPT ![s] = @ - 1]
  /\ NoSwitch
  /\ UNCHANGED <<waiters, holder, cond_waiters, next_tid, tid, pc, obj, ptr, owned>>

sema_up(s) ==
  /\ At("run")
  /\ value[s] < MaxValue
  /\ SemaUp(s)
  /\ UNCHANGED <<halted, holder, cond_waiters, next_tid, tid, pc, obj, ptr, owned>>

(* A device's interrupt handler ups s.                                     *)
intr_sema_up(s) ==
  /\ ~panic /\ Started /\ intr_level = "ON"
  /\ value[s] < MaxValue
  /\ SemaUp(s)
  /\ halted' = FALSE
  /\ UNCHANGED <<holder, cond_waiters, next_tid, tid, pc, obj, ptr, owned>>

-----------------------------------------------------------------------------
(* Locks.                                                                  *)

(* lock_acquire(l) up to its sema_down.                                    *)
LockAcquire(l) ==
  /\ panic' = (holder[l] = curr)
  /\ UNCHANGED <<status, ready_list, curr, idle_thread, thread_ticks,
                 intr_level, halted>>
  /\ Call("lock_down", l)

(* Mutant: a caller acquires a lock it holds.                              *)
lock_acquire_again(l) ==
  /\ At("run")
  /\ LockAcquire(l)
  /\ UNCHANGED <<value, waiters, holder, cond_waiters, next_tid, tid, ptr, owned>>

lock_acquire(l) ==
  /\ At("run")
  /\ l \notin owned[curr]
  /\ LockAcquire(l)
  /\ UNCHANGED <<value, waiters, holder, cond_waiters, next_tid, tid, ptr, owned>>

(* The sema_down of lock_acquire().                                        *)
lock_down ==
  /\ InSemaDown("lock_down", "lock_wait")
  /\ \/ SemaDownBlocks(obj[curr], "lock_wait")
     \/ SemaDownTakes(obj[curr]) /\ Goto("lock_own") /\ UNCHANGED obj

(* Mutant: holder is tested instead of the semaphore.                      *)
lock_try_acquire_holder(l) ==
  /\ At("run")
  /\ holder[l] = NULL
  /\ panic' = FALSE
  /\ Call("lock_own", l)
  /\ UNCHANGED <<status, ready_list, curr, idle_thread, thread_ticks,
                 intr_level, halted, value, waiters, holder, cond_waiters,
                 next_tid, tid, ptr, owned>>

(* lock_try_acquire(l) when it succeeds, up to the assignment of holder.   *)
lock_try_acquire(l) ==
  /\ At("run")
  /\ l \notin owned[curr]
  /\ value[l] > 0
  /\ value' = [value EXCEPT ![l] = @ - 1]
  /\ panic' = (holder[l] = curr)
  /\ Call("lock_own", l)
  /\ UNCHANGED <<status, ready_list, curr, idle_thread, thread_ticks,
                 intr_level, halted, waiters, holder, cond_waiters, next_tid,
                 tid, ptr, owned>>

(* lock_acquire() notes the holder, interrupts being on, and returns.      *)
lock_own ==
  /\ At("lock_own")
  /\ holder' = [holder EXCEPT ![obj[curr]] = curr]
  /\ owned' = [owned EXCEPT ![curr] = @ \cup {obj[curr]}]
  /\ IF obj[curr] = tid_lock THEN Goto("tid") /\ UNCHANGED obj ELSE Return
  /\ NoSwitch
  /\ UNCHANGED <<value, waiters, cond_waiters, next_tid, tid, ptr>>

(* lock_release(l) up to its sema_up.                                      *)
LockRelease(l) ==
  /\ panic' = (holder[l] # curr)
  /\ holder' = [holder EXCEPT ![l] = NULL]
  /\ owned' = [owned EXCEPT ![curr] = @ \ {l}]
  /\ UNCHANGED <<status, ready_list, curr, idle_thread, thread_ticks,
                 intr_level, halted>>

lock_release(l) ==
  /\ At("run")
  /\ l \in owned[curr]
  /\ LockRelease(l)
  /\ Call("lock_up", l)
  /\ UNCHANGED <<value, waiters, cond_waiters, next_tid, tid, ptr>>

(* The sema_up of lock_release().                                          *)
lock_up ==
  /\ At("lock_up")
  /\ SemaUp(obj[curr])
  /\ IF obj[curr] = tid_lock
     THEN Call("create_unblock", NULL)
     ELSE Return
  /\ UNCHANGED <<halted, holder, cond_waiters, next_tid, tid, ptr, owned>>

-----------------------------------------------------------------------------
(* Condition variables.                                                    *)

(* Mutant: the lock is released before the waiter is on the list.          *)
cond_wait_late(c) ==
  /\ At("run")
  /\ LockOf[c] \in owned[curr]
  /\ value' = [value EXCEPT ![curr] = 0]
  /\ waiters' = [waiters EXCEPT ![curr] = <<>>]
  /\ LockRelease(LockOf[c])
  /\ Call("cond_up", c)
  /\ UNCHANGED <<cond_waiters, next_tid, tid, ptr>>

(* cond_wait(c) up to the sema_up in its lock_release.  The semaphore on   *)
(* the stack is initialised to 0.                                          *)
cond_wait(c) ==
  /\ At("run")
  /\ LockOf[c] \in owned[curr]
  /\ value' = [value EXCEPT ![curr] = 0]
  /\ waiters' = [waiters EXCEPT ![curr] = <<>>]
  /\ cond_waiters' = [cond_waiters EXCEPT ![c] = Append(@, curr)]
  /\ LockRelease(LockOf[c])
  /\ Call("cond_up", c)
  /\ UNCHANGED <<next_tid, tid, ptr>>

cond_up ==
  /\ At("cond_up")
  /\ SemaUp(LockOf[obj[curr]])
  /\ Goto("cond_down")
  /\ UNCHANGED <<halted, holder, cond_waiters, next_tid, tid, obj, ptr, owned>>

(* The sema_down of cond_wait(); a signalled thread goes on to             *)
(* lock_acquire().                                                         *)
cond_down ==
  /\ InSemaDown("cond_down", "cond_wait")
  /\ \/ SemaDownBlocks(curr, "cond_wait")
     \/ SemaDownTakes(curr) /\ Call("lock_down", LockOf[obj[curr]])

(* cond_signal(c) takes the first waiter off the list ...                  *)
PopWaiter(c, label) ==
  /\ cond_waiters[c] # <<>>
  /\ cond_waiters' = [cond_waiters EXCEPT ![c] = Tail(@)]
  /\ ptr' = [ptr EXCEPT ![curr] = Head(cond_waiters[c])]
  /\ panic' = (holder[LockOf[c]] # curr)
  /\ Call(label, c)
  /\ UNCHANGED <<status, ready_list, curr, idle_thread, thread_ticks,
                 intr_level, halted, value, waiters, holder, next_tid, tid,
                 owned>>

cond_signal(c) ==
  /\ At("run")
  /\ LockOf[c] \in owned[curr]
  /\ PopWaiter(c, "signal_up")

(* ... and ups its semaphore.                                              *)
signal_up ==
  /\ At("signal_up")
  /\ SemaUp(ptr[curr])
  /\ Return
  /\ ptr' = [ptr EXCEPT ![curr] = NULL]
  /\ UNCHANGED <<halted, holder, cond_waiters, next_tid, tid, owned>>

(* cond_broadcast(c) signals until the list is empty.                      *)
cond_broadcast(c) ==
  /\ At("run")
  /\ LockOf[c] \in owned[curr]
  /\ PopWaiter(c, "broadcast_up")

broadcast_up ==
  /\ At("broadcast_up")
  /\ SemaUp(ptr[curr])
  /\ Goto("broadcast")
  /\ ptr' = [ptr EXCEPT ![curr] = NULL]
  /\ UNCHANGED <<halted, holder, cond_waiters, next_tid, tid, obj, owned>>

broadcast ==
  /\ At("broadcast")
  /\ \/ PopWaiter(obj[curr], "broadcast_up")
     \/ /\ cond_waiters[obj[curr]] = <<>>
        /\ Return
        /\ NoSwitch
        /\ UNCHANGED <<value, waiters, holder, cond_waiters, next_tid, tid, ptr,
                       owned>>

-----------------------------------------------------------------------------
(* Threads.                                                                *)

(* thread_start() up to its sema_down.  The idle thread gets its tid with  *)
(* interrupts off.                                                         *)
Boot ==
  /\ pc[curr] = "boot"
  /\ thread_start
  /\ tid' = [tid EXCEPT ![IdlePage] = next_tid]
  /\ next_tid' = next_tid + 1
  /\ pc' = [pc EXCEPT ![curr] = "sema_down", ![IdlePage] = "idle_start"]
  /\ obj' = [obj EXCEPT ![curr] = idle_started]
  /\ UNCHANGED <<value, waiters, holder, cond_waiters, ptr, owned>>

(* thread_create() up to the sema_down of allocate_tid()'s lock_acquire: a *)
(* free page t becomes a blocked thread.                                   *)
Create(t) ==
  /\ At("run")
  /\ next_tid <= MaxTid
  /\ status[t] = "FREE"
  /\ status' = [status EXCEPT ![t] = "BLOCKED"]
  /\ panic' = (holder[tid_lock] = curr)
  /\ ptr' = [ptr EXCEPT ![curr] = t]
  /\ Call("lock_down", tid_lock)
  /\ UNCHANGED <<ready_list, curr, idle_thread, thread_ticks, intr_level,
                 halted, value, waiters, holder, cond_waiters, next_tid, tid,
                 owned>>

(* tid = next_tid++ in allocate_tid() is a load ...                        *)
TidLoad ==
  /\ At("tid")
  /\ tid' = [tid EXCEPT ![ptr[curr]] = next_tid]
  /\ Goto("tid_inc")
  /\ NoSwitch
  /\ UNCHANGED <<value, waiters, holder, cond_waiters, next_tid, obj, ptr, owned>>

(* ... and a store, after which tid_lock is released.                      *)
TidStore ==
  /\ At("tid_inc")
  /\ next_tid' = tid[ptr[curr]] + 1
  /\ LockRelease(tid_lock)
  /\ Call("lock_up", tid_lock)
  /\ UNCHANGED <<value, waiters, cond_waiters, tid, ptr>>

(* Mutant: the new thread goes to the front of the run queue.              *)
CreateUnblock_front ==
  /\ At("create_unblock")
  /\ panic' = (status[ptr[curr]] # "BLOCKED")
  /\ status' = [status EXCEPT ![ptr[curr]] = "READY"]
  /\ ready_list' = <<ptr[curr]>> \o ready_list
  /\ pc' = [pc EXCEPT ![curr] = "run", ![ptr[curr]] = "run"]
  /\ ptr' = [ptr EXCEPT ![curr] = NULL]
  /\ UNCHANGED <<curr, idle_thread, thread_ticks, intr_level, halted, value,
                 waiters, holder, cond_waiters, next_tid, tid, obj, owned>>

(* The thread_unblock() of thread_create(): the new thread, which will     *)
(* start in kernel_thread(), joins the run queue.                          *)
CreateUnblock ==
  /\ At("create_unblock")
  /\ panic' = (status[ptr[curr]] # "BLOCKED")
  /\ status' = [status EXCEPT ![ptr[curr]] = "READY"]
  /\ ready_list' = Append(ready_list, ptr[curr])
  /\ pc' = [pc EXCEPT ![curr] = "run", ![ptr[curr]] = "run"]
  /\ ptr' = [ptr EXCEPT ![curr] = NULL]
  /\ UNCHANGED <<curr, idle_thread, thread_ticks, intr_level, halted, value,
                 waiters, holder, cond_waiters, next_tid, tid, obj, owned>>

YieldCPU ==
  /\ At("run")
  /\ thread_yield
  /\ UNCHANGED synchVars

(* Mutant: the thread exits with a lock held.                              *)
Exit_holding ==
  /\ At("run")
  /\ thread_exit
  /\ Goto("none")
  /\ tid' = [tid EXCEPT ![curr] = 0]
  /\ UNCHANGED <<value, waiters, holder, cond_waiters, next_tid, obj, ptr, owned>>

Exit ==
  /\ At("run")
  /\ owned[curr] = {}
  /\ thread_exit
  /\ Goto("none")
  /\ tid' = [tid EXCEPT ![curr] = 0]
  /\ UNCHANGED <<value, waiters, holder, cond_waiters, next_tid, obj, ptr, owned>>

(* A resumed thread that is not in the loop of sema_down() turns           *)
(* interrupts on.                                                          *)
Resume ==
  /\ pc[curr] \notin WaitLabel
  /\ intr_set_level
  /\ UNCHANGED synchVars

IdleStart ==
  /\ At("idle_start")
  /\ idle_start
  /\ Goto("idle_up")
  /\ UNCHANGED <<value, waiters, holder, cond_waiters, next_tid, tid, obj, ptr, owned>>

IdleUp ==
  /\ At("idle_up")
  /\ SemaUp(idle_started)
  /\ Goto("idle_loop")
  /\ UNCHANGED <<halted, holder, cond_waiters, next_tid, tid, obj, ptr, owned>>

IdleLoop ==
  /\ At("idle_loop")
  /\ idle_loop
  /\ UNCHANGED synchVars

Tick ==
  /\ timer_interrupt
  /\ UNCHANGED synchVars

-----------------------------------------------------------------------------
(* Code that goes on by itself once it is entered.                         *)
Step ==
  \/ sema_down \/ lock_down \/ cond_down
  \/ lock_own \/ lock_up \/ cond_up
  \/ signal_up \/ broadcast_up \/ broadcast
  \/ TidLoad \/ TidStore \/ CreateUnblock
  \/ Boot \/ IdleStart \/ IdleUp \/ IdleLoop
  \/ Resume

(* What client code may do.                                                *)
Client ==
  \/ call_sema_down
  \/ \E s \in Semaphore \ {idle_started} : sema_try_down(s) \/ sema_up(s)
  \/ \E l \in Lock \ {tid_lock} :
        lock_acquire(l) \/ lock_try_acquire(l) \/ lock_release(l)
  \/ \E c \in Condition : cond_wait(c) \/ cond_signal(c) \/ cond_broadcast(c)
  \/ \E t \in Thread : Create(t)
  \/ YieldCPU
  \/ Exit

SynchNext ==
  \/ Step
  \/ Client
  \/ Tick
  \/ \E s \in IntrSema : intr_sema_up(s)

SynchSpec == SynchInit /\ [][SynchNext]_vars

(* The timer keeps interrupting, and code that needs no decision of a      *)
(* client goes on.                                                         *)
SynchFairSpec == SynchSpec /\ WF_vars(Tick) /\ WF_vars(Step)

-----------------------------------------------------------------------------
(* Properties.                                                             *)

(* The semaphore whose sema_down() a thread is in.                         *)
Target(t) ==
  CASE pc[t] \in {"sema_down", "sema_wait", "lock_down", "lock_wait"} -> obj[t]
    [] pc[t] \in {"cond_down", "cond_wait"} -> t
    [] OTHER -> NULL

(* The threads between the sema_down of l's lock_acquire() and the sema_up *)
(* of its lock_release().                                                  *)
Inside(l) ==
  {t \in Thread : \/ l \in owned[t]
                  \/ pc[t] \in {"lock_own", "lock_up"} /\ obj[t] = l
                  \/ pc[t] = "cond_up" /\ LockOf[obj[t]] = l}

(* The threads a sema_up() took off the waiters of s, which have not run   *)
(* since.                                                                  *)
Woken(s) ==
  {t \in Thread : pc[t] \in WaitLabel /\ Target(t) = s /\ status[t] # "BLOCKED"}

(* thread.h, lines 77-82: a thread's elem is on the run queue or on one    *)
(* semaphore's waiters list, never on two lists.  A thread is on the list  *)
(* of the semaphore it is downing exactly while it is blocked there, so    *)
(* none is blocked with nobody left to find it.                            *)
ElemOnOneList ==
  /\ RunQueueExact
  /\ \A s \in Sema : IsInjective(waiters[s])
  /\ \A t \in Thread, s \in Sema :
        t \in Range(waiters[s]) <=>
          status[t] = "BLOCKED" /\ pc[t] \in WaitLabel /\ Target(t) = s

(* sema_up() wakes one waiter per increment, but a thread that never       *)
(* waited may take the value first and send the woken one back to the end  *)
(* of the list.  No wakeup is lost by it: while threads wait, every unit   *)
(* of the value has a woken thread on its way to it.                       *)
NoLostWakeup ==
  \A s \in Sema : waiters[s] # <<>> => value[s] <= Cardinality(Woken(s))

(* cond_wait() keeps its semaphore on its stack: every thread on a         *)
(* condition's list, or just taken off it by a signaller that has yet to   *)
(* up it, is still inside cond_wait(), so sema_up() touches a live frame.  *)
SignalFindsWaiter ==
  /\ \A c \in Condition : \A t \in Range(cond_waiters[c]) :
        pc[t] \in {"cond_up", "cond_down", "cond_wait"} /\ obj[t] = c /\ value[t] = 0
  /\ \A u \in Thread : pc[u] \in {"signal_up", "broadcast_up"} =>
        pc[ptr[u]] \in {"cond_up", "cond_down", "cond_wait"} /\ value[ptr[u]] = 0

(* cond_wait() releases the lock before it waits: a signal sent in between *)
(* is not lost.  A thread that waits unsignalled can still be signalled,   *)
(* and a signaller finds it waiting.                                       *)
NoLostSignal ==
  /\ SignalFindsWaiter
  /\ \A t \in Thread :
       pc[t] \in {"cond_up", "cond_down", "cond_wait"} /\ value[t] = 0 =>
         \/ t \in Range(cond_waiters[obj[t]])
         \/ \E u \in Thread : pc[u] \in {"signal_up", "broadcast_up"} /\ ptr[u] = t

(* allocate_tid() increments next_tid in two instructions, under tid_lock: *)
(* live threads have different tids.                                       *)
TidsUnique ==
  \A t, u \in Thread : tid[t] = tid[u] /\ t # u => tid[t] = 0

(* schedule_tail() frees the page of a thread that exits.  Nothing refers  *)
(* to a freed page: no list, no lock, no creator but the one that gets it. *)
NoUseAfterFree ==
  \A t \in Thread : status[t] = "FREE" =>
    /\ curr # t
    /\ \A s \in Sema : t \notin Range(waiters[s])
    /\ \A c \in Condition : t \notin Range(cond_waiters[c])
    /\ \A l \in Lock : holder[l] # t
    /\ \A u \in Thread : ptr[u] # t

(* The state of the threads is sound: of its type, each elem on the one    *)
(* list that its status calls for, no freed page referred to, and no tid   *)
(* given out twice.                                                        *)
ThreadsSound == SynchTypeOK /\ ElemOnOneList /\ NoUseAfterFree /\ TidsUnique

(* A semaphore does not sit at a positive value with threads waiting for   *)
(* it: the woken thread runs and takes it, or another thread does.         *)
WakeupArrives ==
  \A s \in Sema : (value[s] > 0 /\ waiters[s] # <<>>) ~>
                     (value[s] = 0 \/ waiters[s] = <<>>)

(* The locks implement Mutex: a thread owns a lock from the sema_down of   *)
(* lock_acquire() to the sema_up of lock_release(), also in the windows    *)
(* where the holder member is not set yet or cleared already.  Two owners  *)
(* would be none that Mutex knows.                                         *)
Owner ==
  [l \in Lock |-> CASE Inside(l) = {} -> NULL
                    [] \E t \in Thread : Inside(l) = {t} ->
                         CHOOSE t \in Thread : Inside(l) = {t}
                    [] OTHER -> Inside(l)]

Abstract == INSTANCE Mutex WITH owner <- Owner

(* lock_acquire(), lock_try_acquire(), lock_release() and cond_wait()      *)
(* implement the abstract lock: ownership goes from nobody to one thread   *)
(* and from that thread back to nobody.                                    *)
ImplementsMutex == Abstract!Spec

(* The primitives use the scheduler as it allows: every step of this       *)
(* module is a step of module Thread, or leaves the scheduler alone.       *)
UsesScheduler == Spec
=============================================================================
