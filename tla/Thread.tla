------------------------------- MODULE Thread -------------------------------
(***************************************************************************)
(* The thread scheduler of threads/thread.c: the run queue, the context    *)
(* switch, thread creation and destruction, the idle thread, and           *)
(* preemption by the timer through intr_handler of threads/interrupt.c.    *)
(*                                                                         *)
(* The machine has one CPU.  An action is a stretch of code that no        *)
(* interrupt can divide: code that runs with interrupts off, or one access *)
(* to shared state made with interrupts on.  What the threads are running  *)
(* for (semaphores, timers, devices) is left to the modules that use this  *)
(* one; here a running thread may block, unblock, yield, create and exit   *)
(* whenever the code lets it.                                              *)
(***************************************************************************)
EXTENDS Integers, Sequences, Functions

CONSTANTS
  Thread,          \* the pages that can hold a struct thread and its stack
  initial_thread,  \* the page main() runs in
  IdlePage,        \* the page thread_start() creates the idle thread in
  NULL,            \* a null struct thread pointer
  TIME_SLICE       \* timer ticks a thread may run before it is preempted

ASSUME ThreadAssumption ==
  /\ initial_thread \in Thread
  /\ IdlePage \in Thread \ {initial_thread}
  /\ NULL \notin Thread
  /\ TIME_SLICE \in Nat \ {0}

VARIABLES
  status,        \* status member of each page's struct thread; FREE: no thread
  ready_list,    \* the run queue, in order
  curr,          \* the thread the CPU runs
  idle_thread,   \* the variable idle_thread
  thread_ticks,  \* timer ticks since the last switch
  intr_level,    \* the interrupt flag of the CPU
  halted,        \* the CPU is in the hlt of idle(), waiting for an interrupt
  panic          \* an ASSERT has failed: the kernel has stopped

schedVars == <<status, ready_list, curr, idle_thread, thread_ticks,
               intr_level, halted, panic>>

Status == {"FREE", "BLOCKED", "READY", "RUNNING", "DYING"}

TypeOK ==
  /\ status \in [Thread -> Status]
  /\ ready_list \in Seq(Thread)
  /\ curr \in Thread
  /\ idle_thread \in {NULL, IdlePage}
  /\ thread_ticks \in 0 .. (TIME_SLICE - 1)
  /\ intr_level \in {"ON", "OFF"}
  /\ halted \in BOOLEAN
  /\ panic \in BOOLEAN

(* The state thread_init() leaves: main runs, interrupts are off, nothing  *)
(* else exists.                                                            *)
Init ==
  /\ status = [t \in Thread |-> IF t = initial_thread THEN "RUNNING" ELSE "FREE"]
  /\ ready_list = <<>>
  /\ curr = initial_thread
  /\ idle_thread = NULL
  /\ thread_ticks = 0
  /\ intr_level = "OFF"
  /\ halted = FALSE
  /\ panic = FALSE

(* thread_start() has created the idle thread.                             *)
Started == status[IdlePage] # "FREE"

(* The current thread executes its next instruction with interrupts on.    *)
Executing == ~panic /\ ~halted /\ Started /\ intr_level = "ON"

-----------------------------------------------------------------------------
(* The scheduler proper.  st and rl are the statuses and the run queue as  *)
(* the caller of schedule() leaves them.                                   *)

(* A struct thread is recognised by its magic, which palloc_free_page()    *)
(* overwrites.                                                             *)
is_thread(st, t) == t \in Thread /\ st[t] # "FREE"

next_thread_to_run(rl) == IF rl = <<>> THEN idle_thread ELSE Head(rl)

(* The page of a dying thread is freed once another thread runs, except    *)
(* the initial thread's.                                                   *)
schedule_tail(st, next) ==
  [t \in Thread |->
     IF t = next THEN "RUNNING"
     ELSE IF t = curr /\ st[t] = "DYING" /\ t # initial_thread THEN "FREE"
     ELSE st[t]]

(* schedule() and schedule_tail().  The thread switched to comes back with *)
(* interrupts off, wherever it had called schedule() - or, the first time, *)
(* in kernel_thread().  The idle thread, when it had blocked, goes on to   *)
(* "sti; hlt" in the same breath.  The ASSERTs stop the kernel when the    *)
(* current thread was not given another status, or when there is nothing   *)
(* to switch to.                                                           *)
schedule(st, rl) ==
  LET next == next_thread_to_run(rl)
      idling == next = IdlePage /\ st[next] = "BLOCKED"
  IN  /\ panic' = (st[curr] = "RUNNING" \/ ~is_thread(st, next))
      /\ status' = schedule_tail(st, next)
      /\ ready_list' = IF rl = <<>> THEN rl ELSE Tail(rl)
      /\ curr' = next
      /\ thread_ticks' = 0
      /\ intr_level' = IF idling THEN "ON" ELSE "OFF"
      /\ halted' = idling
      /\ UNCHANGED idle_thread

(* Mutant: a list_push_front().                                            *)
Requeue_front(rl, t) == IF t # idle_thread THEN <<t>> \o rl ELSE rl

(* The run queue after t, when it is not the idle thread, is put at its    *)
(* end.                                                                    *)
Requeue(rl, t) == IF t # idle_thread THEN Append(rl, t) ELSE rl

(* thread_yield() with interrupts off, st and rl being the state a handler *)
(* that ran before it leaves.                                              *)
Yield(st, rl) ==
  schedule([st EXCEPT ![curr] = "READY"], Requeue(rl, curr))

(* thread_tick(), and the end of intr_handler() that yields when           *)
(* thread_tick() asked for it.  The handler ran before and left st and rl. *)
ThreadTick(st, rl) ==
  \/ /\ thread_ticks + 1 >= TIME_SLICE
     /\ Yield(st, rl)
  \/ /\ thread_ticks + 1 < TIME_SLICE
     /\ status' = st
     /\ ready_list' = rl
     /\ thread_ticks' = thread_ticks + 1
     /\ halted' = FALSE
     /\ UNCHANGED <<curr, idle_thread, intr_level, panic>>

-----------------------------------------------------------------------------
(* Operations.                                                             *)

(* thread_start() up to its sema_down: the idle thread is created and      *)
(* interrupts come on.                                                     *)
thread_start ==
  /\ ~Started
  /\ status' = [status EXCEPT ![IdlePage] = "READY"]
  /\ ready_list' = Append(ready_list, IdlePage)
  /\ intr_level' = "ON"
  /\ UNCHANGED <<curr, idle_thread, thread_ticks, halted, panic>>

(* thread_create() up to its thread_unblock: t is a page palloc had free.  *)
thread_create(t) ==
  /\ Executing
  /\ curr # IdlePage
  /\ status[t] = "FREE"
  /\ status' = [status EXCEPT ![t] = "BLOCKED"]
  /\ UNCHANGED <<ready_list, curr, idle_thread, thread_ticks, intr_level,
                 halted, panic>>

(* thread_unblock(t) by the current thread.  That t is blocked is the      *)
(* caller's duty.                                                          *)
thread_unblock(t) ==
  /\ Executing
  /\ t # IdlePage
  /\ status[t] = "BLOCKED"
  /\ status' = [status EXCEPT ![t] = "READY"]
  /\ ready_list' = Append(ready_list, t)
  /\ UNCHANGED <<curr, idle_thread, thread_ticks, intr_level, halted, panic>>

(* An interrupt handler other than the timer's that unblocks t.            *)
intr_unblock(t) ==
  /\ ~panic /\ Started /\ intr_level = "ON"
  /\ t # IdlePage
  /\ status[t] = "BLOCKED"
  /\ status' = [status EXCEPT ![t] = "READY"]
  /\ ready_list' = Append(ready_list, t)
  /\ halted' = FALSE
  /\ UNCHANGED <<curr, idle_thread, thread_ticks, intr_level, panic>>

(* An interrupt handler that unblocks nobody.  It ends the hlt of idle()   *)
(* all the same, and idle() goes round its loop.                           *)
intr_return ==
  /\ ~panic /\ Started /\ intr_level = "ON"
  /\ halted' = FALSE
  /\ UNCHANGED <<status, ready_list, curr, idle_thread, thread_ticks,
                 intr_level, panic>>

(* thread_block().  A thread that was resumed with interrupts off may      *)
(* block again before it turns them on, as sema_down() does.               *)
thread_block ==
  /\ ~panic /\ ~halted /\ Started
  /\ curr # IdlePage
  /\ schedule([status EXCEPT ![curr] = "BLOCKED"], ready_list)

thread_yield ==
  /\ Executing
  /\ curr # IdlePage
  /\ Yield(status, ready_list)

thread_exit ==
  /\ Executing
  /\ curr # IdlePage
  /\ schedule([status EXCEPT ![curr] = "DYING"], ready_list)

(* A resumed thread turns interrupts back on: intr_set_level(old_level) in *)
(* thread_yield() and its like, intr_enable() in kernel_thread(), or the   *)
(* return from the interrupt that preempted it.                            *)
intr_set_level ==
  /\ ~panic /\ Started
  /\ intr_level = "OFF"
  /\ intr_level' = "ON"
  /\ UNCHANGED <<status, ready_list, curr, idle_thread, thread_ticks, halted,
                 panic>>

(* idle() makes itself known before it ups idle_started.                   *)
idle_start ==
  /\ Executing
  /\ curr = IdlePage
  /\ idle_thread = NULL
  /\ idle_thread' = curr
  /\ UNCHANGED <<status, ready_list, curr, thread_ticks, intr_level, halted,
                 panic>>

(* The loop of idle(): block, and halt when there is nothing else to run.  *)
idle_loop ==
  /\ Executing
  /\ curr = IdlePage
  /\ idle_thread # NULL
  /\ schedule([status EXCEPT ![curr] = "BLOCKED"], ready_list)

(* The timer interrupt, as far as the scheduler is concerned.              *)
timer_interrupt ==
  /\ ~panic /\ Started /\ intr_level = "ON"
  /\ ThreadTick(status, ready_list)

Next ==
  \/ thread_start
  \/ \E t \in Thread : thread_create(t) \/ thread_unblock(t) \/ intr_unblock(t)
  \/ intr_return
  \/ thread_block
  \/ thread_yield
  \/ thread_exit
  \/ intr_set_level
  \/ idle_start
  \/ idle_loop
  \/ timer_interrupt

Spec == Init /\ [][Next]_schedVars

(* The timer chip keeps interrupting, code that runs with interrupts off   *)
(* is straight-line and ends, and the idle thread, which runs no client    *)
(* code, goes on through its loop.  Nothing is assumed of other threads.   *)
Fairness ==
  /\ WF_schedVars(thread_start)
  /\ WF_schedVars(timer_interrupt)
  /\ WF_schedVars(intr_set_level)
  /\ WF_schedVars(idle_start)
  /\ WF_schedVars(idle_loop)

FairSpec == Spec /\ Fairness

-----------------------------------------------------------------------------
(* Properties.                                                             *)

(* No ASSERT of the scheduler fails: schedule() always finds a live thread *)
(* to switch to.  Before idle() has set idle_thread the run queue must not *)
(* run dry, and no freed page may be left on it.                           *)
NoPanic == ~panic

(* thread.h, lines 77-82: the elem member of a thread serves one list at a *)
(* time.  The run queue holds, once each, exactly the ready threads - all  *)
(* but the idle thread, which is ready but unqueued when it was preempted  *)
(* - and the current thread is the only one running.                       *)
RunQueueExact ==
  /\ IsInjective(ready_list)
  /\ \A t \in Range(ready_list) : status[t] = "READY"
  /\ \A t \in Thread :
        status[t] = "READY" => t \in Range(ready_list) \/ t = idle_thread
  /\ \A t \in Thread : status[t] = "RUNNING" <=> t = curr

(* idle(), lines 368-369: once it has made itself known, "the idle thread  *)
(* never appears in the ready list", although it is preempted like others. *)
IdleNeverQueued == idle_thread # NULL => idle_thread \notin Range(ready_list)

(* FIFO order with a time slice starves no one: whatever the others do, a  *)
(* thread on the run queue gets the CPU.                                   *)
ReadyThreadRuns ==
  \A t \in Thread \ {IdlePage} : status[t] = "READY" ~> status[t] = "RUNNING"
=============================================================================
