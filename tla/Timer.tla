------------------------------- MODULE Timer --------------------------------
(***************************************************************************)
(* The alarm clock of devices/timer.c: timer_sleep(), which puts the       *)
(* current thread on block_list and blocks it, and timer_interrupt(),      *)
(* which wakes the threads whose time has come.                            *)
(*                                                                         *)
(* Only differences of tick counts matter to this code, so every tick      *)
(* count is kept relative to the variable ticks: ticks++ is the            *)
(* decrement of all of them, and "block_end_tick <= ticks" is "<= 0".      *)
(*                                                                         *)
(* timer_sleep() inserts into block_list with interrupts on, and calls     *)
(* thread_block() a few instructions later.  A tick may come between its   *)
(* reading the clock, its finding the place to insert, its inserting and   *)
(* its blocking.                                                           *)
(***************************************************************************)
EXTENDS Thread, FiniteSets

CONSTANTS
  Duration,     \* the tick counts passed to timer_sleep()
  Pri,          \* the thread priorities in use
  StartPri,     \* the priority each thread was created with
  Build,        \* for each build, what "t == idle_thread", with t
                \* uninitialised, can evaluate to
  Floor         \* bound: ticks past due are not counted beyond this many

ASSUME TimerAssumption ==
  /\ Duration \subseteq Int
  /\ Pri \subseteq Nat
  /\ StartPri \in [Thread -> Pri]
  /\ Build \subseteq SUBSET BOOLEAN \ {{}}
  /\ Floor \in Nat

VARIABLES
  block_list,      \* the sleeping threads, in list order
  block_end_tick,  \* member of each thread, relative to ticks
  priority,        \* member of each thread
  pc,              \* where each thread is
  spot,            \* the element a sleeper is to be linked before; NULL: the end
  due,             \* history: the tick each sleeper asked for, relative
  stray,           \* a sleeper was linked outside block_list
  build            \* the build that runs

timerVars == <<block_list, block_end_tick, priority, pc, spot, due, stray, build>>
vars == <<schedVars, timerVars>>

(* Ticks a lower-priority sleeper is put off.                              *)
low_priority_add_tick == 10

TimerTypeOK ==
  /\ TypeOK
  /\ block_list \in Seq(Thread)
  /\ block_end_tick \in [Thread -> Int]
  /\ priority \in [Thread -> Pri]
  /\ pc \in [Thread -> {"run", "search", "link", "block", "asleep", "idle"}]
  /\ spot \in [Thread -> Thread \cup {NULL}]
  /\ due \in [Thread -> Int]
  /\ stray \in BOOLEAN
  /\ build \in Build

(* The kernel is up: main runs, the other threads are ready, the idle      *)
(* thread waits for its turn.                                              *)
TimerInit ==
  /\ status = [t \in Thread |-> CASE t = initial_thread -> "RUNNING"
                                  [] t = IdlePage -> "BLOCKED"
                                  [] OTHER -> "READY"]
  /\ ready_list \in [1 .. Cardinality(Thread) - 2 -> Thread \ {initial_thread, IdlePage}]
  /\ IsInjective(ready_list)
  /\ curr = initial_thread
  /\ idle_thread = IdlePage
  /\ thread_ticks = 0
  /\ intr_level = "ON"
  /\ halted = FALSE
  /\ panic = FALSE
  /\ block_list = <<>>
  /\ block_end_tick = [t \in Thread |-> 0]
  /\ priority = StartPri
  /\ pc = [t \in Thread |-> IF t = IdlePage THEN "idle" ELSE "run"]
  /\ spot = [t \in Thread |-> NULL]
  /\ due = [t \in Thread |-> 0]
  /\ stray = FALSE
  /\ build \in Build

(* The links of the lists no longer make sense: a thread's elem was put on *)
(* the run queue while it was on block_list, or linked next to an elem     *)
(* that had left block_list.  What follows is not modelled.                *)
Corrupt == stray \/ Range(block_list) \cap Range(ready_list) # {}

At(label) == Executing /\ ~Corrupt /\ pc[curr] = label

Goto(label) == pc' = [pc EXCEPT ![curr] = label]

-----------------------------------------------------------------------------
(* compare_priority() and the loop of list_insert_ordered(): the first     *)
(* element of lower priority than t.                                       *)
Spot(t) ==
  LET lower == {i \in DOMAIN block_list : priority[t] > priority[block_list[i]]}
  IN  IF lower = {} THEN NULL
      ELSE block_list[CHOOSE i \in lower : \A j \in lower : i <= j]

(* list_insert(): t before the element e of block_list, or at its end.     *)
Linked(t, e) ==
  LET i == IF e = NULL THEN Len(block_list) + 1
           ELSE CHOOSE k \in DOMAIN block_list : block_list[k] = e
  IN  SubSeq(block_list, 1, i - 1) \o <<t>> \o SubSeq(block_list, i, Len(block_list))

(* timer_sleep(n) reads the clock and records the end ...                  *)
timer_sleep(n) ==
  /\ At("run")
  /\ block_end_tick' = [block_end_tick EXCEPT ![curr] = n]
  /\ due' = [due EXCEPT ![curr] = n]
  /\ Goto("search")
  /\ UNCHANGED <<schedVars, block_list, priority, spot, stray>>

(* ... looks, interrupts being on, for its place in block_list ...         *)
sleep_search ==
  /\ At("search")
  /\ spot' = [spot EXCEPT ![curr] = Spot(curr)]
  /\ Goto("link")
  /\ UNCHANGED <<schedVars, block_list, block_end_tick, priority, due, stray>>

(* ... links itself in there, wherever the element it found may be by now  *)
(* ...                                                                     *)
sleep_link ==
  /\ At("link")
  /\ stray' = (spot[curr] \notin Range(block_list) \cup {NULL})
  /\ block_list' = IF stray' THEN block_list ELSE Linked(curr, spot[curr])
  /\ spot' = [spot EXCEPT ![curr] = NULL]
  /\ Goto("block")
  /\ UNCHANGED <<schedVars, block_end_tick, priority, due>>

(* ... and disables interrupts and blocks.                                 *)
sleep_block ==
  /\ At("block")
  /\ thread_block
  /\ Goto("asleep")
  /\ UNCHANGED <<block_list, block_end_tick, priority, spot, due, stray>>

(* A thread that was switched to turns interrupts on; a sleeper's          *)
(* timer_sleep() returns.                                                  *)
Resume ==
  /\ ~Corrupt
  /\ intr_set_level
  /\ pc' = [pc EXCEPT ![curr] = IF @ = "asleep" THEN "run" ELSE @]
  /\ UNCHANGED <<block_list, block_end_tick, priority, spot, due, stray>>

(* What else a thread does: change its priority, or yield.                 *)
thread_set_priority(p) ==
  /\ At("run")
  /\ priority[curr] # p
  /\ priority' = [priority EXCEPT ![curr] = p]
  /\ UNCHANGED <<schedVars, block_list, block_end_tick, pc, spot, due, stray>>

YieldCPU ==
  /\ At("run")
  /\ thread_yield
  /\ UNCHANGED timerVars

IdleLoop ==
  /\ ~Corrupt
  /\ idle_loop
  /\ UNCHANGED timerVars

-----------------------------------------------------------------------------
(* timer_interrupt().                                                      *)

(* t is in timer_sleep() and has not been woken.                           *)
Sleeping(t) == pc[t] \in {"search", "link", "block"} \/ t \in Range(block_list)

(* Tick counts of the sleepers, relative to ticks, after ticks++.          *)
Aged(f) == [t \in Thread |-> IF Sleeping(t) /\ f[t] > -Floor THEN f[t] - 1 ELSE f[t]]

(* The first loop: in list order, a thread right behind one of higher      *)
(* priority has its end overwritten.                                       *)
PutOff(end) ==
  LET at[i \in DOMAIN block_list] ==
        IF i > 1 /\ priority[block_list[i - 1]] > priority[block_list[i]]
        THEN at[i - 1] + low_priority_add_tick
        ELSE end[block_list[i]]
  IN  [t \in Thread |->
         IF t \in Range(block_list)
         THEN at[CHOOSE i \in DOMAIN block_list : block_list[i] = t]
         ELSE end[t]]

(* Mutant: < for <=.                                                       *)
DueThreads_late(end) == LET isDue(t) == end[t] < 0 IN SelectSeq(block_list, isDue)

(* The second loop: the threads whose end has come, in list order, ...     *)
DueThreads(end) == LET isDue(t) == end[t] <= 0 IN SelectSeq(block_list, isDue)

(* Mutant: the removal is not tied to the thread that wakes.               *)
Remaining_none(woken) == IF woken = <<>> THEN block_list ELSE <<>>

(* ... leave block_list ...                                                *)
Remaining(woken) ==
  LET stays(t) == t \notin Range(woken) IN SelectSeq(block_list, stays)

(* ... for the run queue.  Then comes thread_tick().                       *)
Unblocked(woken) ==
  ThreadTick([t \in Thread |-> IF t \in Range(woken) THEN "READY" ELSE status[t]],
             ready_list \o woken)

(* thread_unblock() asserts that each of them is blocked.  Of a thread     *)
(* that was woken no tick count is read again: it is set to 0.             *)
WakeUp(end) ==
  LET woken == DueThreads(end)
      forget(f) == [t \in Thread |-> IF t \in Range(woken) THEN 0 ELSE f[t]]
  IN  /\ block_list' = Remaining(woken)
      /\ block_end_tick' = forget(end)
      /\ due' = forget(Aged(due))
      /\ IF \A t \in Range(woken) : status[t] = "BLOCKED"
         THEN Unblocked(woken)
         ELSE /\ panic' = TRUE
              /\ UNCHANGED <<status, ready_list, curr, idle_thread,
                             thread_ticks, intr_level, halted>>

(* The handler runs the loops when "t == idle_thread" holds of a t that    *)
(* was not initialised.  With an empty list they do nothing.               *)
Tick(matches) ==
  /\ ~panic /\ ~Corrupt /\ intr_level = "ON"
  /\ \/ matches /\ WakeUp(PutOff(Aged(block_end_tick)))
     \/ /\ ~matches
        /\ ThreadTick(status, ready_list)
        /\ block_end_tick' = Aged(block_end_tick)
        /\ due' = Aged(due)
        /\ UNCHANGED block_list
  /\ UNCHANGED <<priority, pc, spot, stray>>

AnyTick == \E matches \in build : Tick(matches)

TimerStep ==
  \/ \E n \in Duration : timer_sleep(n)
  \/ sleep_search
  \/ sleep_link
  \/ sleep_block
  \/ \E p \in Pri : thread_set_priority(p)
  \/ YieldCPU
  \/ Resume
  \/ IdleLoop
  \/ AnyTick

TimerNext == TimerStep /\ UNCHANGED build

TimerSpec == TimerInit /\ [][TimerNext]_vars

(* The timer chip keeps interrupting, and the interrupt controller keeps   *)
(* its request pending while interrupts are off: a tick that can be taken  *)
(* again and again is taken.  A resumed thread turns interrupts on, and    *)
(* the idle thread goes on to its hlt.  Nothing is assumed of what the     *)
(* other threads do.                                                       *)
TimerFairSpec ==
  /\ TimerSpec
  /\ SF_vars(AnyTick /\ UNCHANGED build)
  /\ WF_vars(Resume /\ UNCHANGED build)
  /\ WF_vars(IdleLoop /\ UNCHANGED build)

-----------------------------------------------------------------------------
(* Properties.                                                             *)

Broken == panic \/ Corrupt

(* While nothing has broken, a tick that wakes several threads at once and *)
(* preempts the current one leaves the run queue exact: every ready thread *)
(* is on it once, and the idle thread is not.                              *)
WakeKeepsRunQueue == ~Broken => RunQueueExact /\ IdleNeverQueued

(* While nothing has broken, block_list holds each thread at most once,    *)
(* and the blocked threads on it are exactly those that timer_sleep() put  *)
(* to sleep and no tick has woken: a sleeper that fell off the list would  *)
(* sleep for ever.  The one other thread that may be on it is one that has *)
(* linked itself in and not yet blocked, and that is the one running.  The *)
(* threads a tick wakes are on the run queue instead.                      *)
SleepersListed ==
  /\ TimerTypeOK
  /\ WakeKeepsRunQueue
  /\ ~Broken => /\ IsInjective(block_list)
                /\ \A t \in Thread :
                      t \in Range(block_list) <=>
                         \/ pc[t] = "asleep" /\ status[t] = "BLOCKED"
                         \/ pc[t] = "block" /\ t = curr

(* In a build whose comparison holds, every tick runs the loops, and       *)
(* nothing the other threads do changes when a thread of the highest       *)
(* priority wakes: no tick wakes it before the time it asked for, and the  *)
(* first tick at or after that time does wake it.                          *)
Top(t) == \A p \in Pri : priority[t] >= p

TopWakesOnTime ==
  [][build = {TRUE} /\ AnyTick /\ ~Broken' =>
       \A t \in Range(block_list) :
          Top(t) => (t \notin Range(block_list') <=> Aged(due)[t] <= 0)]_vars

(* In such a build a sleeping thread of the highest priority runs again,   *)
(* whatever the others do, unless the kernel breaks.                       *)
TopSleeperReturns ==
  \A t \in Thread : (build = {TRUE} /\ pc[t] = "asleep" /\ Top(t)) ~> (pc[t] = "run" \/ Broken)

(* alarm-negative.c: timer_sleep() with a negative tick count must not     *)
(* crash the kernel.  (It can: a tick between list_insert_ordered() and    *)
(* intr_disable() finds the running thread due.)  NoPanic of Thread.       *)

(* timer_sleep() "suspends execution for approximately TICKS timer ticks": *)
(* no tick wakes a thread before the time it asked for.                    *)
NoEarlyWake ==
  [][\A t \in Range(block_list) :
       t \notin Range(block_list') => Aged(due)[t] <= 0]_vars
=============================================================================
