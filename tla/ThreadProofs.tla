---------------------------- MODULE ThreadProofs ----------------------------
(***************************************************************************)
(* The scheduler's invariants hold for any set of pages and any time       *)
(* slice.                                                                  *)
(***************************************************************************)
EXTENDS Thread, SequenceTheorems, TLAPS

(* Until idle() has set idle_thread the idle thread itself is queued or    *)
(* runs, so the run queue is not empty when somebody else gives up the     *)
(* CPU; and it never exits.                                                *)
IdleAtHand ==
  /\ Started /\ idle_thread = NULL =>
        IdlePage \in Range(ready_list) \/ curr = IdlePage
  /\ ~Started => idle_thread = NULL
  /\ status[IdlePage] # "DYING"

(* The inductive invariant.                                                *)
SchedInv ==
  /\ TypeOK
  /\ NoPanic
  /\ RunQueueExact
  /\ IdleNeverQueued
  /\ IdleAtHand

(* What a caller of schedule() has to have arranged, in st and rl.         *)
SwitchReady(st, rl) ==
  /\ st \in [Thread -> Status]
  /\ rl \in Seq(Thread)
  /\ IsInjective(rl)
  /\ \A t \in Range(rl) : st[t] = "READY"
  /\ \A t \in Thread : st[t] = "READY" => t \in Range(rl) \/ t = idle_thread
  /\ \A t \in Thread : st[t] # "RUNNING"
  /\ idle_thread # NULL => idle_thread \notin Range(rl)
  /\ idle_thread = NULL => IdlePage \in Range(rl)
  /\ st[IdlePage] \notin {"FREE", "DYING"}

-----------------------------------------------------------------------------
(* Appending a new element to a duplicate-free queue keeps it so.          *)
LEMMA QueueAppend ==
  ASSUME NEW S, NEW q \in Seq(S), NEW e \in S
  PROVE  /\ Append(q, e) \in Seq(S)
         /\ Range(Append(q, e)) = Range(q) \cup {e}
         /\ IsInjective(q) /\ e \notin Range(q) => IsInjective(Append(q, e))
<1> DEFINE r == Append(q, e)
<1>1. /\ r \in Seq(S)
      /\ DOMAIN r = 1 .. (Len(q) + 1)
      /\ DOMAIN q = 1 .. Len(q)
      /\ Len(q) \in Nat
      /\ \A i \in 1 .. Len(q) : r[i] = q[i]
      /\ r[Len(q) + 1] = e
  BY AppendProperties, LenProperties
<1> HIDE DEF r
<1>2. Range(r) = Range(q) \cup {e}
  BY <1>1 DEF Range
<1>3. IsInjective(q) /\ e \notin Range(q) => IsInjective(r)
  BY <1>1 DEF Range, IsInjective
<1>4. QED
  BY <1>1, <1>2, <1>3 DEF r

(* Taking the head off a duplicate-free queue removes exactly that         *)
(* element.                                                                *)
LEMMA QueueTail ==
  ASSUME NEW S, NEW q \in Seq(S), q # <<>>, IsInjective(q)
  PROVE  /\ Head(q) \in S
         /\ Head(q) \in Range(q)
         /\ Tail(q) \in Seq(S)
         /\ IsInjective(Tail(q))
         /\ Range(Tail(q)) = Range(q) \ {Head(q)}
<1> DEFINE r == Tail(q)
<1>1. /\ Len(q) \in Nat /\ Len(q) >= 1
      /\ DOMAIN q = 1 .. Len(q)
      /\ Head(q) = q[1]
      /\ Head(q) \in S
      /\ r \in Seq(S)
      /\ DOMAIN r = 1 .. (Len(q) - 1)
      /\ \A i \in 1 .. (Len(q) - 1) : r[i] = q[i + 1]
  BY HeadTailProperties, LenProperties, EmptySeq
<1> HIDE DEF r
<1>2. Head(q) \in Range(q)
  BY <1>1 DEF Range
<1>3. IsInjective(r)
  <2>1. ASSUME NEW i \in 1 .. (Len(q) - 1), NEW j \in 1 .. (Len(q) - 1), r[i] = r[j]
        PROVE  i = j
    <3>1. i + 1 \in DOMAIN q /\ j + 1 \in DOMAIN q
      BY <1>1
    <3>2. q[i + 1] = q[j + 1]
      BY <1>1, <2>1
    <3>3. i + 1 = j + 1
      BY <3>1, <3>2 DEF IsInjective
    <3> QED BY <3>3
  <2> QED BY <2>1, <1>1 DEF IsInjective
<1>4. ASSUME NEW x \in Range(r) PROVE x \in Range(q) \ {Head(q)}
  <2>1. PICK i \in 1 .. (Len(q) - 1) : r[i] = x
    BY <1>1, <1>4 DEF Range
  <2>2. i + 1 \in DOMAIN q /\ 1 \in DOMAIN q /\ i + 1 # 1 /\ q[i + 1] = x
    BY <2>1, <1>1
  <2>3. q[i + 1] # q[1]
    BY <2>2 DEF IsInjective
  <2> QED BY <2>2, <2>3, <1>1 DEF Range
<1>5. ASSUME NEW x \in Range(q) \ {Head(q)} PROVE x \in Range(r)
  <2>1. PICK i \in 1 .. Len(q) : q[i] = x
    BY <1>1, <1>5 DEF Range
  <2>2. i # 1 /\ i - 1 \in 1 .. (Len(q) - 1) /\ (i - 1) + 1 = i
    BY <2>1, <1>1, <1>5
  <2>3. r[i - 1] = x
    BY <2>1, <2>2, <1>1
  <2>4. QED
    BY <2>2, <2>3, <1>1 DEF Range
<1>6. QED
  BY <1>1, <1>2, <1>3, <1>4, <1>5 DEF r

(* An empty queue holds nothing.                                           *)
LEMMA QueueEmpty == Range(<<>>) = {} /\ IsInjective(<<>>)
BY DEF Range, IsInjective

-----------------------------------------------------------------------------
(* schedule() re-establishes the invariant from what its callers arrange:  *)
(* it finds a live thread, runs it, and frees a dying one.                 *)
LEMMA ScheduleInv ==
  ASSUME NEW st, NEW rl,
         idle_thread \in {NULL, IdlePage}, curr \in Thread,
         SwitchReady(st, rl),
         schedule(st, rl)
  PROVE  SchedInv'
<1> DEFINE next == next_thread_to_run(rl)
<1> USE ThreadAssumption
<1>1. /\ next \in Thread
      /\ st[next] # "FREE"
      /\ rl # <<>> => next \in Range(rl)
      /\ rl = <<>> => next = idle_thread
  <2>1. CASE rl = <<>>
    BY <2>1, QueueEmpty DEF SwitchReady, next_thread_to_run
  <2>2. CASE rl # <<>>
    BY <2>2, QueueTail DEF SwitchReady, next_thread_to_run
  <2>3. QED
    BY <2>1, <2>2
<1>2. /\ ready_list' \in Seq(Thread)
      /\ IsInjective(ready_list')
      /\ Range(ready_list') = Range(rl) \ {next}
  <2>1. CASE rl = <<>>
    BY <2>1, QueueEmpty DEF SwitchReady, schedule
  <2>2. CASE rl # <<>>
    BY <2>2, QueueTail DEF SwitchReady, schedule, next_thread_to_run
  <2>3. QED
    BY <2>1, <2>2
<1>3. /\ curr' = next
      /\ idle_thread' = idle_thread
      /\ thread_ticks' = 0
      /\ panic' = FALSE
      /\ intr_level' \in {"ON", "OFF"}
      /\ halted' \in BOOLEAN
  BY <1>1 DEF schedule, is_thread, SwitchReady
<1>4. /\ status' \in [Thread -> Status]
      /\ status'[next] = "RUNNING"
      /\ \A t \in Thread \ {next} :
            \/ status'[t] = st[t]
            \/ st[t] = "DYING" /\ status'[t] = "FREE"
  BY <1>1 DEF schedule, schedule_tail, SwitchReady, Status
<1> HIDE DEF next
<1>5. TypeOK'
  <2>1. thread_ticks' \in 0 .. (TIME_SLICE - 1)
    BY <1>3
  <2>2. idle_thread' \in {NULL, IdlePage} /\ curr' \in Thread /\ panic' \in BOOLEAN
    BY <1>1, <1>3
  <2>3. QED
    BY <1>2, <1>3, <1>4, <2>1, <2>2, Zenon DEF TypeOK
<1>6. RunQueueExact'
  <2>1. \A t \in Range(ready_list') : status'[t] = "READY"
    <3>1. \A t \in Range(ready_list') : t \in Thread
      BY <1>2, RangeOfSeq
    <3>2. QED
      BY <3>1, <1>2, <1>4 DEF SwitchReady
  <2>2. \A t \in Thread :
          status'[t] = "READY" => t \in Range(ready_list') \/ t = idle_thread'
    BY <1>2, <1>3, <1>4 DEF SwitchReady
  <2>3. \A t \in Thread : status'[t] = "RUNNING" <=> t = curr'
    BY <1>3, <1>4 DEF SwitchReady
  <2>4. QED
    BY <1>2, <2>1, <2>2, <2>3 DEF RunQueueExact
<1>7. IdleNeverQueued'
  BY <1>2, <1>3 DEF IdleNeverQueued, SwitchReady
<1>8. IdleAtHand'
  <2>1. status'[IdlePage] \notin {"FREE", "DYING"}
    BY <1>1, <1>4 DEF SwitchReady
  <2>2. idle_thread = NULL => IdlePage \in Range(ready_list') \/ IdlePage = next
    BY <1>2 DEF SwitchReady
  <2>3. QED
    BY <2>1, <2>2, <1>3 DEF IdleAtHand, Started
<1>9. QED
  BY <1>3, <1>5, <1>6, <1>7, <1>8 DEF SchedInv, NoPanic

(* The current thread can always be given the status BLOCKED or, unless it *)
(* is the idle thread, DYING, and then switched away from.                 *)
LEMMA LeaveCPU ==
  ASSUME SchedInv, Started, NEW s \in {"BLOCKED", "DYING"},
         curr = IdlePage => s = "BLOCKED" /\ idle_thread # NULL
  PROVE  SwitchReady([status EXCEPT ![curr] = s], ready_list)
<1> USE ThreadAssumption DEF SchedInv, TypeOK, RunQueueExact
<1> DEFINE st == [status EXCEPT ![curr] = s]
<1>1. /\ st \in [Thread -> Status]
      /\ \A t \in Thread : st[t] = IF t = curr THEN s ELSE status[t]
      /\ curr \notin Range(ready_list)
      /\ Range(ready_list) \subseteq Thread
  BY RangeOfSeq DEF Status
<1> HIDE DEF st
<1>2. idle_thread = NULL => IdlePage \in Range(ready_list)
  BY DEF IdleAtHand
<1>3. st[IdlePage] \notin {"FREE", "DYING"}
  BY <1>1 DEF IdleAtHand, Started
<1>4. QED
  BY <1>1, <1>2, <1>3 DEF SwitchReady, IdleNeverQueued, st

(* A thread that yields is queued again, unless it is the idle thread.     *)
LEMMA YieldReady ==
  ASSUME SchedInv, Started
  PROVE  SwitchReady([status EXCEPT ![curr] = "READY"], Requeue(ready_list, curr))
<1> USE ThreadAssumption DEF SchedInv, TypeOK, RunQueueExact
<1> DEFINE st == [status EXCEPT ![curr] = "READY"]
           rl == Requeue(ready_list, curr)
<1>1. /\ st \in [Thread -> Status]
      /\ \A t \in Thread : st[t] = IF t = curr THEN "READY" ELSE status[t]
      /\ curr \notin Range(ready_list)
      /\ Range(ready_list) \subseteq Thread
  BY RangeOfSeq DEF Status
<1>2. CASE curr # idle_thread
  <2>1. /\ rl \in Seq(Thread)
        /\ Range(rl) = Range(ready_list) \cup {curr}
        /\ IsInjective(rl)
    BY <1>1, <1>2, QueueAppend DEF Requeue
  <2> HIDE DEF st, rl
  <2>2. idle_thread = NULL => IdlePage \in Range(rl)
    BY <2>1 DEF IdleAtHand
  <2>3. QED
    BY <1>1, <1>2, <2>1, <2>2 DEF SwitchReady, IdleNeverQueued, IdleAtHand, Started, st, rl
<1>3. CASE curr = idle_thread
  <2>1. rl = ready_list
    BY <1>3 DEF Requeue
  <2> HIDE DEF st, rl
  <2>2. idle_thread # NULL
    BY <1>3
  <2>3. QED
    BY <1>1, <1>3, <2>1, <2>2 DEF SwitchReady, IdleNeverQueued, IdleAtHand, Started, st, rl
<1>4. QED
  BY <1>2, <1>3

(* A blocked thread joins the run queue, whoever unblocks it.              *)
LEMMA UnblockInv ==
  ASSUME SchedInv,
         NEW t \in Thread \ {IdlePage},
         status[t] = "BLOCKED",
         status' = [status EXCEPT ![t] = "READY"],
         ready_list' = Append(ready_list, t),
         halted' \in BOOLEAN,
         UNCHANGED <<curr, idle_thread, thread_ticks, intr_level, panic>>
  PROVE  SchedInv'
<1> USE ThreadAssumption
<1>1. /\ status \in [Thread -> Status] /\ ready_list \in Seq(Thread)
      /\ idle_thread \in {NULL, IdlePage}
      /\ t \notin Range(ready_list)
      /\ Range(ready_list) \subseteq Thread
  BY RangeOfSeq DEF SchedInv, TypeOK, RunQueueExact
<1>2. /\ ready_list' \in Seq(Thread)
      /\ Range(ready_list') = Range(ready_list) \cup {t}
      /\ IsInjective(ready_list')
  BY <1>1, QueueAppend DEF SchedInv, RunQueueExact
<1>3. /\ status' \in [Thread -> Status]
      /\ \A u \in Thread : status'[u] = IF u = t THEN "READY" ELSE status[u]
  BY <1>1 DEF Status
<1>4. TypeOK'
  BY <1>2, <1>3, Zenon DEF SchedInv, TypeOK
<1>5. RunQueueExact'
  BY <1>1, <1>2, <1>3 DEF SchedInv, RunQueueExact
<1>6. IdleNeverQueued'
  BY <1>1, <1>2 DEF SchedInv, IdleNeverQueued
<1>7. IdleAtHand'
  BY <1>2, <1>3 DEF SchedInv, IdleAtHand, Started
<1>8. QED
  BY <1>4, <1>5, <1>6, <1>7 DEF SchedInv, NoPanic

(* A tick that does not end the time slice only counts; one that does      *)
(* makes the current thread yield.                                         *)
LEMMA TickInv ==
  ASSUME SchedInv, timer_interrupt
  PROVE  SchedInv'
<1> USE ThreadAssumption
<1>1. CASE Yield(status, ready_list)
  <2>1. idle_thread \in {NULL, IdlePage} /\ curr \in Thread
    BY DEF SchedInv, TypeOK
  <2>2. QED
    BY <1>1, <2>1, YieldReady, ScheduleInv DEF timer_interrupt, Yield
<1>2. CASE /\ thread_ticks + 1 < TIME_SLICE
           /\ thread_ticks' = thread_ticks + 1
           /\ halted' = FALSE
           /\ UNCHANGED <<status, ready_list, curr, idle_thread, intr_level, panic>>
  <2>1. thread_ticks' \in 0 .. (TIME_SLICE - 1)
    BY <1>2 DEF SchedInv, TypeOK
  <2>2. halted' \in BOOLEAN
    BY <1>2
  <2>3. TypeOK'
    BY <1>2, <2>1, <2>2, Zenon DEF SchedInv, TypeOK
  <2>4. QED
    BY <1>2, <2>3
       DEF SchedInv, RunQueueExact, IdleNeverQueued, IdleAtHand, Started, NoPanic
<1>3. QED
  BY <1>1, <1>2 DEF timer_interrupt, ThreadTick

-----------------------------------------------------------------------------
(* thread_init() establishes the invariant.                                *)
LEMMA SchedInit == Init => SchedInv
<1> SUFFICES ASSUME Init PROVE SchedInv
  OBVIOUS
<1> USE ThreadAssumption
<1>1. /\ status \in [Thread -> Status]
      /\ \A t \in Thread : status[t] = "RUNNING" <=> t = initial_thread
      /\ \A t \in Thread : status[t] # "READY"
      /\ status[IdlePage] = "FREE"
  BY DEF Init, Status
<1>2. ready_list \in Seq(Thread) /\ Range(ready_list) = {} /\ IsInjective(ready_list)
  BY QueueEmpty DEF Init
<1>3. thread_ticks \in 0 .. (TIME_SLICE - 1)
  BY DEF Init
<1>4. halted \in BOOLEAN /\ panic \in BOOLEAN
  BY DEF Init
<1>5. TypeOK
  BY <1>1, <1>2, <1>3, <1>4, Zenon DEF Init, TypeOK
<1>6. QED
  BY <1>1, <1>2, <1>5
     DEF Init, SchedInv, NoPanic, RunQueueExact, IdleNeverQueued, IdleAtHand, Started

(* Every step of the scheduler preserves the invariant.                    *)
LEMMA SchedStep == SchedInv /\ [Next]_schedVars => SchedInv'
<1> SUFFICES ASSUME SchedInv, [Next]_schedVars PROVE SchedInv'
  OBVIOUS
<1> USE ThreadAssumption
<1> idle_thread \in {NULL, IdlePage} /\ curr \in Thread
  BY DEF SchedInv, TypeOK
<1>1. CASE thread_start
  <2>1. /\ status \in [Thread -> Status] /\ ready_list \in Seq(Thread)
        /\ IdlePage \notin Range(ready_list)
        /\ IsInjective(ready_list)
        /\ idle_thread = NULL
    BY <1>1 DEF thread_start, SchedInv, TypeOK, RunQueueExact, IdleAtHand, Started
  <2>2. /\ ready_list' \in Seq(Thread)
        /\ Range(ready_list') = Range(ready_list) \cup {IdlePage}
        /\ IsInjective(ready_list')
    BY <1>1, <2>1, QueueAppend DEF thread_start
  <2>3. /\ status' \in [Thread -> Status]
        /\ \A t \in Thread : status'[t] = IF t = IdlePage THEN "READY" ELSE status[t]
    BY <1>1, <2>1 DEF thread_start, Status
  <2>4. /\ UNCHANGED <<curr, idle_thread, thread_ticks, halted, panic>>
        /\ intr_level' = "ON" /\ status[IdlePage] = "FREE"
    BY <1>1 DEF thread_start, Started
  <2>5. TypeOK'
    BY <2>2, <2>3, <2>4, Zenon DEF SchedInv, TypeOK
  <2>6. RunQueueExact'
    BY <2>1, <2>2, <2>3, <2>4, RangeOfSeq DEF SchedInv, RunQueueExact
  <2>7. QED
    BY <2>1, <2>2, <2>3, <2>4, <2>5, <2>6
       DEF SchedInv, IdleNeverQueued, IdleAtHand, Started, NoPanic
<1>2. ASSUME NEW t \in Thread, thread_create(t) PROVE SchedInv'
  <2>1. /\ status \in [Thread -> Status] /\ status[t] = "FREE"
        /\ Started
        /\ t \notin Range(ready_list) /\ t # IdlePage /\ t # curr
        /\ Range(ready_list) \subseteq Thread
    BY <1>2, RangeOfSeq
       DEF thread_create, SchedInv, TypeOK, RunQueueExact, Executing, Started
  <2>2. /\ status' \in [Thread -> Status]
        /\ \A u \in Thread : status'[u] = IF u = t THEN "BLOCKED" ELSE status[u]
    BY <1>2, <2>1 DEF thread_create, Status
  <2>3. UNCHANGED <<ready_list, curr, idle_thread, thread_ticks, intr_level, halted, panic>>
    BY <1>2 DEF thread_create
  <2>4. TypeOK'
    BY <2>2, <2>3, Zenon DEF SchedInv, TypeOK
  <2>5. RunQueueExact'
    BY <2>1, <2>2, <2>3 DEF SchedInv, RunQueueExact
  <2>6. QED
    BY <2>1, <2>2, <2>3, <2>4, <2>5
       DEF SchedInv, IdleNeverQueued, IdleAtHand, Started, NoPanic
<1>3. ASSUME NEW t \in Thread, thread_unblock(t) PROVE SchedInv'
  <2>1. halted' \in BOOLEAN
    BY <1>3 DEF thread_unblock, SchedInv, TypeOK
  <2>2. QED
    BY <1>3, <2>1, UnblockInv DEF thread_unblock
<1>4. ASSUME NEW t \in Thread, intr_unblock(t) PROVE SchedInv'
  <2>1. halted' \in BOOLEAN
    BY <1>4 DEF intr_unblock
  <2>2. QED
    BY <1>4, <2>1, UnblockInv DEF intr_unblock
<1>5. CASE thread_block
  BY <1>5, LeaveCPU, ScheduleInv DEF thread_block
<1>6. CASE thread_yield
  BY <1>6, YieldReady, ScheduleInv DEF thread_yield, Yield, Executing
<1>7. CASE thread_exit
  BY <1>7, LeaveCPU, ScheduleInv DEF thread_exit, Executing
<1>8. CASE intr_set_level
  <2>1. /\ UNCHANGED <<status, ready_list, curr, idle_thread, thread_ticks, halted, panic>>
        /\ intr_level' = "ON"
    BY <1>8 DEF intr_set_level
  <2>2. TypeOK'
    BY <2>1, Zenon DEF SchedInv, TypeOK
  <2>3. QED
    BY <2>1, <2>2
       DEF SchedInv, RunQueueExact, IdleNeverQueued, IdleAtHand, Started, NoPanic
<1>9. CASE idle_start
  <2>1. /\ UNCHANGED <<status, ready_list, curr, thread_ticks, intr_level, halted, panic>>
        /\ idle_thread' = IdlePage /\ curr = IdlePage /\ idle_thread = NULL
        /\ Started
    BY <1>9 DEF idle_start, Executing
  <2>2. TypeOK'
    BY <2>1, Zenon DEF SchedInv, TypeOK
  <2>3. QED
    BY <2>1, <2>2
       DEF SchedInv, RunQueueExact, IdleNeverQueued, IdleAtHand, Started, NoPanic
<1>10. CASE idle_loop
  BY <1>10, LeaveCPU, ScheduleInv DEF idle_loop, Executing
<1>11. CASE timer_interrupt
  BY <1>11, TickInv
<1>12. CASE UNCHANGED schedVars
  BY <1>12 DEF schedVars, SchedInv, TypeOK, RunQueueExact, IdleNeverQueued,
               IdleAtHand, Started, NoPanic
<1>13. CASE intr_return
  <2>1. /\ UNCHANGED <<status, ready_list, curr, idle_thread, thread_ticks, intr_level, panic>>
        /\ halted' \in BOOLEAN
    BY <1>13 DEF intr_return
  <2>2. TypeOK'
    BY <2>1, Zenon DEF SchedInv, TypeOK
  <2>3. QED
    BY <2>1, <2>2
       DEF SchedInv, RunQueueExact, IdleNeverQueued, IdleAtHand, Started, NoPanic
<1>14. QED
  BY <1>1, <1>2, <1>3, <1>4, <1>5, <1>6, <1>7, <1>8, <1>9, <1>10, <1>11, <1>12, <1>13
     DEF Next

(* The inductive invariant holds of every reachable state.                 *)
THEOREM SchedulerInvariant == Spec => []SchedInv
<1>1. QED
  BY SchedInit, SchedStep, PTL DEF Spec

(* schedule() never fails its ASSERT (is_thread (next)), for any number of *)
(* threads and any time slice.                                             *)
THEOREM SchedulerNeverPanics == Spec => []NoPanic
<1>1. SchedInv => NoPanic
  BY DEF SchedInv
<1>2. QED
  BY <1>1, SchedulerInvariant, PTL

(* The run queue holds exactly the ready threads, once each (thread.h,     *)
(* lines 77-82), and one thread runs.                                      *)
THEOREM RunQueueIsExact == Spec => []RunQueueExact
<1>1. SchedInv => RunQueueExact
  BY DEF SchedInv
<1>2. QED
  BY <1>1, SchedulerInvariant, PTL

(* The idle thread stays off the run queue once it has made itself known.  *)
THEOREM IdleStaysOffQueue == Spec => []IdleNeverQueued
<1>1. SchedInv => IdleNeverQueued
  BY DEF SchedInv
<1>2. QED
  BY <1>1, SchedulerInvariant, PTL

(* Type correctness: in particular thread_ticks stays below TIME_SLICE and *)
(* idle_thread is null or the idle thread's page.                          *)
THEOREM SchedulerTypeCorrect == Spec => []TypeOK
<1>1. SchedInv => TypeOK
  BY DEF SchedInv
<1> QED BY SchedulerInvariant, <1>1, PTL
=============================================================================
