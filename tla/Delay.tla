------------------------------- MODULE Delay --------------------------------
(***************************************************************************)
(* Short delays (devices/timer.c): timer_calibrate() finds how many turns  *)
(* of busy_wait() a timer tick has room for, and real_time_sleep() turns a *)
(* time into ticks to sleep or turns to wait.  The numbers are scaled      *)
(* down: Thousand stands for 1000, and loops_per_tick has W bits.          *)
(***************************************************************************)
EXTENDS Integers

CONSTANTS
  W, START,       \* START is the first guess, 1 << 10 in the code
  REFINE,         \* high_bit >> REFINE ends the refinement, 10 in the code
  Thousand, TIMER_FREQ,
  Num             \* times asked for

VARIABLES
  room,           \* turns that really fit in a tick
  loops_per_tick,
  asked           \* the arguments of real_time_sleep()

vars == <<room, loops_per_tick, asked>>

too_many_loops(loops) == loops > room

(* The largest power of two; 0 is the ASSERT that fails when it overflows. *)
high_bit ==
  LET f[l \in {START * 2 ^ j : j \in 0..W}] ==
        IF l = 2 ^ W THEN 0
        ELSE IF too_many_loops((2 * l) % 2 ^ W) THEN l ELSE f[2 * l]
  IN  f[START]

(* The lower bits, from the highest, each tried with high_bit alone.       *)
Refined ==
  LET last == high_bit \div 2 ^ REFINE
      g[b \in 0..2 ^ W, l \in 0..2 ^ W] ==
        IF b = last THEN l
        ELSE g[b \div 2, IF too_many_loops(high_bit + b) THEN l ELSE l + b]
  IN  g[high_bit \div 2, high_bit]

(* C division truncates towards zero.                                      *)
Div(a, b) == IF a >= 0 THEN a \div b ELSE -((-a) \div b)

ticks(num, denom) == Div(num * TIMER_FREQ, denom)

busy_wait(num, denom) ==
  Div(Div(loops_per_tick * num, Thousand) * TIMER_FREQ, denom \div Thousand)

real_time_sleep(num, denom) ==
  IF ticks(num, denom) > 0 THEN [sleep |-> ticks(num, denom), loops |-> 0]
  ELSE [sleep |-> 0, loops |-> busy_wait(num, denom)]

(* timer_msleep(), timer_usleep() and timer_nsleep().                      *)
Denom == {Thousand, Thousand ^ 2, Thousand ^ 3}

-----------------------------------------------------------------------------
Idle == [num |-> 0, denom |-> Thousand]

Init == room \in START..2 ^ (W - 1) - 1 /\ loops_per_tick = 0 /\ asked = Idle

timer_calibrate ==
  /\ loops_per_tick = 0
  /\ loops_per_tick' = IF high_bit = 0 THEN 0 ELSE Refined
  /\ UNCHANGED <<room, asked>>

Call ==
  /\ loops_per_tick # 0 /\ asked = Idle
  /\ asked' \in [num : Num \ {0}, denom : Denom]
  /\ UNCHANGED <<room, loops_per_tick>>

Return == asked # Idle /\ asked' = Idle /\ UNCHANGED <<room, loops_per_tick>>

Next == timer_calibrate \/ Call \/ Return

Spec == Init /\ [][Next]_vars

-----------------------------------------------------------------------------
(* Calibration ends, with less than twice the turns that fit in a tick.  A *)
(* time of a tick or more is slept in ticks, rounded down; a shorter one   *)
(* is waited for in turns, at most the turns it takes and short of them by *)
(* the rounding of the scaled-down division alone; a negative one is not   *)
(* waited for.                                                             *)
DelayExact ==
  LET r == real_time_sleep(asked.num, asked.denom)
      time == asked.num * TIMER_FREQ
      turns == loops_per_tick * time
  IN  /\ loops_per_tick \in {0} \union START..2 * room - 1
      /\ time >= asked.denom =>
           /\ r.loops = 0
           /\ r.sleep * asked.denom <= time /\ time < (r.sleep + 1) * asked.denom
      /\ time < asked.denom => r.sleep = 0
      /\ time < asked.denom /\ asked.num >= 0 =>
           /\ r.loops * asked.denom <= turns
           /\ turns < r.loops * asked.denom + TIMER_FREQ * Thousand + asked.denom
      /\ asked.num < 0 => r.loops <= 0

(* timer.c says of loops_per_tick that it is the "number of loops per      *)
(* timer tick": they fit in one.                                           *)
CalibrationFits == loops_per_tick <= room

=============================================================================
