------------------------------ MODULE Console -------------------------------
(***************************************************************************)
(* Output to the console (lib/kernel/console.c) from threads, from an      *)
(* interrupt handler, and from debug_panic() (lib/kernel/debug.c).         *)
(*                                                                         *)
(* vprintf(), puts(), putbuf() and putchar() are the same to this module:  *)
(* take the console, write some characters, release it.  A call made while *)
(* the same thread is in one already is what printf() in an exception      *)
(* handler makes.  The console lock is the mutex that Synch shows struct   *)
(* lock to be.  serial and screen are the writers of the characters on the *)
(* two devices, since the console was last free; what a thread's outermost *)
(* call writes and what a nested one does is marked by its depth.          *)
(***************************************************************************)
EXTENDS Integers, Sequences, SequencesExt

CONSTANTS Thread, Intr, NONE,
          MaxLength,  \* characters of a call
          MaxDepth,   \* calls of one thread within another
          MaxOutput,  \* characters after which no call comes in between
          MaxPanics   \* panics of which each comes in the course of the last

VARIABLES
  holder,              \* console_lock.holder
  use_console_lock,
  console_lock_depth,
  frames,              \* the calls in progress of each thread and of the handler
  panicker,            \* who called debug_panic()
  level,               \* debug_panic()'s counter of its calls
  serial, screen

vars == <<holder, use_console_lock, console_lock_depth, frames, panicker, level, serial, screen>>

Writer == Thread \union {Intr}

Init ==
  /\ holder = NONE /\ use_console_lock = TRUE /\ console_lock_depth = 0
  /\ frames = [w \in Writer |-> << >>]
  /\ panicker = NONE /\ level = 0 /\ serial = << >> /\ screen = << >>

(* A handler runs to its end before a thread does, and debug_panic() turns *)
(* interrupts off for good.                                                *)
Runs(w) ==
  /\ w # Intr => frames[Intr] = << >>
  /\ panicker \in {NONE, w}

Top(w) == Last(frames[w])
At(w, pc) == Runs(w) /\ frames[w] # << >> /\ Top(w).pc = pc
Goto(w, pc, left) ==
  frames' = [frames EXCEPT ![w] = Append(Front(@), [pc |-> pc, left |-> left])]

(* intr_context () is frames[Intr] # << >>, which is w = Intr for a writer *)
(* that runs.                                                              *)
Locking(w) == w # Intr /\ use_console_lock

(* An exception in the middle of a call nests a second one; the handler of *)
(* an external interrupt nests none.                                       *)
call(w, n) ==
  /\ Runs(w) /\ panicker = NONE
  /\ w = Intr \/ frames[w] # << >> => Len(serial) + n <= MaxOutput
  /\ \/ frames[w] = << >>
     \/ w # Intr /\ At(w, "serial") /\ Len(frames[w]) < MaxDepth
  /\ frames' = [frames EXCEPT ![w] = Append(@, [pc |-> "acquire", left |-> n])]
  /\ UNCHANGED <<holder, use_console_lock, console_lock_depth, panicker, level, serial, screen>>

(* Mutant: the lock is taken as if it were not recursive, by whoever asks. *)
acquire_console_anyway(w) ==
  /\ At(w, "acquire")
  /\ Goto(w, "serial", Top(w).left)
  /\ IF Locking(w) /\ holder = w THEN console_lock_depth' = console_lock_depth + 1
     ELSE UNCHANGED console_lock_depth
  /\ IF Locking(w) THEN holder' = w ELSE UNCHANGED holder
  /\ UNCHANGED <<use_console_lock, panicker, level, serial, screen>>

acquire_console(w) ==
  /\ At(w, "acquire")
  /\ Goto(w, "serial", Top(w).left)
  /\ \/ ~Locking(w) /\ UNCHANGED <<holder, console_lock_depth>>
     \/ /\ Locking(w) /\ holder = w
        /\ console_lock_depth' = console_lock_depth + 1 /\ UNCHANGED holder
     \/ /\ Locking(w) /\ holder = NONE
        /\ holder' = w /\ UNCHANGED console_lock_depth
  /\ UNCHANGED <<use_console_lock, panicker, level, serial, screen>>

console_locked_by_current_thread(w) == Locking(w) => holder = w

Mark(w) == [by |-> w, depth |-> Len(frames[w])]

(* The two halves of putchar_have_lock(), each with interrupts off.        *)
serial_putc(w) ==
  /\ At(w, "serial")
  /\ \/ /\ Top(w).left > 0
        /\ serial' = Append(serial, Mark(w)) /\ Goto(w, "vga", Top(w).left)
     \/ /\ Top(w).left = 0
        /\ Goto(w, "release", 0) /\ UNCHANGED serial
  /\ UNCHANGED <<holder, use_console_lock, console_lock_depth, panicker, level, screen>>

vga_putc(w) ==
  /\ At(w, "vga")
  /\ screen' = Append(screen, Mark(w))
  /\ Goto(w, "serial", Top(w).left - 1)
  /\ UNCHANGED <<holder, use_console_lock, console_lock_depth, panicker, level, serial>>

(* With the last call to hold the console, what it wrote is forgotten.     *)
release_console(w) ==
  /\ At(w, "release")
  /\ frames' = [frames EXCEPT ![w] = Front(@)]
  /\ \/ ~Locking(w) /\ UNCHANGED <<holder, console_lock_depth>>
     \/ /\ Locking(w) /\ console_lock_depth > 0
        /\ console_lock_depth' = console_lock_depth - 1 /\ UNCHANGED holder
     \/ /\ Locking(w) /\ console_lock_depth = 0
        /\ holder' = NONE /\ UNCHANGED console_lock_depth
  /\ IF \E t \in Thread : frames'[t] # << >> /\ frames'[t][1].pc # "acquire"
     THEN UNCHANGED <<serial, screen>> ELSE serial' = << >> /\ screen' = << >>
  /\ UNCHANGED <<use_console_lock, panicker, level>>

(* debug_panic(), from anywhere, its own messages included:                *)
(* console_panic(), and a message for the first and the second panic.      *)
(* What the panicking thread was doing is never resumed.                   *)
debug_panic(w) ==
  /\ Runs(w) /\ level < MaxPanics
  /\ w = Intr \/ panicker = w => frames[w] # << >>
  /\ use_console_lock' = FALSE /\ panicker' = w /\ level' = level + 1
  /\ frames' = [frames EXCEPT ![w] =
                  IF level' <= 2 THEN <<[pc |-> "acquire", left |-> 1]>> ELSE << >>]
  /\ UNCHANGED <<holder, console_lock_depth, serial, screen>>

(* The loop that debug_panic() ends in.                                    *)
halted == panicker # NONE /\ frames[panicker] = << >> /\ UNCHANGED vars

Next ==
  \/ \E w \in Writer :
       \/ acquire_console(w) \/ serial_putc(w) \/ vga_putc(w) \/ release_console(w)
       \/ \E n \in 1..MaxLength : call(w, n)
       \/ debug_panic(w)
  \/ halted

Spec == Init /\ [][Next]_vars

-----------------------------------------------------------------------------
Inside(w) == SelectSeq(frames[w], LAMBDA f : f.pc # "acquire")
ByThreads(s) == SelectSeq(s, LAMBDA c : c.by \in Thread)

(* Until a panic the console lock is held by exactly the thread that has a *)
(* call past acquire_console(), with a depth of one less than its calls;   *)
(* and that thread never waits for the lock, nested calls included: a      *)
(* thread that does wait for it waits for one that can go on.              *)
LockExact ==
  panicker = NONE =>
    /\ \A t \in Thread : (holder = t) <=> (Inside(t) # << >>)
    /\ console_lock_depth = IF holder = NONE THEN 0 ELSE Len(Inside(holder)) - 1
    /\ holder # NONE /\ At(holder, "acquire") => ENABLED acquire_console(holder)

(* The output of two threads' calls does not mix before a panic; that of   *)
(* an interrupt handler may come in between.  Both devices get the         *)
(* threads' characters in the same order, the screen at most one behind,   *)
(* though an interrupt may come between serial_putc() and vga_putc().  A   *)
(* panic is printed whoever holds the lock, and when its message panics    *)
(* over and over the kernel ends up silent in debug_panic()'s loop.        *)
ConsoleSound ==
  /\ LockExact
  /\ \A w \in Writer :
       frames[w] # << >> /\ Top(w).pc \in {"serial", "vga"} => console_locked_by_current_thread(w)
  /\ panicker = NONE =>
       /\ \A c, e \in {ByThreads(serial)[j] : j \in 1..Len(ByThreads(serial))} : c.by = e.by
       /\ LET s == ByThreads(serial)
              v == ByThreads(screen)
          IN  v = s \/ (s # << >> /\ v = Front(s))
  /\ panicker # NONE => ~use_console_lock
  /\ level > 2 => frames[panicker] = << >>

=============================================================================
