# A TLA+ model of the Pintos kernel

This directory specifies the kernel under `src/pintos/src`: Pintos with the alarm
clock that this repository adds to `devices/timer.c`. The modules are translated from
the C code and checked with TLC on small instances; for the scheduler, the page
allocator, the disk driver, the page directories and interrupt dispatch, theorems are
proved with TLAPS for every instance. `PROJECT.json` lists the parts of the system,
the runs, the source lines each definition stands for, the hazards and the theorems.

## The system and its parts

Pintos runs on one processor. The only concurrency is preemption: when interrupts
are on, a timer tick may come between any two instructions and switch threads, and
a device's handler may run. With interrupts off, code is atomic, until it blocks.

| part | code | module |
|---|---|---|
| scheduler, threads, idle thread | `threads/thread.c`, `switch.S`, `interrupt.c` | `Thread`, `ThreadProofs` |
| semaphores, locks, conditions, tids | `threads/synch.c`, `thread.c` | `Synch`, refines `Mutex` and `Thread` |
| interrupt dispatch | `threads/interrupt.c`, `intr-stubs.S` | `Interrupt`, `InterruptProofs` |
| alarm clock | `devices/timer.c`, `list.c` | `Timer`, extends `Thread` |
| short delays, calibration | `devices/timer.c` | `Delay` |
| page allocator | `threads/palloc.c`, `lib/kernel/bitmap.c` | `Palloc`, `PallocProofs` |
| block allocator | `threads/malloc.c` | `Malloc` |
| interrupt queue | `devices/intq.c` | `Intq`, refines `Fifo` |
| serial port, input buffer | `devices/serial.c`, `input.c` | `Serial`, two instances of `Intq` |
| keyboard, display, console | `devices/kbd.c`, `vga.c`, `lib/kernel/console.c`, `debug.c` | `Kbd`, `Vga`, `Console` |
| disk driver | `devices/disk.c` | `Disk`, `DiskProofs` |
| file system: what is where | `filesys/*.c` | `FileSys` |
| file system: the bytes | `filesys/inode.c`, `file.c`, `fsutil.c` | `FileIO` |
| processes, address spaces | `userprog/process.c`, `pagedir.c`, `exception.c` | `Process`, `Segment`, `Pagedir`, `PagedirProofs` |
| lists, hash tables, bitmaps | `lib/kernel/*.c` | `List`, `Hash`, `Bitmap` |
| C library | `lib/stdio.c`, `stdlib.c`, `string.c`, `arithmetic.c` | `Stdio`, `Stdlib`, `Strings`, `Arithmetic` |
| relay program of the host | `utils/squish-pty.c` | `Relay` |

`Synch` shows that the locks implement `Mutex`. The modules above it (`Palloc`,
`Malloc`, `Intq`, `Console`, `Disk`) use a lock as `Mutex` describes it, one atomic
step to acquire and one to release, so that they need not carry the scheduler along.

## How the modules correspond to the code

**Conventions.** A step is what runs with interrupts off, or a stretch with
interrupts on that shares nothing; where preemption can be seen, a function is
several actions and `pc` says where each thread is. `panic` (or the label
`"panic"`) means that an `ASSERT` or a `PANIC` has been reached, after which
nothing happens. Variables and actions have the names of the code. Locals that no
code reads again are reset when a function returns, which keeps states few. The
comments mark the operators that are mutants: plausible bugs, used to show that a
property can fail.

**Thread.** `status`, `ready_list`, `curr`, `idle_thread`, `thread_ticks` and the
interrupt flag. `schedule` is the whole of `schedule()` with `schedule_tail()`: the
choice of the next thread, the assertions, and the freeing of a dying thread's
page. A thread that was switched to resumes with interrupts off and turns them on
in a step of its own. `halted` is the idle thread's `hlt`. Thread pages are a fixed
set; creation takes a free one.

**Synch.** Semaphores, locks and conditions at the grain of preemption. `Sema` is the
named semaphores, one in each lock, and one on the stack of each thread for
`cond_wait()`. `lock_acquire()` and `lock_release()` have the windows in which the
semaphore is taken and `holder` is not set. `allocate_tid()` loads and stores
`next_tid` in two steps. `thread_create()` and `thread_exit()` reuse pages, so that a
reference to a thread that is gone would show.

**Interrupt.** Handlers are registered, external interrupts come from two PICs with
fully nested priorities and in-service bits, internal ones nest on a thread's stack;
a gate is of the kind that turns interrupts off or of the kind that does not.
`intr_handler()` is cut where the handler runs and where it yields. An interrupt
without a handler that is not one of the spurious ones stops the kernel (`unexpected`).

**Timer.** `timer_sleep()` takes four steps (read the clock, find a place in
`block_list`, link in, disable interrupts and block) because it calls
`list_insert_ordered()` with interrupts on. The search is one step, and so is the
link: a tick inside either sees one of the states the model has, or breaks the list
as `Corrupt` describes. After `Corrupt`, where a list element is on two lists at
once or was linked next to one that had left, the pointers no longer describe a
sequence, and the model stops. Tick counts are relative to `ticks`, so that time
needs no bound; `Floor` stops counting ticks that are past due. A member of `Build`
is the set of outcomes that `t == idle_thread` at `timer.c:186`, where `t` has not been
initialised, can have in one build of the kernel: `{TRUE}` is what gcc makes of it with
the flags of `Make.config`, and `{TRUE, FALSE}` a build that reads what happens to be
there; the run `timer` has both. (`thread.h:137` defines `idle_thread` as a static
variable of every file, so that the comparison in `timer.c` is never with the idle
thread.)

**Delay.** The arithmetic of `timer_calibrate()` and `real_time_sleep()` with smaller
numbers: `room` is how many loops really fit in a tick.

**Palloc.** One pool. `palloc_get_multiple()` scans and sets the bitmap bit by bit with
the lock held; `palloc_free_multiple()` checks and clears bit by bit with no lock.
`blocks`, a history variable, holds the groups that callers own: a caller frees a
group once, and only one it was given. `snapshot` holds what was free when a scan
began.

**Malloc.** Arenas in pages of a few bytes, descriptors, free lists, big blocks over
several pages. A call is a step, except that `realloc()` may be interrupted between
its allocation and its release. An allocation fails when no pages are left. Sizes are
numbers modulo `SIZE_MAX + 1`, and `live` keeps what the caller asked for beside the
block it got: for `calloc()` the true product, not the one that wrapped around.

**Intq.** The ring buffer, `not_full` and `not_empty`, the lock, threads and handlers
at both ends. A thread runs in one step from where it was resumed to where it
blocks or returns.

**Serial.** Two queues, `tx` for bytes to send and `rx` for keys to read, the interrupt
enable register, and the UART: `dr` and `thre` are its status bits, `thri` its pending
transmit interrupt, which is raised when THR becomes empty or the interrupt is
enabled while it is, and taken back when IIR is read or THR written. The handler's
and `serial_flush()`'s loops take one step per turn and hold `cpu`. The model assumes
that the interrupt controller sees a request as long as the UART makes it. One thread
reads and one writes: the console lock admits one writer, and `intq.h` says that one
thread may wait at a time.

**Console, Vga, Kbd.** Threads print, nested calls included, while a handler prints and
a thread or the handler panics, and panics again while it prints its message (`level`
in `debug.c`); a character goes to the serial port and to the screen in two steps. The display has control characters, wrapping, tabs and scrolling. The
keyboard's handler turns scancodes, with prefixes, releases, shift keys and Caps Lock,
into characters; what was typed is kept beside it, from the legends of the keys.

**Disk.** `disk_read()` and `disk_write()`, the handler, and a disk that follows the PIO
protocol the driver expects: it answers without errors and within the driver's time
limits. `SpuriousInterrupt` is an interrupt the disk did not mean.

**FileSys.** The disk is a function from sectors to their contents: an inode, a part of
the free map, the root directory, or data. A step ends at each sector write, so that
a crash can come between any two. The free map's file has two sectors. Each
`malloc()` may fail, and `bitmap_write()` with it after its first sector. `acked`
records the files whose creation succeeded, `lost` the sectors that a failed
creation or a crash left marked. One call runs at a time: the code has no locks, and
its callers have to see to it.

**FileIO.** `inode_read_at()` and `inode_write_at()` over sectors of two bytes, with and
without the bounce buffer, file positions, and the scratch disk of `fsutil_put()` and
`fsutil_get()`.

**Process, Segment, Pagedir.** `Process` follows every frame from `process_execute()` to
the death of the thread, through failing allocations, reads and mappings, with a
switch of threads, which writes CR3, anywhere. `Segment` is the arithmetic of one
program header, with addresses that wrap around. `Pagedir` has the processor's TLB
beside the page tables; a user access fills it and sets the bits.

**List, Hash, Bitmap, Stdio, Stdlib, Strings, Arithmetic.** Functions are operators on
the memory they change, and each is compared with a definition in terms of
sequences, sets or numbers: a list's pointers with the sequence it should be, a
packed bitmap with a set of numbers, division by half-words with `\div`. What `printf()`
writes is a record of its parts (padding, sign, prefix, zeros, digits, padding), a digit
is its value, and a string its length. The functions of `Strings` give the memory after
the call and the value returned.

**Relay.** `relay()` one system call a step, against a simulator that writes, closes its
terminal and dies between any two. The terminal is Linux's.

## The runs

`devices`, `kernel` and `units` hold several modules that share nothing: `unit`, chosen in
the initial state, says which of them a behaviour exercises, and the variables of the
others stay as they are. Each property speaks of its own unit.

| run | instance | states | shows |
|---|---|---|---|
| `synch_lock` | 4 threads, `tid_lock`, a client lock, a condition | 202,284 | no assertion fails, the run queue is exact, a list element is on one list, nothing names a freed page, tids differ (`ThreadsSound`); no wakeup and no signal is lost; locks refine `Mutex`; every step is a step of `Thread` |
| `synch_sema` | 4 threads, a semaphore that a handler ups | 10,708 | a semaphore does not stay positive with threads waiting; every ready thread runs |
| `timer` | 3 threads, 2 priorities, durations 0, 1 and 3 | 36,252 | until the lists break, no sleeper falls off `block_list`, and waking keeps the run queue exact; a sleeper of the highest priority wakes on its tick, not before or after, and runs again |
| `devices` | 1 reader, 1 writer, 3 slots each; 2 threads, 2 sectors, 2 values, 1 spurious interrupt | 34,310 | the interrupt enable register agrees with both queues whenever interrupts are on; bytes go out, reception resumes after a full buffer, writers return; disk completions match commands, reads return what was last sent, a call that has the channel returns, and the channel is not left unused while a call waits for it |
| `filesys` | 8 sectors, 3 names, 2 files, 1 failing allocation, 1 crash or shutdown | 661,179 | a sector has one owner in memory, and on disk after every write; no sector is lost but by the ways named in `SpaceAccounted`; acknowledged files survive; open and deny counts are exact |
| `kernel` | 3 threads and 3 pages in groups of up to 2; blocks of 1 to 33 bytes and their products, in sizes below 36; 2 directories; 2 readers, 2 writers and handlers on 3 slots | 64,320 | no page has two owners, no free group is overlooked, a free or an allocation that has the lock ends; blocks do not overlap, are as large as asked for unless the size wraps around, and empty arenas are given back; the TLB agrees with the page tables; the queue refines `Fifo` up to the first failed assertion |
| `units` | sixteen modules, see `MCUnits` | 596,131 | containers, algorithms, text and file bytes agree with their reference definitions; frames have one owner and CR3 a live directory; segments are loaded as their header says; terminal output does not mix, and keys arrive as typed; interrupts are acknowledged before anything else runs; the relay loses nothing while it runs |

Five runs find that the code does not do what a comment or a test says.

- `timer_negative`: `timer_sleep()` of a negative count can stop the kernel. A tick
  between `list_insert_ordered()` (`timer.c:122`) and `intr_disable()` finds the
  running thread due, and `thread_unblock()` asserts that it is blocked. The test
  `alarm-negative.c` asks only that the kernel not crash. The same window lets a
  thread be preempted onto the run queue while it is on `block_list`, which is one
  of the ways to `Corrupt`.
- `timer_early`: a low-priority sleeper right behind a high-priority one has its end
  replaced by the other's end plus 10 (`timer.c:190-191`), also when its own end is
  later, and so wakes before its time.
- `fs_low_memory`: `dir_add()` looks for a free slot until `inode_read_at()` reads less
  than an entry, which a comment says happens only at the end of the file; it also
  happens when there is no memory for the bounce buffer (`inode.c:232-236`), and then the
  new entry overwrites one in use. The run `filesys` leaves this failure out
  (`ShortReads`), and every other failing allocation in.
- `relay_output`: the terminal reports EIO before SIGCHLD has been handled; `relay()`
  returns at once (`squish-pty.c:225`), with output in its buffer. `RelayFifo` shows that
  all is relayed when the signal comes first.
- `calibrate`: `timer_calibrate()` tries each lower bit with the highest bit alone and
  keeps all that fit (`timer.c:75`); where 12 loops fit in a tick it settles on 14.
  `DelayExact`, a part of `AlgorithmsExact`, bounds the error: less than twice.

**Bounds.** Threads, sectors, pages and buffer slots are few but enough for what the
properties are about: one thread that acts, one that waits and one that interferes;
a queue that wraps around, fills and empties; a group longer than one page and a
pool in which two groups do not fit; a file that ends inside a sector; a disk that
fills up; a page table shared by two pages; words of 4 bits, where a product wraps
around. `MaxValue` and `MaxTid` bound a semaphore's value and the tids handed out,
`MaxSpurious` spurious interrupts, `MaxFails` failing allocations, `MaxCrashes` crashes
and shutdowns, `MaxDepth` and `MaxOutput` nested calls and their output, `MaxPanics` panics inside a
panic, all in guards. The
deadlock check is off in the runs of `Timer`, where a broken kernel stops, and in
`kernel`, where a failed assertion of `Intq` does; everywhere else a deadlock would be an
error. `filesys` uses symmetry among names and among files, `units` among threads that
start alike; neither checks liveness. A larger instance of `Timer`, with four threads,
passed too (702,894 states, 13 minutes).

## Fairness

- *Timer ticks*: strong. The timer chip never stops, and the interrupt controller
  keeps its request pending while interrupts are off, so a tick that is possible again
  and again is taken. The same holds of the UART's and the disk's interrupts.
- *A thread that was switched to* turns interrupts on, and the idle thread goes on to
  `hlt`: weak; no other thread can run before they do.
- *Threads inside a function* of a module that abstracts from the scheduler (`Palloc`,
  `Disk`, `Serial`) go on: weak, or strong where a step of another can disable them for
  a while. `ReadyThreadRuns` is what justifies it.
- *A lock that stays free* is taken by a thread that waits for it: weak, in `Palloc` and
  `Disk`. `lock_release()` wakes a waiter (no wakeup is lost, `synch_lock`) and ready
  threads run. More is not assumed: `lock_release()` does not yield, so that a thread
  that never waited, or the one that released, may take the lock before the woken one,
  which then waits at the end of the list, and nothing in the code bounds how often.
  `DiskReturns` and `GetReturns` therefore promise that a call ends once it has the
  lock, and that a call that waits for ever is overtaken for ever by calls that end.
- *Devices* finish what they were told to do: weak.

Nothing is assumed of clients: no thread has to call anything, give up the CPU or
release a lock.

## What is proved

`ThreadProofs`, for any set of threads and any time slice, from `ThreadAssumption` (the
initial thread and the idle thread's page are two different pages):

- `SchedulerInvariant`: `SchedInv` is inductive. `RunQueueExact` is not inductive by
  itself: `schedule()` with an empty run queue needs a thread to fall back on, so the
  invariant adds that the idle thread is off the queue once it is known, that before
  that it is queued or running (`IdleAtHand`), and that it never exits.
- `SchedulerTypeCorrect`, the type invariant.
- `SchedulerNeverPanics`: `schedule()` always has a live thread to switch to. The run
  `synch_lock` checks `NoPanic` for the scheduler together with the primitives.
- `RunQueueIsExact`, `IdleStaysOffQueue`.

`PallocProofs`, for any number of threads and pages, from `PallocAssumption`:

- `PoolInvariant`: `PoolInv` is inductive. It adds to the properties what a thread in
  the middle of a scan knows: the bits it has looked at are clear and stay clear,
  because only the lock's holder sets bits, and the claims of other threads are
  disjoint from them.
- `PoolTypeCorrect`, `PagesOwnedOnce`, `BitmapIsExact`, and `FreeNeverPanics`, the assertion of
  `palloc_free_multiple()`.
- `PoolFailsOnlyWhenFull` (`FailsOnlyWhenFull`), from `PoolInv` and `ScanComplete`: a scan
  has passed over no group that was free when it began.

`DiskProofs`, for any threads, sectors, values and number of spurious interrupts, if
there is a sector and a value and `NULL` is no thread (`DiskConstants`):

- `CompletionsMatch` (`NoStaleCompletion`) and `DiskReadsLatest` (`ReadsLatest`), both from
  `DiskInv`. The count that is inductive (`CountOK`) is over the semaphore, the request
  that is up and the one the disk will raise when it has finished: they are no more than
  the spurious interrupts so far and the completion a thread waits for. `PhaseOK` says
  what the disk may be doing at each step of the thread that has the channel; after a
  wait that a spurious interrupt ended it may still be storing, and `DataOK` says that
  only that sector may differ from what was sent to it.
- `NoDiskPanic`: the panics of `disk_read()` and `disk_write()` are not reached by a disk
  that follows the protocol.

`PagedirProofs`, for any directories, pages and frames, with no assumption:

- `TLBStaysCoherent` (`TLBCoherent`). The invariant `PagedirInv` adds that a cached entry
  has its accessed bit set and that a present entry is in a page table: an access that
  hits the TLB sets no bit, and goes unrecorded otherwise.

`InterruptProofs`, for any threads, vectors and nesting depth, if external vectors are in
32..47 and internal ones are not, as the two registration functions assert
(`InterruptConstants`):

- `DispatchSound` (`InterruptsSound`). The invariant `InterruptInv` adds that the running
  thread has interrupts off as long as an external interrupt's frame is on its stack,
  the return to the stub included, and that what is in service is the interrupt being
  handled with the cascade line, so that one end of interrupt to each PIC clears it.

These three models are instantiated, not extended, by the modules of their runs, so
what they need of the constants is a hypothesis of their theorems.

The lemmas have one step per action. Only model-checked: everything else, in
particular every liveness property, which is out of the prover's reach, what recursive
definitions compute (`List`, `Stdlib`, `Stdio` and their like), which would need induction
over data, and the refinements of `Mutex`, `Fifo` and `Thread`.

## Where comments and code differ

Met while modelling, besides the runs above; the models follow the code.

- `intq.c:93`: with two readers, one that waited for the queue's lock goes on to `wait()`
  without looking again, and the assertion that the queue is empty can fail.
- `filesys_create()` gives back the inode's sector but not the file's data when
  `dir_add()` fails (`filesys.c:55-56`); `SpaceAccounted` counts them as lost.
- `free-map.c:22-25` says that false is returned if all sectors were available; it is
  the other way round. `free-map.c:62` speaks of writing the free map to disk, where
  `free_map_close()` only closes it.
- `inode.c:160` says that closing an inode writes it to disk; nothing is written.
  `directory.c:181-183` says that `dir_remove()` fails only for want of the name; it also
  does for want of memory.
- `malloc.c:109`: the number of pages is computed in `size_t`, so that a size within a
  page of its limit wraps around, and where the sum is still a page or more `malloc()`
  returns a block that is too small. `calloc()` (`malloc.c:164`) refuses a product that
  is smaller than a factor, which not every product that wrapped around is, although
  `malloc.c:157` promises a block for A times B bytes. `BlocksSound` says which sizes are
  served in full.
- `string.c:22` says that `memmove()` returns DST; when DST is below SRC it returns the
  end of the copy (`string.c:45`, which returns the pointer it has advanced).
- `string.c:346`: `strlcat()` leaves DST as it is, without a null character, when there is
  none in its first SIZE bytes.
- `stdio.c`: `printf()` with a precision stops adding zeros at the end of its buffer of 64
  bytes, and with the flag `'` counts commas as digits; `IntegerExact` names both.
- `tests/threads/alarm-zero.c:1` says that `timer_sleep(0)` returns immediately; the
  thread blocks until the next tick (`timer.c:122-125`).
- `fsutil_ls()` never closes its directory.
- `bitmap.c:317` says that a count of zero returns 0; it returns the start.
- `umod64()` and `smod64()` return 32 bits (`arithmetic.c:129-154`), so that a remainder
  that needs more is cut off; `QuotientExact` says from which divisors on.
- `timer.c:72` announces eight more bits and tries nine.
- `printf()` with a negative width argument and the flag `0` pads on both sides.
- `disk.c:489`: `wait_until_idle()` waits 1000 times 10 microseconds where its comment
  says 10 seconds, and then goes on.
- `squish-pty.c:219`: the buffer is moved down when its size is `sizeof buf`; with an
  offset that is not zero it never is.

## What is not modelled

- *Boot* (`init.c`, `loader.S`, `start.S`), *segment tables* (`gdt.c`, `tss.c`): straight-line
  set-up before a second thread exists, and encodings that nothing reads again.
- *The disk's time-outs and its probing at boot*: what a disk does when it is programmed
  while busy is not in the code.
- *Concurrent calls of the file system*: it has no locks. Two processes that load at
  once do call it at once, and so may the main thread, as `process_wait()` returns at
  once; `open_inodes` and the free map are then changed by unsynchronised code at the
  grain of instructions. `FileSys` shows what the file system promises to callers that
  exclude each other, which this tree leaves to the system calls it does not have yet.
- *System calls and `process_wait()`*, which are stubs; *user programs* and their library,
  which trap into them.
- *`random.c`*, whose promise is statistical; statistics, dumps and backtraces, which
  only print.
- *`squish-unix.c`*, the same relay over a socket, and *`setitimer-helper.c`*, one system call.
