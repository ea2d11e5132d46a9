------------------------------ MODULE MCUnits -------------------------------
(***************************************************************************)
(* Instances, for TLC, of the modules whose promises need no fairness: the *)
(* kernel's lists, hash tables and bitmaps, the C library, the bytes of    *)
(* files, processes and the segments they load, the console, the screen    *)
(* and the keyboard, interrupt dispatch, short delays, and the host's      *)
(* relay program.  A behaviour exercises one unit; the variables of the    *)
(* others are 0.                                                           *)
(***************************************************************************)
EXTENDS Integers, Sequences, TLC

CONSTANTS initial, p1, p2, code_page, stack, t1, t2, intr, none

VARIABLES
  unit,
  heap, val, seq,                                  \* List
  buckets, elem_cnt, iter, present,                \* Hash
  bits, file, ones, saved,                         \* Bitmap
  n, d,                                            \* Arithmetic
  array, str,                                      \* Stdlib
  call,                                            \* Stdio
  mem, save_ptr, delimiters, tokens, text,         \* Strings
  disk, pos, scratch, put, get, content,           \* FileIO
  free, curr, cr3, pagedir, pt, pte, pc, locals, panic,  \* Process
  phdr, flen,                                      \* Segment
  holder, use_console_lock, console_lock_depth, frames, panicker, panic_level, serial,
  screen,                                          \* Console
  fb, cx, cy, inited, cp, lines,                   \* Vga
  shift_state, caps_lock, buffer, held, expected,  \* Kbd
  idt, running, level, resume, nested, in_external_intr, yield_on_return, in_service,
  unexpected, i_panic,                                         \* Interrupt
  stdin, stdin_open, buf, ofs, active, read_fds, write_fds, r_pc, status, stdout, to_child,
  pending, written, closed, dead,                  \* Relay
  room, loops_per_tick, asked                      \* Delay

(* Distinct values, pairs of equal ones, and a mixture.                    *)
Values == {<<1, 1, 1, 1>>, <<1, 1, 2, 2>>, <<1, 2, 3, 4>>, <<1, 2, 2, 3>>}
lists == INSTANCE List WITH Elem <- 1..4, ListId <- {1, 2}, Val <- Values

(* Elements 3 and 4 are equal; 1 and 2 part at two buckets, 2 and 4 later. *)
table == INSTANCE Hash WITH
  Elem <- 1..5, Key <- <<1, 2, 3, 3, 4>>, HashOf <- <<0, 1, 2, 5>>,
  MIN_BUCKETS <- 1, BEST_ELEMS_PER_BUCKET <- 1, i <- iter

(* The last element is in part beyond the end.                             *)
bitmap == INSTANCE Bitmap WITH ELEM_BITS <- 2, bit_cnt <- 3

arithmetic == INSTANCE Arithmetic WITH W <- 4

stdlib == INSTANCE Stdlib WITH
  Value <- 1..4, MaxCnt <- 5, INT_MAX <- 127,
  Char <- {32, 43, 45, 48, 49, 50, 56, 120}, MaxLen <- 4, s <- str

FlagSets ==
  {{}, {"-"}, {"+"}, {" ", "0"}, {"#"}, {"0"}, {"'"}, {"-", "0"}, {"+", " "}, {"#", "'", "0"}}
stdio == INSTANCE Stdio WITH
  Flags <- FlagSets, Width <- {-7, 0, 3, 9}, Precision <- {-2, -1, 0, 2, 11, 13},
  TypeBits <- [CHAR |-> 8, INT |-> 16, LONGLONG |-> 20],
  Arg <- {0, 7, 200, 1234, 40000, 700000},
  String <- {0, 1, 4}, BUF <- 12, BufSize <- {0, 1, 4, 20}

string == INSTANCE Strings WITH Size <- 6, Char <- {1, 2}

(* One file with a whole and a partial sector, one with a partial sector.  *)
fileio == INSTANCE FileIO WITH
  SectorSize <- 2, Byte <- {0, 1}, MaxSize <- 3, ScratchSize <- 4,
  Inode <- [a |-> [start |-> 0, length |-> 3], b |-> [start |-> 2, length |-> 1]]

(* One process fits in the kernel pool with two pages to spare for another *)
(* one's first steps.  The second program's segment is where the stack     *)
(* goes.                                                                   *)
process == INSTANCE Process WITH
  Thread <- {initial, p1, p2}, main <- initial, KFrame <- 0..4, UFrame <- 20..21,
  UPage <- {code_page, stack}, TableOf <- [v \in {code_page, stack} |-> 0],
  Program <- {<<code_page>>, <<stack>>},
  l <- locals

(* Three pages of user space below one of kernel space, and files that end *)
(* in a page and past one.                                                 *)
segment == INSTANCE Segment WITH W <- 4, PGSIZE <- 4, PHYS_BASE <- 12, FileLength <- {3, 9}

console == INSTANCE Console WITH
  Thread <- {t1, t2}, Intr <- intr, NONE <- none, MaxLength <- 2, MaxDepth <- 2, MaxOutput <- 3,
  MaxPanics <- 3, level <- panic_level

display == INSTANCE Vga WITH COL_CNT <- 4, ROW_CNT <- 3, TAB <- 2, Char <- {"a"}

(* A letter, a digit, a bracket, the space bar, Caps Lock, the shift keys, *)
(* and the shift that some keys send with a prefix.                        *)
keyboard == INSTANCE Kbd WITH
  Key <- {30, 3, 26, 57, 58, 42, 54, 56, 57400, 29, 57373, 57386}, BufSize <- 1

(* The timer, a disk on the slave PIC, page faults and system calls.       *)
dispatch == INSTANCE Interrupt WITH
  Thread <- {t1, t2}, External <- {32, 46}, MaxDepth <- 1,
  Internal <- [v \in {14, 48} |-> IF v = 14 THEN "INTR_OFF" ELSE "INTR_ON"],
  curr <- running, saved <- resume, stack <- nested, panic <- i_panic

squish == INSTANCE Relay WITH Input <- 2, MaxOutput <- 4, BUFSIZ <- 3, pc <- r_pc

(* Times below, at and above a tick in each unit.                          *)
delay == INSTANCE Delay WITH
  W <- 7, START <- 8, REFINE <- 3, Thousand <- 10, TIMER_FREQ <- 3,
  Num <- {-4, 0, 1, 2, 3, 5, 30, 33, 34, 300, 333, 334, 700}

(* Threads but for the first are alike.                                    *)
Alike == Permutations({p1, p2}) \union Permutations({t1, t2})

-----------------------------------------------------------------------------
Init ==
  /\ unit \in {"list", "hash", "bitmap", "arithmetic", "stdlib", "stdio", "string", "fileio",
              "process", "segment", "console", "vga", "kbd", "interrupt", "relay", "delay"}
  /\ IF unit = "list" THEN lists!Init ELSE heap = 0 /\ val = 0 /\ seq = 0
  /\ IF unit = "hash" THEN table!Init
     ELSE buckets = 0 /\ elem_cnt = 0 /\ iter = 0 /\ present = 0
  /\ IF unit = "bitmap" THEN bitmap!Init
     ELSE bits = 0 /\ file = 0 /\ ones = 0 /\ saved = 0
  /\ IF unit = "arithmetic" THEN arithmetic!Init ELSE n = 0 /\ d = 0
  /\ IF unit = "stdlib" THEN stdlib!Init ELSE array = 0 /\ str = 0
  /\ IF unit = "stdio" THEN stdio!Init ELSE call = 0
  /\ IF unit = "string" THEN string!Init
     ELSE mem = 0 /\ save_ptr = 0 /\ delimiters = 0 /\ tokens = 0 /\ text = 0
  /\ IF unit = "fileio" THEN fileio!Init
     ELSE disk = 0 /\ pos = 0 /\ scratch = 0 /\ put = 0 /\ get = 0 /\ content = 0
  /\ IF unit = "process" THEN process!Init
     ELSE /\ free = 0 /\ curr = 0 /\ cr3 = 0 /\ pagedir = 0 /\ pt = 0 /\ pte = 0 /\ pc = 0
          /\ locals = 0 /\ panic = 0
  /\ IF unit = "segment" THEN segment!Init ELSE phdr = 0 /\ flen = 0
  /\ IF unit = "console" THEN console!Init
     ELSE /\ holder = 0 /\ use_console_lock = 0 /\ console_lock_depth = 0 /\ frames = 0
          /\ panicker = 0 /\ panic_level = 0 /\ serial = 0 /\ screen = 0
  /\ IF unit = "vga" THEN display!Init
     ELSE fb = 0 /\ cx = 0 /\ cy = 0 /\ inited = 0 /\ cp = 0 /\ lines = 0
  /\ IF unit = "kbd" THEN keyboard!Init
     ELSE shift_state = 0 /\ caps_lock = 0 /\ buffer = 0 /\ held = 0 /\ expected = 0
  /\ IF unit = "interrupt" THEN dispatch!Init
     ELSE /\ idt = 0 /\ running = 0 /\ level = 0 /\ resume = 0 /\ nested = 0 /\ in_external_intr = 0
          /\ yield_on_return = 0 /\ in_service = 0 /\ unexpected = 0 /\ i_panic = 0
  /\ IF unit = "relay" THEN squish!Init
     ELSE /\ stdin = 0 /\ stdin_open = 0 /\ buf = 0 /\ ofs = 0 /\ active = 0 /\ read_fds = 0 /\ write_fds = 0
          /\ r_pc = 0 /\ status = 0 /\ stdout = 0 /\ to_child = 0 /\ pending = 0 /\ written = 0 /\ closed = 0
          /\ dead = 0
  /\ IF unit = "delay" THEN delay!Init
     ELSE room = 0 /\ loops_per_tick = 0 /\ asked = 0

Only(u) ==
  /\ unit = u /\ unit' = u
  /\ IF u = "list" THEN TRUE ELSE UNCHANGED <<heap, val, seq>>
  /\ IF u = "hash" THEN TRUE ELSE UNCHANGED <<buckets, elem_cnt, iter, present>>
  /\ IF u = "bitmap" THEN TRUE ELSE UNCHANGED <<bits, file, ones, saved>>
  /\ IF u = "arithmetic" THEN TRUE ELSE UNCHANGED <<n, d>>
  /\ IF u = "stdlib" THEN TRUE ELSE UNCHANGED <<array, str>>
  /\ IF u = "stdio" THEN TRUE ELSE UNCHANGED call
  /\ IF u = "string" THEN TRUE ELSE UNCHANGED <<mem, save_ptr, delimiters, tokens, text>>
  /\ IF u = "fileio" THEN TRUE ELSE UNCHANGED <<disk, pos, scratch, put, get, content>>
  /\ IF u = "process" THEN TRUE
     ELSE UNCHANGED <<free, curr, cr3, pagedir, pt, pte, pc, locals, panic>>
  /\ IF u = "segment" THEN TRUE ELSE UNCHANGED <<phdr, flen>>
  /\ IF u = "console" THEN TRUE
     ELSE UNCHANGED <<holder, use_console_lock, console_lock_depth, frames, panicker, panic_level,
                      serial, screen>>
  /\ IF u = "vga" THEN TRUE
     ELSE UNCHANGED <<fb, cx, cy, inited, cp, lines>>
  /\ IF u = "kbd" THEN TRUE
     ELSE UNCHANGED <<shift_state, caps_lock, buffer, held, expected>>
  /\ IF u = "interrupt" THEN TRUE
     ELSE UNCHANGED <<idt, running, level, resume, nested, in_external_intr, yield_on_return,
                      in_service, unexpected, i_panic>>
  /\ IF u = "relay" THEN TRUE
     ELSE UNCHANGED <<stdin, stdin_open, buf, ofs, active, read_fds, write_fds, r_pc, status,
                      stdout, to_child, pending, written, closed, dead>>
  /\ IF u = "delay" THEN TRUE
     ELSE UNCHANGED <<room, loops_per_tick, asked>>

Next ==
  \/ Only("list") /\ lists!Next
  \/ Only("hash") /\ table!Next
  \/ Only("bitmap") /\ bitmap!Next
  \/ Only("arithmetic") /\ arithmetic!Next
  \/ Only("stdlib") /\ stdlib!Next
  \/ Only("stdio") /\ stdio!Next
  \/ Only("string") /\ string!Next
  \/ Only("fileio") /\ fileio!Next
  \/ Only("process") /\ process!Next
  \/ Only("segment") /\ segment!Next
  \/ Only("console") /\ console!Next
  \/ Only("vga") /\ display!Next
  \/ Only("kbd") /\ keyboard!Next
  \/ Only("interrupt") /\ dispatch!Next
  \/ Only("relay") /\ squish!Next
  \/ Only("delay") /\ delay!Next

vars ==
  <<unit, heap, val, seq, buckets, elem_cnt, iter, present, bits, file, ones, saved, n, d, array,
    str, call, mem, save_ptr, delimiters, tokens, text, disk, pos, scratch, put, get, content,
    free, curr, cr3, pagedir, pt, pte, pc, locals, panic, phdr, flen,
    holder, use_console_lock, console_lock_depth, frames, panicker, panic_level, serial, screen,
    fb, cx, cy, inited, cp, lines, shift_state, caps_lock, buffer, held, expected, idt, running,
    level, resume, nested, in_external_intr, yield_on_return, in_service, unexpected, i_panic, stdin,
    stdin_open, buf, ofs, active, read_fds, write_fds, r_pc, status, stdout, to_child,
    pending, written, closed, dead, room, loops_per_tick, asked>>

Spec == Init /\ [][Next]_vars

-----------------------------------------------------------------------------
(* The pointers of list.c form the lists the calls so far should have      *)
(* made, forwards and backwards, with nothing lost when a list is spliced, *)
(* sorted in place, reversed or made unique.  hash.c keeps every element,  *)
(* in the bucket its hash value selects, with or without the memory to     *)
(* rehash, and an iteration returns each once.  bitmap.c agrees with a set *)
(* of bit numbers, at element boundaries and beyond the last bit, and      *)
(* after it is written and read back.                                      *)
ContainersExact ==
  /\ unit = "list" => lists!ListsExact
  /\ unit = "hash" => table!TableExact
  /\ unit = "bitmap" => bitmap!BitsExact

(* Long division over half-words in arithmetic.c, the heap sort, binary    *)
(* search and atoi() of stdlib.c return what the mathematics says, and the *)
(* delays of timer.c are as long as asked for, up to rounding.             *)
AlgorithmsExact ==
  /\ unit = "arithmetic" => arithmetic!QuotientExact
  /\ unit = "stdlib" => stdlib!SortExact /\ stdlib!AtoiExact
  /\ unit = "delay" => delay!DelayExact

(* printf() writes an integer so that it can be read back, in a field of   *)
(* the width and with the digits asked for, up to the cases IntegerExact   *)
(* names, without overrunning format_integer()'s buffer; vsnprintf() stays *)
(* inside the caller's buffer and terminates it (Stdio); string.c moves    *)
(* between overlapping blocks, copies within bounds, searches, and cuts a  *)
(* string into tokens, up to the cases StringsExact names (Strings).       *)
TextExact ==
  /\ unit = "stdio" => stdio!IntegerExact /\ stdio!BufferBounded
  /\ unit = "string" => string!StringsExact /\ string!TokensExact

(* A file holds what was written to it, byte for byte, wherever reads and  *)
(* writes start and end in a sector, and whichever allocation of a bounce  *)
(* buffer fails.                                                           *)
BytesExact == unit = "fileio" => fileio!BytesExact

(* fsutil_get() appends the file to the scratch disk, header and sectors,  *)
(* the last one padded with zeros, over what was there.                    *)
GetExact == [][unit = "fileio" => fileio!GetStep]_vars

(* CR3 never refers to a page directory that was freed (Process).          *)
ActiveDirLive == unit = "process" => process!ActiveDirLive

(* Every frame has one owner, on every path of load() and process_exit()   *)
(* (Process).                                                              *)
FramesOwned == unit = "process" => process!FramesOwned

(* A program header is refused or loaded as it says (Segment).             *)
SegmentExact == unit = "segment" => segment!SegmentExact

(* Threads' output to the console does not mix, and a panic is printed     *)
(* whoever holds the console (Console); the screen shows the last lines of *)
(* the text (Vga); and the reader gets the keys that were typed, under the *)
(* shift keys that were held (Kbd).                                        *)
TerminalSound ==
  /\ unit = "console" => console!ConsoleSound
  /\ unit = "vga" => display!DisplayExact
  /\ unit = "kbd" => keyboard!KeysExact

(* External interrupts are handled one at a time, and acknowledged before  *)
(* anything else runs (Interrupt).                                         *)
InterruptsSound == unit = "interrupt" => dispatch!InterruptsSound

(* The relay program loses, repeats and reorders nothing while it runs,    *)
(* and relays everything when it learns that the child died (Relay).       *)
RelayFifo == unit = "relay" => squish!RelayFifo
=============================================================================
