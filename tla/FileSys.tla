------------------------------ MODULE FileSys ------------------------------
(***************************************************************************)
(* The file system of filesys/: free map, inodes, the root directory, open *)
(* files, formatting and mounting.                                         *)
(*                                                                         *)
(* A step ends at each write of a disk sector, so that a crash can come    *)
(* between any two of them.  One call runs at a time: the file system has  *)
(* no locks.  What the bytes of a file are is the subject of FileIO; here  *)
(* a sector holds an inode, a part of the free map, the root directory, or *)
(* Zeros (which also stands for file data).                                *)
(*                                                                         *)
(* Every malloc() may fail, MaxFails times in all.  A call that fails      *)
(* before it has changed anything is a stuttering step.                    *)
(***************************************************************************)
EXTENDS Integers, Sequences, FiniteSets, FiniteSetsExt, Functions, TLC

CONSTANTS
  NSectors,    \* the sectors of the disk
  MapSplit,    \* the first sector whose bit is in the free map's last sector
  Name,        \* the names that files may have
  BadName,     \* names that are empty or too long
  Size,        \* bound: lengths of new files, in sectors
  DirSize,     \* the entries of the root directory (16 in the code)
  File,        \* bound: the struct files that may be open
  MaxFails,    \* bound: failing allocations
  MaxCrashes,  \* bound: crashes and shutdowns
  ShortReads   \* whether a directory scan may run out of memory

ASSUME FileSysAssumption ==
  /\ NSectors \in Nat /\ MapSplit \in 1 .. NSectors - 1
  /\ Name \cap BadName = {} /\ Size \subseteq Nat /\ DirSize \in Nat
  /\ MaxFails \in Nat /\ MaxCrashes \in Nat /\ ShortReads \in BOOLEAN

VARIABLES
  disk,           \* the content of each sector
  free_map,       \* the sectors whose bit is set in the map in memory
  free_map_file,  \* the inode of the open free map file, 0 before it is open
  inodes,         \* open_inodes: the struct inodes in memory
  files,          \* the struct files in memory
  pc,             \* the step at hand
  call,           \* the call at hand, with its locals
  formatted,      \* history: the last do_format() came to its end
  acked,          \* history: the size of each file that was created
  lost,           \* history: used sectors that no file owns any more
  fails, crashes  \* counters for the bounds

vars == <<disk, free_map, free_map_file, inodes, files, pc, call, formatted,
          acked, lost, fails, crashes>>

FREE_MAP_SECTOR == 0
ROOT_DIR_SECTOR == 1
Sector == 0 .. NSectors - 1
Extent(start, cnt) == start .. start + cnt - 1

(* The contents of a sector.                                               *)
Zeros == [t |-> "zeros"]
InodeBlock(start, cnt) == [t |-> "inode", start |-> start, cnt |-> cnt]
MapBlock(used) == [t |-> "map", used |-> used]
DirBlock(e) == [t |-> "dir", e |-> e]

FreeSlot == [in_use |-> FALSE]
Slot(n, s) == [in_use |-> TRUE, name |-> n, inode_sector |-> s]

(* The free map file takes two sectors: a whole one, and one that it fills *)
(* in part.                                                                *)
Piece(k) == {s \in Sector : (s < MapSplit) <=> (k = 0)}
MapSectors == 2

MapOn(b) == IF b.t = "map" THEN b.used ELSE {}
EntriesOn(b) == IF b.t = "dir" THEN b.e ELSE [k \in 1 .. DirSize |-> FreeSlot]

NoCall == [fn |-> "none"]
NoMemory == fails < MaxFails /\ fails' = fails + 1

Init ==
  /\ disk = [s \in Sector |-> Zeros]
  /\ free_map = {} /\ free_map_file = 0
  /\ inodes = << >> /\ files = << >>
  /\ pc = "down" /\ call = NoCall
  /\ formatted = FALSE
  /\ acked = << >> /\ lost = {}
  /\ fails = 0 /\ crashes = 0

-----------------------------------------------------------------------------
(* Tables of open inodes.                                                  *)

HasOpen(t, s) == \E x \in DOMAIN t : t[x].sector = s
OpenId(t, s) == CHOOSE x \in DOMAIN t : t[x].sector = s
FreshId(t) == Min((1 .. Cardinality(DOMAIN t) + 1) \ DOMAIN t)

inode_open(t, d, s) ==
  IF HasOpen(t, s)
  THEN [t EXCEPT ![OpenId(t, s)].open_cnt = @ + 1]
  ELSE t @@ (FreshId(t) :> [sector |-> s, open_cnt |-> 1, removed |-> FALSE,
                            deny |-> 0, start |-> d[s].start, cnt |-> d[s].cnt])

(* inode_close() without the release of the blocks, for which see          *)
(* CloseThen.                                                              *)
inode_close(t, x) ==
  IF t[x].open_cnt = 1 THEN Restrict(t, DOMAIN t \ {x})
  ELSE [t EXCEPT ![x].open_cnt = @ - 1]

(* Mutant: a removed inode's blocks are released while it is open.         *)
ToRelease_open(t, x) ==
  IF t[x].removed
  THEN <<[at |-> t[x].sector, cnt |-> 1], [at |-> t[x].start, cnt |-> t[x].cnt]>>
  ELSE << >>

ToRelease(t, x) ==
  IF t[x].open_cnt = 1 /\ t[x].removed
  THEN <<[at |-> t[x].sector, cnt |-> 1], [at |-> t[x].start, cnt |-> t[x].cnt]>>
  ELSE << >>

(* Closes inode x of table t in the call fn, and goes on to release what   *)
(* has to be released.                                                     *)
CloseThen(fn, t, x) ==
  /\ inodes' = inode_close(t, x)
  /\ call' = [fn |-> fn, why |-> "release", exts |-> ToRelease(t, x), i |-> 0]
  /\ pc' = "release"

(* The machine stops: memory is gone, the disk is what it was.             *)
Halt ==
  /\ free_map' = {} /\ free_map_file' = 0
  /\ inodes' = << >> /\ files' = << >>
  /\ pc' = "down" /\ call' = NoCall

-----------------------------------------------------------------------------
(* Booting: filesys_init(), and do_format() as far as the creation of the  *)
(* free map.  Formatting that was cut short is done again.                 *)
filesys_init(format) ==
  /\ pc = "down"
  /\ format \/ formatted
  /\ free_map' = {FREE_MAP_SECTOR, ROOT_DIR_SECTOR}
  /\ IF format
     THEN /\ call' = [fn |-> "free_map_create", isec |-> FREE_MAP_SECTOR,
                      cnt |-> MapSectors]
          /\ pc' = "inode_create"
          /\ formatted' = FALSE /\ acked' = << >>
     ELSE /\ pc' = "mount"
          /\ UNCHANGED <<call, formatted, acked>>
  /\ UNCHANGED <<disk, free_map_file, inodes, files, lost, fails, crashes>>

(* The file that an entry of the root directory on disk names.             *)
Root == EntriesOn(disk[disk[ROOT_DIR_SECTOR].start])
InUse == {k \in DOMAIN Root : Root[k].in_use}
DataOf(s) == Extent(disk[s].start, disk[s].cnt)
SectorsOf(s) == {s} \cup DataOf(s)

MapOnDisk ==
  UNION {MapOn(disk[disk[FREE_MAP_SECTOR].start + k]) : k \in 0 .. MapSectors - 1}

System == SectorsOf(FREE_MAP_SECTOR) \cup SectorsOf(ROOT_DIR_SECTOR)

free_map_open ==
  /\ pc = "mount"
  /\ inodes' = inode_open(inodes, disk, FREE_MAP_SECTOR)
  /\ free_map_file' = OpenId(inodes', FREE_MAP_SECTOR)
  /\ free_map' = MapOnDisk
  /\ lost' = MapOnDisk \ (System \cup UNION {SectorsOf(Root[k].inode_sector) : k \in InUse})
  /\ formatted' = TRUE
  /\ pc' = "idle" /\ call' = NoCall
  /\ UNCHANGED <<disk, files, acked, fails, crashes>>

(* The free map cannot be opened or read: PANIC.                           *)
free_map_open_failed ==
  /\ pc = "mount" /\ NoMemory
  /\ Halt
  /\ UNCHANGED <<disk, formatted, acked, lost, crashes>>

(* do_format() goes on to the root directory.  free_map_create() opens the *)
(* free map file and writes the map to it first.                           *)
MapCreated ==
  /\ inodes' = inode_open(inodes, disk', FREE_MAP_SECTOR)
  /\ free_map_file' = OpenId(inodes', FREE_MAP_SECTOR)
  /\ call' = [call EXCEPT !.why = "format", !.i = 0]
  /\ pc' = "map_write"

-----------------------------------------------------------------------------
(* free_map_allocate(), bitmap_write() and free_map_release().             *)

(* inode_create() or an allocation for it fails, and leaves map in memory: *)
(* filesys_create() backs out, do_format() panics.                         *)
Failed(map) ==
  IF call.fn = "create"
  THEN /\ pc' = "undo" /\ free_map' = map
       /\ UNCHANGED <<free_map_file, inodes, files, call>>
  ELSE Halt

(* The first group of cnt clear bits; NSectors where there is none.        *)
bitmap_scan(map, cnt) ==
  LET found == {s \in 0 .. NSectors - cnt : Extent(s, cnt) \cap map = {}}
  IN  IF found = {} THEN NSectors ELSE Min(found)

(* Mutant: the new map is not written.                                     *)
free_map_allocate_unwritten ==
  /\ pc = "allocate"
  /\ LET cnt == IF call.why = "inode" THEN 1 ELSE call.cnt
         at  == bitmap_scan(free_map, cnt)
     IN  IF at = NSectors
         THEN Failed(free_map)
         ELSE /\ free_map' = free_map \cup Extent(at, cnt)
              /\ call' = [call EXCEPT !.at = at, !.i = 0,
                            !.isec = IF call.why = "inode" THEN at ELSE @]
              /\ pc' = CASE call.why = "inode" -> "inode_create"
                        [] call.fn = "dir_create" -> "map_write"
                        [] OTHER -> "disk_inode"
              /\ UNCHANGED <<free_map_file, inodes, files>>
  /\ UNCHANGED <<disk, formatted, acked, lost, fails, crashes>>

(* free_map_allocate() up to bitmap_write(), which is left out as long as  *)
(* free_map_file is null.                                                  *)
free_map_allocate ==
  /\ pc = "allocate"
  /\ LET cnt == IF call.why = "inode" THEN 1 ELSE call.cnt
         at  == bitmap_scan(free_map, cnt)
     IN  IF at = NSectors
         THEN Failed(free_map)
         ELSE /\ free_map' = free_map \cup Extent(at, cnt)
              /\ call' = [call EXCEPT !.at = at, !.i = 0]
              /\ pc' = IF free_map_file = 0 THEN "disk_inode" ELSE "map_write"
              /\ UNCHANGED <<free_map_file, inodes, files>>
  /\ UNCHANGED <<disk, formatted, acked, lost, fails, crashes>>

WritePiece ==
  disk' = [disk EXCEPT ![inodes[free_map_file].start + call.i] =
             MapBlock(free_map \cap Piece(call.i))]

(* inode_write_at() of the free map writes a whole sector directly ...     *)
map_write_first ==
  /\ pc = "map_write" /\ call.i < MapSectors - 1
  /\ WritePiece
  /\ call' = [call EXCEPT !.i = @ + 1]
  /\ UNCHANGED <<free_map, free_map_file, inodes, files, pc, formatted, acked,
                 lost, fails, crashes>>

(* ... and the last one through a bounce buffer.                           *)
map_write_last ==
  /\ pc = "map_write" /\ call.i = MapSectors - 1
  /\ WritePiece
  /\ CASE call.why = "inode" ->
            call' = [call EXCEPT !.isec = call.at] /\ pc' = "inode_create"
       [] call.why = "data" -> pc' = "disk_inode" /\ UNCHANGED call
       [] call.why = "release" -> pc' = "release" /\ UNCHANGED call
       [] call.why = "format" ->
            /\ call' = [fn |-> "dir_create", isec |-> ROOT_DIR_SECTOR, cnt |-> 1]
            /\ pc' = "inode_create"
  /\ UNCHANGED <<free_map, free_map_file, inodes, files, formatted, acked, lost,
                 fails, crashes>>

(* Mutant: the bits stay set in memory.                                    *)
map_write_failed_keeps ==
  /\ pc = "map_write" /\ call.i = MapSectors - 1
  /\ NoMemory
  /\ CASE call.why \in {"inode", "data"} -> Failed(free_map)
       [] call.why = "release" ->
            pc' = "release" /\ UNCHANGED <<free_map, free_map_file, inodes, files, call>>
       [] call.why = "format" -> Halt
  /\ UNCHANGED <<disk, formatted, acked, lost, crashes>>

(* The bounce buffer cannot be had: free_map_allocate() takes the bits     *)
(* back, free_map_release() does not look.                                 *)
map_write_failed ==
  /\ pc = "map_write" /\ call.i = MapSectors - 1
  /\ NoMemory
  /\ CASE call.why \in {"inode", "data"} ->
            LET cnt == IF call.why = "inode" THEN 1 ELSE call.cnt
            IN  Failed(free_map \ Extent(call.at, cnt))
       [] call.why = "release" ->
            pc' = "release" /\ UNCHANGED <<free_map, free_map_file, inodes, files, call>>
       [] call.why = "format" -> Halt
  /\ UNCHANGED <<disk, formatted, acked, lost, crashes>>

(* free_map_release() of the next group; when there is none left, the call *)
(* returns, closing the root directory if it had opened it.                *)
free_map_release ==
  /\ pc = "release"
  /\ IF call.exts = << >>
     THEN /\ inodes' = IF call.fn = "close" THEN inodes
                       ELSE inode_close(inodes, OpenId(inodes, ROOT_DIR_SECTOR))
          /\ pc' = "idle" /\ call' = NoCall
          /\ UNCHANGED free_map
     ELSE LET e == Head(call.exts)
          IN  IF Extent(e.at, e.cnt) \subseteq free_map
              THEN /\ free_map' = free_map \ Extent(e.at, e.cnt)
                   /\ call' = [call EXCEPT !.exts = Tail(@), !.i = 0]
                   /\ pc' = "map_write"
                   /\ UNCHANGED inodes
              ELSE pc' = "panic" /\ UNCHANGED <<inodes, free_map, call>>
  /\ UNCHANGED <<disk, free_map_file, files, formatted, acked, lost, fails, crashes>>

-----------------------------------------------------------------------------
(* inode_create().                                                         *)

calloc_disk_inode ==
  /\ pc = "inode_create"
  /\ \/ /\ call' = [fn |-> call.fn, why |-> "data", isec |-> call.isec,
                    cnt |-> call.cnt, at |-> 0, i |-> 0]
                   @@ (IF call.fn = "create" THEN [name |-> call.name] ELSE << >>)
        /\ pc' = "allocate"
        /\ UNCHANGED <<free_map, free_map_file, inodes, files, fails>>
     \/ NoMemory /\ Failed(free_map)
  /\ UNCHANGED <<disk, formatted, acked, lost, crashes>>

write_disk_inode ==
  /\ pc = "disk_inode"
  /\ disk' = [disk EXCEPT ![call.isec] = InodeBlock(call.at, call.cnt)]
  /\ call' = [call EXCEPT !.i = 0]
  /\ pc' = "zeros"
  /\ UNCHANGED <<free_map, free_map_file, inodes, files, formatted, acked, lost,
                 fails, crashes>>

(* The sectors are zeroed one by one; what follows depends on the caller.  *)
write_zeros ==
  /\ pc = "zeros"
  /\ IF call.i < call.cnt
     THEN /\ disk' = [disk EXCEPT ![call.at + call.i] = Zeros]
          /\ call' = [call EXCEPT !.i = @ + 1]
          /\ UNCHANGED <<pc, free_map_file, inodes>>
     ELSE /\ UNCHANGED disk
          /\ CASE call.fn = "free_map_create" -> MapCreated
               [] call.fn = "dir_create" ->  \* free_map_close() ends do_format()
                    /\ inodes' = inode_close(inodes, free_map_file)
                    /\ pc' = "mount" /\ UNCHANGED <<call, free_map_file>>
               [] call.fn = "create" ->
                    pc' = "dir_add" /\ UNCHANGED <<call, free_map_file, inodes>>
  /\ UNCHANGED <<free_map, files, formatted, acked, lost, fails, crashes>>

-----------------------------------------------------------------------------
(* Directories.                                                            *)

(* The entries a scan sees: it stops at the first read that comes short.   *)
Readable(failing) ==
  IF failing THEN 0 .. DirSize - 1 ELSE {DirSize}

(* The places among the first m entries where NAME is.                     *)
lookup(n, m) == {k \in 1 .. m : Root[k].in_use /\ Root[k].name = n}

(* Where dir_add() puts an entry after a scan of m entries.                *)
FreeSlotAfter(m) ==
  LET free == {k \in 1 .. m : ~Root[k].in_use}
  IN  IF free = {} THEN m + 1 ELSE Min(free)

RootWith(k, e) ==
  disk' = [disk EXCEPT ![disk[ROOT_DIR_SECTOR].start] = DirBlock([Root EXCEPT ![k] = e])]

(* Mutant: a name that is in use is added again.                           *)
dir_add_failed_free(m1, m2) ==
  call.name \in BadName \/ FreeSlotAfter(m2) > DirSize

(* dir_add() fails: the name is bad or taken, the directory is full, or    *)
(* there is no bounce buffer for the write.                                *)
dir_add_failed(m1, m2) ==
  \/ call.name \in BadName
  \/ lookup(call.name, m1) # {}
  \/ FreeSlotAfter(m2) > DirSize

(* dir_add() within filesys_create().  m1 and m2 are the entries that its  *)
(* two scans get to see.                                                   *)
dir_add ==
  /\ pc = "dir_add"
  /\ \E short1, short2, nobounce \in BOOLEAN :
       /\ (short1 \/ short2) => ShortReads
       /\ IF short1 \/ short2 \/ nobounce THEN NoMemory ELSE UNCHANGED fails
       /\ \E m1 \in Readable(short1), m2 \in Readable(short2) :
            IF dir_add_failed(m1, m2) \/ nobounce
            THEN /\ pc' = "undo"
                 /\ lost' = lost \cup Extent(call.at, call.cnt)
                 /\ UNCHANGED <<disk, inodes, call, acked>>
            ELSE /\ RootWith(FreeSlotAfter(m2), Slot(call.name, call.isec))
                 /\ acked' = (call.name :> call.cnt) @@ acked
                 /\ pc' = "release"
                 /\ call' = [fn |-> "create", why |-> "release", exts |-> << >>, i |-> 0]
                 /\ UNCHANGED <<inodes, lost>>
  /\ UNCHANGED <<free_map, free_map_file, files, formatted, crashes>>

-----------------------------------------------------------------------------
(* The calls of filesys.h and file.h.                                      *)

filesys_create(n, cnt) ==
  /\ pc = "idle"
  /\ inodes' = inode_open(inodes, disk, ROOT_DIR_SECTOR)
  /\ call' = [fn |-> "create", why |-> "inode", name |-> n, isec |-> 0,
              cnt |-> cnt, at |-> 0, i |-> 0]
  /\ pc' = "allocate"
  /\ UNCHANGED <<disk, free_map, free_map_file, files, formatted, acked, lost,
                 fails, crashes>>

(* filesys_create() has failed: the inode's sector goes back, the data's   *)
(* sectors do not.                                                         *)
create_undo ==
  /\ pc = "undo"
  /\ call' = [fn |-> "create", why |-> "release", i |-> 0,
              exts |-> IF call.isec = 0 THEN << >>
                       ELSE <<[at |-> call.isec, cnt |-> 1]>>]
  /\ pc' = "release"
  /\ UNCHANGED <<disk, free_map, free_map_file, inodes, files, formatted, acked,
                 lost, fails, crashes>>

(* filesys_open(): the root directory is opened, searched and closed.      *)
filesys_open(n, f) ==
  /\ pc = "idle" /\ f \notin DOMAIN files
  /\ \E k \in lookup(n, DirSize) :
       LET s  == Root[k].inode_sector
           t1 == inode_open(inodes, disk, ROOT_DIR_SECTOR)
           t2 == inode_open(t1, disk, s)
       IN  /\ inodes' = inode_close(t2, OpenId(t2, ROOT_DIR_SECTOR))
           /\ files' = files @@ (f :> [inode |-> OpenId(t2, s), deny_write |-> FALSE])
  /\ UNCHANGED <<disk, free_map, free_map_file, pc, call, formatted, acked, lost,
                 fails, crashes>>

file_reopen(f, g) ==
  /\ pc = "idle" /\ f \in DOMAIN files /\ g \notin DOMAIN files
  /\ inodes' = [inodes EXCEPT ![files[f].inode].open_cnt = @ + 1]
  /\ files' = files @@ (g :> [inode |-> files[f].inode, deny_write |-> FALSE])
  /\ UNCHANGED <<disk, free_map, free_map_file, pc, call, formatted, acked, lost,
                 fails, crashes>>

(* filesys_remove(): the entry is erased, the inode is marked, and closed. *)
filesys_remove(n) ==
  /\ pc = "idle"
  /\ \E k \in lookup(n, DirSize) :
       LET s  == Root[k].inode_sector
           t1 == inode_open(inodes, disk, ROOT_DIR_SECTOR)
           t2 == inode_open(t1, disk, s)
           x  == OpenId(t2, s)
       IN  /\ RootWith(k, FreeSlot)
           /\ CloseThen("remove", [t2 EXCEPT ![x].removed = TRUE], x)
  /\ acked' = Restrict(acked, DOMAIN acked \ {n})
  /\ UNCHANGED <<free_map, free_map_file, files, formatted, lost, fails, crashes>>

file_deny_write(f) ==
  /\ pc = "idle" /\ f \in DOMAIN files /\ ~files[f].deny_write
  /\ files' = [files EXCEPT ![f].deny_write = TRUE]
  /\ LET x == files[f].inode
     IN  /\ inodes' = [inodes EXCEPT ![x].deny = @ + 1]
         /\ pc' = IF inodes[x].deny < inodes[x].open_cnt THEN pc ELSE "panic"
  /\ UNCHANGED <<disk, free_map, free_map_file, call, formatted, acked, lost,
                 fails, crashes>>

(* inode_allow_write(), for a file that has denied writes.                 *)
inode_allow_write(t, f) ==
  IF files[f].deny_write THEN [t EXCEPT ![files[f].inode].deny = @ - 1] ELSE t

AllowPanics(f) ==
  LET ino == inodes[files[f].inode]
  IN  files[f].deny_write /\ ~(ino.deny > 0 /\ ino.deny <= ino.open_cnt)

file_allow_write(f) ==
  /\ pc = "idle" /\ f \in DOMAIN files /\ files[f].deny_write
  /\ files' = [files EXCEPT ![f].deny_write = FALSE]
  /\ inodes' = inode_allow_write(inodes, f)
  /\ pc' = IF AllowPanics(f) THEN "panic" ELSE pc
  /\ UNCHANGED <<disk, free_map, free_map_file, call, formatted, acked, lost,
                 fails, crashes>>

(* Mutant: the file's denial of writes outlives it.                        *)
file_close_denying(f) ==
  /\ pc = "idle" /\ f \in DOMAIN files
  /\ files' = Restrict(files, DOMAIN files \ {f})
  /\ CloseThen("close", inodes, files[f].inode)
  /\ UNCHANGED <<disk, free_map, free_map_file, formatted, acked, lost, fails,
                 crashes>>

file_close(f) ==
  /\ pc = "idle" /\ f \in DOMAIN files
  /\ IF AllowPanics(f)
     THEN pc' = "panic" /\ UNCHANGED <<files, inodes, call>>
     ELSE /\ files' = Restrict(files, DOMAIN files \ {f})
          /\ CloseThen("close", inode_allow_write(inodes, f), files[f].inode)
  /\ UNCHANGED <<disk, free_map, free_map_file, formatted, acked, lost, fails,
                 crashes>>

(* filesys_done(): free_map_close() closes the file and writes nothing.    *)
filesys_done ==
  /\ pc = "idle" /\ crashes < MaxCrashes
  /\ crashes' = crashes + 1
  /\ Halt
  /\ UNCHANGED <<disk, formatted, acked, lost, fails>>

(* The machine stops between two sector writes.                            *)
Crash ==
  /\ pc \notin {"down", "idle", "panic"} /\ crashes < MaxCrashes
  /\ crashes' = crashes + 1
  /\ Halt
  /\ UNCHANGED <<disk, formatted, acked, lost, fails>>

Next ==
  \/ \E format \in BOOLEAN : filesys_init(format)
  \/ free_map_open \/ free_map_open_failed \/ free_map_allocate
  \/ map_write_first \/ map_write_last \/ map_write_failed
  \/ free_map_release
  \/ calloc_disk_inode \/ write_disk_inode \/ write_zeros
  \/ dir_add \/ create_undo
  \/ \E n \in Name \cup BadName, cnt \in Size : filesys_create(n, cnt)
  \/ \E n \in Name : filesys_remove(n)
  \/ \E n \in Name, f \in File : filesys_open(n, f)
  \/ \E f, g \in File : file_reopen(f, g)
  \/ \E f \in File : file_deny_write(f) \/ file_allow_write(f) \/ file_close(f)
  \/ filesys_done \/ Crash

Spec == Init /\ [][Next]_vars

-----------------------------------------------------------------------------
(* What must hold.                                                         *)

Running == pc # "down" /\ formatted /\ pc # "mount"

(* The inodes that something refers to: the two of the system, the ones    *)
(* the directory names, the ones that are open.                            *)
Live == {FREE_MAP_SECTOR, ROOT_DIR_SECTOR}
        \cup {Root[k].inode_sector : k \in InUse}
        \cup {inodes[x].sector : x \in DOMAIN inodes}

(* Memory never gives a sector to two owners: a sector has one struct      *)
(* inode at most, inodes that are named or open (removed ones included, up *)
(* to their last close) share no sector, and the free map has all of       *)
(* theirs as used.                                                         *)
SectorsDisjoint ==
  Running =>
    /\ \A x, y \in DOMAIN inodes : x # y => inodes[x].sector # inodes[y].sector
    /\ \A s, u \in Live : s # u => SectorsOf(s) \cap SectorsOf(u) = {}
    /\ \A s \in Live : SectorsOf(s) \subseteq free_map

(* What a reboot would find is sound after every single sector write, also *)
(* in the middle of a call and after failed allocations: each name on disk *)
(* leads to an inode, files share no sectors, and the map on disk has all  *)
(* of them as used, so that none is given out again.                       *)
CrashSafe ==
  formatted =>
    LET named == {FREE_MAP_SECTOR, ROOT_DIR_SECTOR}
                 \cup {Root[k].inode_sector : k \in InUse}
    IN  /\ \A s \in named : disk[s].t = "inode"
        /\ \A s, u \in named : s # u => SectorsOf(s) \cap SectorsOf(u) = {}
        /\ UNION {SectorsOf(s) : s \in named} \subseteq MapOnDisk

(* Between calls every used sector has an owner, except the ones that a    *)
(* filesys_create() lost whose dir_add() failed (it gives back the inode's *)
(* sector only) and the ones that a crash left marked.                     *)
SpaceAccounted ==
  pc = "idle" => free_map \ UNION {SectorsOf(s) : s \in Live} = lost

(* A file whose creation succeeded is there, once and with its length,     *)
(* until it is removed, whatever is created, removed or closed in between, *)
(* and across crashes and reboots.                                         *)
AckedSurvive ==
  formatted =>
    \A n \in DOMAIN acked :
      \E k \in InUse :
        /\ {j \in InUse : Root[j].name = n} = {k}
        /\ disk[Root[k].inode_sector].cnt = acked[n]

(* Reference counts are exact: between calls open_cnt is the number of     *)
(* files that share the inode (one for the free map file), and             *)
(* deny_write_cnt the number of those that deny writes, so that no ASSERT  *)
(* on them fails and the last close is really the last.                    *)
RefCountsExact ==
  /\ pc # "panic"
  /\ \A f \in DOMAIN files : files[f].inode \in DOMAIN inodes
  /\ pc = "idle" =>
       \A x \in DOMAIN inodes :
         LET sharing == {f \in DOMAIN files : files[f].inode = x}
         IN  /\ inodes[x].open_cnt =
                  Cardinality(sharing) + (IF x = free_map_file THEN 1 ELSE 0)
             /\ inodes[x].deny = Cardinality({f \in sharing : files[f].deny_write})

=============================================================================
