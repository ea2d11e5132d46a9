------------------------------- MODULE FileIO -------------------------------
(***************************************************************************)
(* The bytes of files: inode_read_at() and inode_write_at() of             *)
(* filesys/inode.c, the positions of filesys/file.c, and the commands of   *)
(* filesys/fsutil.c that copy files to and from the scratch disk.          *)
(*                                                                         *)
(* Inodes have fixed extents (FileSys is about how they get them).         *)
(***************************************************************************)
EXTENDS Integers, Sequences, SequencesExt

CONSTANTS
  SectorSize,  \* DISK_SECTOR_SIZE
  Inode,       \* the inodes, a function from names to start and length
  Byte,        \* bound: the bytes of file contents; 0 is one of them
  MaxSize,     \* bound: the size of a read or write, and a position
  ScratchSize  \* the sectors of the scratch disk

VARIABLES
  disk,     \* the bytes of the file system's sectors
  pos,      \* the position of an open file on each inode
  scratch,  \* the scratch disk
  put, get, \* fsutil's two positions on the scratch disk
  content   \* history: what each file should hold

vars == <<disk, pos, scratch, put, get, content>>

Zeros == [b \in 1 .. SectorSize |-> 0]
Lesser(a, b) == IF a < b THEN a ELSE b
sector_ofs(ofs) == ofs % SectorSize

(* byte_to_sector() for a position within the file.                        *)
byte_to_sector(ino, ofs) == ino.start + (ofs \div SectorSize)

(* The bytes to copy from or to the sector that holds position ofs.        *)
chunk_size(ino, size, ofs) ==
  Lesser(size, Lesser(ino.length - ofs, SectorSize - sector_ofs(ofs)))

(* Whether the chunk needs a bounce buffer.                                *)
Bounces(ino, size, ofs) ==
  ~(sector_ofs(ofs) = 0 /\ chunk_size(ino, size, ofs) = SectorSize)

(* The loop of inode_read_at() stops at the end of the file, and where no  *)
(* bounce buffer can be had (mem is false).                                *)
RECURSIVE inode_read_at(_, _, _, _, _)
inode_read_at(d, ino, size, ofs, mem) ==
  LET n == chunk_size(ino, size, ofs)
  IN  IF size <= 0 \/ n <= 0 \/ (Bounces(ino, size, ofs) /\ ~mem) THEN << >>
      ELSE SubSeq(d[byte_to_sector(ino, ofs)], sector_ofs(ofs) + 1, sector_ofs(ofs) + n)
           \o inode_read_at(d, ino, size - n, ofs + n, mem)

(* Mutant: the sector is not read before a part of it is replaced.         *)
Patched_zeros(sector, at, bytes) ==
  [b \in 1 .. SectorSize |->
     IF b > at /\ b <= at + Len(bytes) THEN bytes[b - at] ELSE 0]

(* A sector with bytes copied over it from offset at.                      *)
Patched(sector, at, bytes) ==
  [b \in 1 .. SectorSize |->
     IF b > at /\ b <= at + Len(bytes) THEN bytes[b - at] ELSE sector[b]]

(* The loop of inode_write_at(): the new disk, and the bytes written.      *)
RECURSIVE inode_write_at(_, _, _, _, _)
inode_write_at(d, ino, buffer, ofs, mem) ==
  LET size == Len(buffer)
      n == chunk_size(ino, size, ofs)
      s == byte_to_sector(ino, ofs)
  IN  IF size <= 0 \/ n <= 0 \/ (Bounces(ino, size, ofs) /\ ~mem)
      THEN [disk |-> d, n |-> 0]
      ELSE LET rest == inode_write_at(
                         [d EXCEPT ![s] = Patched(@, sector_ofs(ofs), SubSeq(buffer, 1, n))],
                         ino, SubSeq(buffer, n + 1, size), ofs + n, mem)
           IN  [rest EXCEPT !.n = @ + n]

-----------------------------------------------------------------------------
(* What the scratch disk holds to begin with: a file for each inode, put   *)
(* there by the host, the slack of its last sector full of garbage.        *)
Sectors(length) == (length + SectorSize - 1) \div SectorSize
Header(sig, size) == [sig |-> sig, size |-> size]
Data(bytes) == [sig |-> "none", bytes |-> bytes]

Init ==
  /\ disk = [s \in UNION {ino.start .. ino.start + Sectors(ino.length) - 1 :
                            ino \in {Inode[f] : f \in DOMAIN Inode}} |-> Zeros]
  /\ pos = [f \in DOMAIN Inode |-> 0]
  /\ \E f \in DOMAIN Inode :
       scratch = [s \in 0 .. ScratchSize - 1 |->
                    IF s = 0 THEN Header("PUT", Inode[f].length)
                    ELSE Data([b \in 1 .. SectorSize |-> (s + b) % 2])]
  /\ put = 0 /\ get = 0
  /\ content = [f \in DOMAIN Inode |-> [b \in 1 .. Inode[f].length |-> 0]]

(* The reference: what a read of size bytes at ofs is, and what a file     *)
(* holds after a write.                                                    *)
Expected(f, size, ofs) == SubSeq(content[f], ofs + 1, Lesser(ofs + size, Len(content[f])))
Overwritten(f, n, bytes, ofs) ==
  [b \in 1 .. Len(content[f]) |->
     IF b > ofs /\ b <= ofs + n THEN bytes[b - ofs] ELSE content[f][b]]

(* file_read_at() and file_tell() change nothing, and neither does a write *)
(* to a file while writes are denied: it returns 0.                        *)
file_read(f, size, mem) ==
  /\ pos' = [pos EXCEPT ![f] = @ + Len(inode_read_at(disk, Inode[f], size, @, mem))]
  /\ UNCHANGED <<disk, scratch, put, get, content>>

file_write_at(f, bytes, ofs, mem) ==
  LET w == inode_write_at(disk, Inode[f], bytes, ofs, mem)
  IN  /\ disk' = w.disk
      /\ content' = [content EXCEPT ![f] = Overwritten(f, w.n, bytes, ofs)]
      /\ UNCHANGED <<pos, scratch, put, get>>

file_write(f, bytes, mem) ==
  LET w == inode_write_at(disk, Inode[f], bytes, pos[f], mem)
  IN  /\ disk' = w.disk
      /\ pos' = [pos EXCEPT ![f] = @ + w.n]
      /\ content' = [content EXCEPT ![f] = Overwritten(f, w.n, bytes, pos[f])]
      /\ UNCHANGED <<scratch, put, get>>

file_seek(f, new_pos) ==
  /\ pos' = [pos EXCEPT ![f] = new_pos]
  /\ UNCHANGED <<disk, scratch, put, get, content>>

-----------------------------------------------------------------------------
(* fsutil.c.  A PANIC disables the action.                                 *)

(* The sector's bytes that belong to the chunk at offset done of a file of *)
(* length size.                                                            *)
Chunk(bytes, size, done) == SubSeq(bytes, 1, Lesser(size - done, SectorSize))

(* What fsutil_put() reads after the header: size bytes, sector by sector. *)
FromScratch(at, size) ==
  FlattenSeq([k \in 1 .. Sectors(size) |->
                Chunk(scratch[at + k].bytes, size, (k - 1) * SectorSize)])

(* fsutil_put() into a new file, which file_write() fills chunk by chunk.  *)
fsutil_put(f) ==
  LET size == scratch[put].size
      w == inode_write_at(disk, Inode[f], FromScratch(put, size), 0, TRUE)
  IN  /\ put < ScratchSize /\ scratch[put].sig = "PUT"
      /\ size = Inode[f].length
      /\ put + Sectors(size) < ScratchSize
      /\ \A k \in 1 .. Sectors(size) : scratch[put + k].sig = "none"
      /\ disk' = w.disk
      /\ put' = put + 1 + Sectors(size)
      /\ content' = [content EXCEPT ![f] = FromScratch(put, size)]
      /\ UNCHANGED <<pos, scratch, get>>

(* Mutant: the rest of the last sector is not cleared.                     *)
Padded_not(bytes, before) ==
  bytes \o SubSeq(before, Len(bytes) + 1, SectorSize)

Padded(bytes, before) ==
  bytes \o [b \in 1 .. SectorSize - Len(bytes) |-> 0]

(* fsutil_get(): a header, then the file, sector by sector.                *)
fsutil_get(f) ==
  LET size == Inode[f].length
      read(k) == inode_read_at(disk, Inode[f],
                               Lesser(size - (k - 1) * SectorSize, SectorSize),
                               (k - 1) * SectorSize, TRUE)
      RECURSIVE copy(_, _)  \* buffer still holds the sector before
      copy(k, buffer) ==
        IF k > Sectors(size) THEN << >>
        ELSE LET b == Padded(read(k), buffer) IN <<b>> \o copy(k + 1, b)
      data == copy(1, [b \in 1 .. SectorSize |-> IF b = 1 THEN 7 ELSE 0])
  IN  /\ get + Sectors(size) < ScratchSize
      /\ scratch' = [s \in DOMAIN scratch |->
                       IF s = get THEN Header("GET", size)
                       ELSE IF s \in get + 1 .. get + Sectors(size) THEN Data(data[s - get])
                       ELSE scratch[s]]
      /\ get' = get + 1 + Sectors(size)
      /\ UNCHANGED <<disk, pos, put, content>>

Buffers == UNION {[1 .. n -> {v}] : n \in 1 .. MaxSize, v \in Byte}

Next ==
  \E f \in DOMAIN Inode, mem \in BOOLEAN :
    \/ \E size \in 0 .. MaxSize : file_read(f, size, mem)
    \/ \E bytes \in Buffers, ofs \in 0 .. MaxSize : file_write_at(f, bytes, ofs, mem)
    \/ \E bytes \in Buffers : file_write(f, bytes, mem)
    \/ \E ofs \in 0 .. MaxSize : file_seek(f, ofs)
    \/ fsutil_put(f)
    \/ fsutil_get(f)

Spec == Init /\ [][Next]_vars

-----------------------------------------------------------------------------
(* Reads and writes that cross sectors, start inside one or pass the end   *)
(* do what they would do on a flat array of bytes: a file holds what was   *)
(* written to it, no write to a file changes another, and a read returns   *)
(* all there is, unless the bounce buffer could not be had: then it may    *)
(* return less, but never anything else.                                   *)
BytesExact ==
  \A f \in DOMAIN Inode, size, ofs \in 0 .. MaxSize :
    /\ inode_read_at(disk, Inode[f], size, ofs, TRUE) = Expected(f, size, ofs)
    /\ IsPrefix(inode_read_at(disk, Inode[f], size, ofs, FALSE), Expected(f, size, ofs))

(* What fsutil_get() leaves on the scratch disk is a header with the       *)
(* file's length, the file's bytes, and zeros up to the end of the sector. *)
GetStep ==
  \A f \in DOMAIN Inode : fsutil_get(f) =>
    LET n == Sectors(Len(content[f]))
        out == FlattenSeq([k \in 1 .. n |-> scratch'[get + k].bytes])
    IN  /\ scratch'[get] = Header("GET", Len(content[f]))
        /\ SubSeq(out, 1, Len(content[f])) = content[f]
        /\ \A b \in Len(content[f]) + 1 .. Len(out) : out[b] = 0

GetExact == [][GetStep]_vars
=============================================================================
