------------------------------ MODULE Segment -------------------------------
(***************************************************************************)
(* How load() of userprog/process.c turns one PT_LOAD program header into  *)
(* pages: validate_segment(), the split into bytes read and bytes zeroed,  *)
(* and load_segment().  Addresses are unsigned integers of W bits.  The    *)
(* byte at offset i of the executable is i itself, and Zero is a zeroed    *)
(* byte, so that a page shows where its contents come from.                *)
(***************************************************************************)
EXTENDS Integers, Sequences

CONSTANTS
  W,          \* bits of an address
  PGSIZE,
  PHYS_BASE,  \* the first kernel address, a multiple of PGSIZE
  FileLength  \* lengths of the executable

VARIABLES phdr, flen

vars == <<phdr, flen>>

Zero == -1
Word == 0..2 ^ W - 1
Wrap(n) == n % 2 ^ W
PageOf(a) == a - (a % PGSIZE)
RoundUp(n) == Wrap(PageOf(Wrap(n + PGSIZE - 1)))
is_user_vaddr(a) == a < PHYS_BASE

validate_segment(h, len) ==
  /\ h.p_offset % PGSIZE = h.p_vaddr % PGSIZE
  /\ h.p_offset <= len
  /\ h.p_memsz >= h.p_filesz
  /\ h.p_memsz # 0
  /\ is_user_vaddr(h.p_vaddr)
  /\ is_user_vaddr(Wrap(h.p_vaddr + h.p_memsz))
  /\ Wrap(h.p_vaddr + h.p_memsz) >= h.p_vaddr
  /\ h.p_vaddr >= PGSIZE

page_offset(h) == h.p_vaddr % PGSIZE

read_bytes(h) == IF h.p_filesz > 0 THEN Wrap(page_offset(h) + h.p_filesz) ELSE 0

(* Mutant: the segment's offset in its first page is forgotten.            *)
zero_bytes_no_offset(h) == Wrap(RoundUp(h.p_memsz) - read_bytes(h))

zero_bytes(h) == Wrap(RoundUp(page_offset(h) + h.p_memsz) - read_bytes(h))

(* The loop of load_segment(): the pages it installs, and whether          *)
(* file_read() gave every byte.  An ASSERT that fails has status "panic".  *)
RECURSIVE Pages(_, _, _, _, _)
Pages(pos, upage, rb, zb, len) ==
  IF rb = 0 /\ zb = 0 THEN [status |-> "ok", mem |-> << >>]
  ELSE LET page_read_bytes == IF rb < PGSIZE THEN rb ELSE PGSIZE
           page_zero_bytes == PGSIZE - page_read_bytes
           page == [i \in 0..PGSIZE - 1 |-> IF i < page_read_bytes THEN pos + i ELSE Zero]
           rest == Pages(pos + page_read_bytes, upage + PGSIZE,
                         rb - page_read_bytes, Wrap(zb - page_zero_bytes), len)
       IN  IF page_read_bytes > 0 /\ pos + page_read_bytes > len
           THEN [status |-> "short", mem |-> << >>]
           ELSE [rest EXCEPT !.mem = <<[upage |-> upage, page |-> page]>> \o @]

load_segment(pos, upage, rb, zb, len) ==
  IF Wrap(rb + zb) % PGSIZE # 0 \/ upage % PGSIZE # 0 \/ pos % PGSIZE # 0
  THEN [status |-> "panic", mem |-> << >>]
  ELSE Pages(pos, upage, rb, zb, len)

load(h, len) ==
  IF validate_segment(h, len)
  THEN load_segment(PageOf(h.p_offset), PageOf(h.p_vaddr), read_bytes(h), zero_bytes(h), len)
  ELSE [status |-> "invalid", mem |-> << >>]

-----------------------------------------------------------------------------
NoHeader == [p_offset |-> 0, p_vaddr |-> 0, p_filesz |-> 0, p_memsz |-> 0]

Init == phdr = NoHeader /\ flen = 0

Call ==
  /\ phdr = NoHeader
  /\ phdr' \in [p_offset : Word, p_vaddr : Word, p_filesz : Word, p_memsz : Word \ {0}]
  /\ flen' \in FileLength

Return ==
  /\ phdr # NoHeader
  /\ phdr' = NoHeader /\ flen' = 0

Next == Call \/ Return

Spec == Init /\ [][Next]_vars

-----------------------------------------------------------------------------
(* Every header is refused or loaded as it says, in W-bit arithmetic: no   *)
(* ASSERT fails; the pages lie in user space, above page 0, in order and   *)
(* without a gap, just enough of them; each byte of the segment comes from *)
(* its place in the file, or is zero beyond p_filesz; and a load falls     *)
(* short exactly when the file does.                                       *)
SegmentExact ==
  LET r == load(phdr, flen)
      first == PageOf(phdr.p_vaddr)
      end == phdr.p_vaddr + phdr.p_memsz
      Byte(a) == r.mem[((a - first) \div PGSIZE) + 1].page[a % PGSIZE]
  IN  /\ r.status # "panic"
      /\ r.status = "short" =>
           phdr.p_filesz > 0 /\ phdr.p_offset + phdr.p_filesz > flen
      /\ r.status = "ok" =>
           /\ phdr.p_filesz > 0 => phdr.p_offset + phdr.p_filesz <= flen
           /\ PGSIZE <= first /\ end <= PHYS_BASE
           /\ \A i \in 1..Len(r.mem) : r.mem[i].upage = first + (i - 1) * PGSIZE
           /\ Len(r.mem) = ((end - 1) \div PGSIZE) - (first \div PGSIZE) + 1
           /\ \A a \in phdr.p_vaddr..end - 1 :
                Byte(a) = IF a - phdr.p_vaddr < phdr.p_filesz
                          THEN phdr.p_offset + (a - phdr.p_vaddr) ELSE Zero

=============================================================================
