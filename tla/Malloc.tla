------------------------------- MODULE Malloc -------------------------------
(***************************************************************************)
(* The block allocator of threads/malloc.c.                                *)
(*                                                                         *)
(* Addresses count from the first page of the kernel pool; page p begins   *)
(* at p * PGSIZE.  A descriptor is known by its block size.  malloc() and  *)
(* free() hold the descriptor's lock for all that touches a free list or   *)
(* an arena of small blocks, and a big block has no list: a call is one    *)
(* step.  realloc() is two, as another thread may run between its malloc() *)
(* and its free().                                                         *)
(***************************************************************************)
EXTENDS Integers, Sequences, SequencesExt, FiniteSets, FiniteSetsExt

CONSTANTS
  PGSIZE,
  HEADER,    \* sizeof (struct arena)
  MIN_BLOCK, \* the smallest block size, 16 in the code
  PageCnt,   \* pages of the pool
  SIZE_MAX,
  Request    \* the sizes asked for

VARIABLES
  arena,      \* the arena header at the start of each page, or NoArena
  used,       \* the pages the page allocator has handed out
  free_list,  \* of each descriptor
  live,       \* history: the blocks handed out, with the sizes asked for
  moving,     \* the realloc() between its malloc() and its free(), or NoMove
  panic       \* an ASSERT failed

vars == <<arena, used, free_list, live, moving, panic>>

Null == -1
NoArena == [desc |-> 0, free_cnt |-> 0]
NoMove == [from |-> Null, to |-> Null]
BIG == Null    \* the desc of a big block's arena
Page == 0 .. PageCnt - 1

(* malloc_init(): block sizes are doubled up to PGSIZE / 2.                *)
descs == {s \in {MIN_BLOCK * 2 ^ k : k \in 0 .. PGSIZE} : s < PGSIZE \div 2}
blocks_per_arena(d) == (PGSIZE - HEADER) \div d

arena_to_block(a, d, idx) == a * PGSIZE + HEADER + idx * d
block_to_arena(b) == b \div PGSIZE
pg_ofs(b) == b % PGSIZE

(* block_to_arena()'s checks.                                              *)
ValidBlock(b) ==
  LET a == arena[block_to_arena(b)]
  IN  /\ a # NoArena
      /\ IF a.desc = BIG THEN pg_ofs(b) = HEADER ELSE (pg_ofs(b) - HEADER) % a.desc = 0

block_size(b) ==
  LET a == arena[block_to_arena(b)]
  IN  IF a.desc = BIG THEN PGSIZE * a.free_cnt - pg_ofs(b) ELSE a.desc

Init ==
  /\ arena = [p \in Page |-> NoArena]
  /\ used = {}
  /\ free_list = [d \in descs |-> << >>]
  /\ live = {}
  /\ moving = NoMove
  /\ panic = FALSE

-----------------------------------------------------------------------------
(* The page allocator (palloc.c): the first run of cnt free pages.         *)
palloc_get_multiple(cnt) ==
  LET fits == {p \in Page : p + cnt <= PageCnt /\ (p .. p + cnt - 1) \cap used = {}}
  IN  IF cnt = 0 \/ fits = {} THEN Null ELSE Min(fits)

(* DIV_ROUND_UP (size + sizeof *a, PGSIZE), in size_t.                     *)
page_cnt(size) == ((size + HEADER + PGSIZE - 1) % (SIZE_MAX + 1)) \div PGSIZE

(* The descriptor malloc() uses, or BIG.                                   *)
DescFor(size) ==
  LET fit == {d \in descs : d >= size} IN IF fit = {} THEN BIG ELSE Min(fit)

(* What malloc(size) returns, and the arenas, pages and lists after it.    *)
BigBlock(size) ==
  LET a == palloc_get_multiple(page_cnt(size))
  IN  IF a = Null THEN [b |-> Null, arena |-> arena, used |-> used, list |-> free_list]
      ELSE [b |-> a * PGSIZE + HEADER,
            arena |-> [arena EXCEPT ![a] = [desc |-> BIG, free_cnt |-> page_cnt(size)]],
            used |-> used \cup (a .. a + page_cnt(size) - 1),
            list |-> free_list]

SmallBlock(d) ==
  LET fresh == free_list[d] = << >>
      a == IF fresh THEN palloc_get_multiple(1) ELSE block_to_arena(Head(free_list[d]))
      list == IF fresh
              THEN [i \in 1 .. blocks_per_arena(d) |-> arena_to_block(a, d, i - 1)]
              ELSE free_list[d]
      free_cnt == IF fresh THEN blocks_per_arena(d) ELSE arena[a].free_cnt
  IN  IF a = Null THEN [b |-> Null, arena |-> arena, used |-> used, list |-> free_list]
      ELSE [b |-> Head(list),
            arena |-> [arena EXCEPT ![a] = [desc |-> d, free_cnt |-> free_cnt - 1]],
            used |-> used \cup {a},
            list |-> [free_list EXCEPT ![d] = Tail(list)]]

Allocated(size) == IF DescFor(size) = BIG THEN BigBlock(size) ELSE SmallBlock(DescFor(size))

(* malloc(size) on behalf of a caller who wants asked bytes.               *)
Give(size, asked) ==
  LET r == Allocated(size)
  IN  /\ arena' = r.arena /\ used' = r.used /\ free_list' = r.list
      /\ live' = IF r.b = Null THEN live ELSE live \cup {[b |-> r.b, size |-> asked]}
      /\ UNCHANGED <<moving, panic>>

malloc(size) == Give(size, size)

(* calloc() multiplies in size_t, and refuses some of the products that do *)
(* not fit.                                                                *)
calloc(a, b) ==
  LET size == (a * b) % (SIZE_MAX + 1)
  IN  /\ size >= a /\ size >= b /\ size # 0
      /\ Give(size, a * b)

(* Mutant: the blocks of the arena that is given back stay on the list.    *)
Purged_not(list, a, d) == list

(* free() takes the blocks of the arena it gives back off the free list.   *)
Purged(list, a, d) ==
  LET inside(b) == \E i \in 0 .. blocks_per_arena(d) - 1 : b = arena_to_block(a, d, i)
  IN  SelectSeq(list, LAMBDA b : ~inside(b))

Freed(b) ==
  LET a == block_to_arena(b)
      d == arena[a].desc
      cnt == arena[a].free_cnt + 1
      list == <<b>> \o free_list[d]
  IN  IF ~ValidBlock(b)
      THEN /\ panic' = TRUE /\ UNCHANGED <<arena, used, free_list>>
      ELSE IF d = BIG
      THEN /\ used' = used \ (a .. a + arena[a].free_cnt - 1)
           /\ arena' = [arena EXCEPT ![a] = NoArena]
           /\ UNCHANGED <<free_list, panic>>
      ELSE IF cnt >= blocks_per_arena(d)
      THEN /\ panic' = (cnt # blocks_per_arena(d))
           /\ free_list' = [free_list EXCEPT ![d] = Purged(list, a, d)]
           /\ used' = used \ {a}
           /\ arena' = [arena EXCEPT ![a] = NoArena]
      ELSE /\ free_list' = [free_list EXCEPT ![d] = list]
           /\ arena' = [arena EXCEPT ![a].free_cnt = cnt]
           /\ UNCHANGED <<used, panic>>

free(blk) ==
  /\ blk.b # moving.from
  /\ Freed(blk.b)
  /\ live' = live \ {blk}
  /\ UNCHANGED moving

(* realloc(): malloc(), and when it succeeds memcpy() and free().  The     *)
(* number of bytes copied is kept for BlocksSound.                         *)
realloc(blk, new_size) ==
  LET r == Allocated(new_size)
  IN  /\ moving = NoMove
      /\ arena' = r.arena /\ used' = r.used /\ free_list' = r.list
      /\ IF r.b = Null THEN UNCHANGED <<live, moving>>
         ELSE /\ live' = live \cup {[b |-> r.b, size |-> new_size]}
              /\ moving' = [from |-> blk.b, to |-> r.b]
      /\ UNCHANGED panic

min_size(from, new_size) == Min({new_size, block_size(from)})

realloc_free ==
  /\ moving # NoMove
  /\ Freed(moving.from)
  /\ live' = {blk \in live : blk.b # moving.from}
  /\ moving' = NoMove

Next ==
  /\ ~panic
  /\ \/ \E size \in Request : malloc(size)
     \/ \E a, b \in Request : calloc(a, b)
     \/ \E blk \in live : free(blk) \/ \E size \in Request : realloc(blk, size)
     \/ realloc_free

Spec == Init /\ [][Next]_vars

-----------------------------------------------------------------------------
Bytes(b) == b .. b + block_size(b) - 1

(* A size that still fits in size_t with what malloc() adds to it.         *)
Fits(size) == size + HEADER + PGSIZE - 1 <= SIZE_MAX

(* No two blocks that are handed out overlap, none overlaps a free block   *)
(* or an arena's header, and each lies in pages that malloc() has; no      *)
(* ASSERT fails.  A block is as large as was asked for exactly when the    *)
(* size fits in size_t with what malloc() adds to it: malloc() and         *)
(* calloc() may also return a block for a size that wrapped around, which  *)
(* is then too small.  A realloc() to a size that fits copies all that the *)
(* caller had, or as much as it wants, and not beyond the new block.       *)
BlocksSound ==
  /\ ~panic
  /\ \A x \in live :
       /\ ValidBlock(x.b)
       /\ block_size(x.b) >= x.size <=> Fits(x.size)
       /\ \A y \in live \ {x} : Bytes(x.b) \cap Bytes(y.b) = {}
       /\ \A d \in descs : \A f \in ToSet(free_list[d]) : Bytes(x.b) \cap (f .. f + d - 1) = {}
       /\ \A k \in Bytes(x.b) :
            /\ block_to_arena(k) \in used
            /\ arena[block_to_arena(k)] # NoArena => pg_ofs(k) >= HEADER
  /\ moving # NoMove =>
       \A x, y \in live : x.b = moving.from /\ y.b = moving.to /\ Fits(x.size) /\ Fits(y.size) =>
         min_size(x.b, y.size) \in Min({x.size, y.size}) .. block_size(y.b)

(* The free lists hold exactly the blocks that are not handed out, each    *)
(* once, and free_cnt counts them; a page is held only while some block in *)
(* it is handed out, so memory that was freed comes back to the page       *)
(* allocator, whatever the order of the calls.                             *)
ArenasExact ==
  /\ \A d \in descs :
       /\ IsInjective(free_list[d])
       /\ ToSet(free_list[d]) =
            {arena_to_block(a, d, i) : a \in {p \in Page : arena[p].desc = d},
                                       i \in 0 .. blocks_per_arena(d) - 1}
              \ {x.b : x \in live}
  /\ \A p \in Page :
       arena[p] # NoArena /\ arena[p].desc # BIG =>
         arena[p].free_cnt
           = Cardinality({f \in ToSet(free_list[arena[p].desc]) : block_to_arena(f) = p})
  /\ used = UNION {IF arena[block_to_arena(x.b)].desc = BIG
                   THEN LET a == block_to_arena(x.b) IN a .. a + arena[a].free_cnt - 1
                   ELSE {block_to_arena(x.b)} : x \in live}

=============================================================================
