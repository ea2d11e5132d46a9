------------------------------- MODULE Palloc -------------------------------
(***************************************************************************)
(* One pool of the page allocator of threads/palloc.c, with the bitmap of  *)
(* lib/kernel/bitmap.c that records its used pages.                        *)
(*                                                                         *)
(* palloc_get_multiple() scans and flips the bitmap with the pool's lock   *)
(* held.  palloc_free_multiple() clears bits with no lock, so it runs      *)
(* between any two bit accesses of a scan; only the single-bit operations  *)
(* are atomic.  The lock is the abstract one that Synch implements.        *)
(***************************************************************************)
EXTENDS Integers, FiniteSets

CONSTANTS
  Thread,   \* the threads that allocate and free
  NULL,     \* no thread
  PageCnt,  \* the pages of the pool
  MaxCnt    \* bound: the largest page_cnt asked for

ASSUME PallocAssumption ==
  /\ NULL \notin Thread
  /\ PageCnt \in Nat
  /\ MaxCnt \in Nat \ {0}

VARIABLES
  used_map,  \* the pages whose bit is set
  holder,    \* the thread that holds the pool's lock
  pc,        \* where each thread is
  page_idx,  \* first page of the group at hand
  page_cnt,  \* its length
  i,         \* the loop index of bitmap_contains() or bitmap_set_multiple()
  blocks,    \* history: the groups of pages that callers own
  snapshot,  \* history: the pages that were free when t got the lock
  panic      \* an ASSERT has failed

vars == <<used_map, holder, pc, page_idx, page_cnt, i, blocks, snapshot, panic>>

Page == 0 .. (PageCnt - 1)

Group(idx, cnt) == idx .. (idx + cnt - 1)

Label == {"idle", "lock", "scan", "flip", "found", "failed", "check", "clear"}

TypeOK ==
  /\ used_map \in SUBSET Page
  /\ holder \in Thread \cup {NULL}
  /\ pc \in [Thread -> Label]
  /\ page_idx \in [Thread -> Nat]
  /\ page_cnt \in [Thread -> Nat]
  /\ i \in [Thread -> Nat]
  /\ blocks \in SUBSET (Nat \X (Nat \ {0}))
  /\ snapshot \in [Thread -> SUBSET Page]
  /\ panic \in BOOLEAN

(* init_pool() leaves every page free.                                     *)
Init ==
  /\ used_map = {}
  /\ holder = NULL
  /\ pc = [t \in Thread |-> "idle"]
  /\ page_idx = [t \in Thread |-> 0]
  /\ page_cnt = [t \in Thread |-> 0]
  /\ i = [t \in Thread |-> 0]
  /\ blocks = {}
  /\ snapshot = [t \in Thread |-> {}]
  /\ panic = FALSE

At(t, label) == ~panic /\ pc[t] = label

Goto(t, label) == pc' = [pc EXCEPT ![t] = label]

(* A call returns and its locals are gone.                                 *)
Return(t) ==
  /\ Goto(t, "idle")
  /\ page_idx' = [page_idx EXCEPT ![t] = 0]
  /\ page_cnt' = [page_cnt EXCEPT ![t] = 0]
  /\ i' = [i EXCEPT ![t] = 0]
  /\ snapshot' = [snapshot EXCEPT ![t] = {}]

-----------------------------------------------------------------------------
(* palloc_get_multiple(flags, n), n not 0 ...                              *)
palloc_get_multiple(t, n) ==
  /\ At(t, "idle")
  /\ page_cnt' = [page_cnt EXCEPT ![t] = n]
  /\ Goto(t, "lock")
  /\ UNCHANGED <<used_map, holder, page_idx, i, blocks, snapshot, panic>>

(* Mutant: the lock is not waited for.                                     *)
get_lock_anyway(t) ==
  /\ At(t, "lock")
  /\ holder' = t
  /\ page_idx' = [page_idx EXCEPT ![t] = 0]
  /\ i' = [i EXCEPT ![t] = 0]
  /\ snapshot' = [snapshot EXCEPT ![t] = Page \ used_map]
  /\ Goto(t, "scan")
  /\ UNCHANGED <<used_map, page_cnt, blocks, panic>>

(* ... acquires the lock ...                                               *)
get_lock(t) ==
  /\ At(t, "lock")
  /\ holder = NULL
  /\ holder' = t
  /\ page_idx' = [page_idx EXCEPT ![t] = 0]
  /\ i' = [i EXCEPT ![t] = 0]
  /\ snapshot' = [snapshot EXCEPT ![t] = Page \ used_map]
  /\ Goto(t, "scan")
  /\ UNCHANGED <<used_map, page_cnt, blocks, panic>>

(* Mutant: a set bit is not passed over.                                   *)
bitmap_scan_stuck(t) ==
  /\ At(t, "scan")
  /\ page_idx[t] + page_cnt[t] <= PageCnt
  /\ LET taken == page_idx[t] + i[t] \in used_map
         full == ~taken /\ i[t] + 1 = page_cnt[t]
     IN  /\ i' = [i EXCEPT ![t] = IF taken \/ full THEN 0 ELSE @ + 1]
         /\ Goto(t, IF full THEN "flip" ELSE "scan")
  /\ UNCHANGED <<used_map, page_idx, holder, page_cnt, blocks, snapshot, panic>>

(* ... looks in bitmap_scan() at the next bit: one that is set moves the   *)
(* start of the group, one that is clear extends it ...                    *)
bitmap_scan(t) ==
  /\ At(t, "scan")
  /\ page_idx[t] + page_cnt[t] <= PageCnt
  /\ LET taken == page_idx[t] + i[t] \in used_map
         full == ~taken /\ i[t] + 1 = page_cnt[t]
     IN  /\ page_idx' = [page_idx EXCEPT ![t] = IF taken THEN @ + 1 ELSE @]
         /\ i' = [i EXCEPT ![t] = IF taken \/ full THEN 0 ELSE @ + 1]
         /\ Goto(t, IF full THEN "flip" ELSE "scan")
  /\ UNCHANGED <<used_map, holder, page_cnt, blocks, snapshot, panic>>

(* Mutant: the last group is not looked at.                                *)
scan_failed_early(t) ==
  /\ At(t, "scan")
  /\ page_idx[t] + page_cnt[t] >= PageCnt
  /\ Goto(t, "failed")
  /\ UNCHANGED <<used_map, holder, page_idx, page_cnt, i, blocks, snapshot, panic>>

(* ... until no group can start any more ...                               *)
scan_failed(t) ==
  /\ At(t, "scan")
  /\ page_idx[t] + page_cnt[t] > PageCnt
  /\ Goto(t, "failed")
  /\ UNCHANGED <<used_map, holder, page_idx, page_cnt, i, blocks, snapshot, panic>>

(* ... or it has a group, whose bits it sets one by one ...                *)
bitmap_mark(t) ==
  /\ At(t, "flip")
  /\ used_map' = used_map \cup {page_idx[t] + i[t]}
  /\ i' = [i EXCEPT ![t] = @ + 1]
  /\ Goto(t, IF i[t] + 1 = page_cnt[t] THEN "found" ELSE "flip")
  /\ UNCHANGED <<holder, page_idx, page_cnt, blocks, snapshot, panic>>

(* ... and releases the lock and returns the group, or a null pointer.     *)
get_return(t) ==
  /\ At(t, "found") \/ At(t, "failed")
  /\ holder' = NULL
  /\ blocks' = IF pc[t] = "found" THEN blocks \cup {<<page_idx[t], page_cnt[t]>>}
               ELSE blocks
  /\ Return(t)
  /\ UNCHANGED <<used_map, panic>>

-----------------------------------------------------------------------------
(* palloc_free_multiple(), of a group that some caller owns ...            *)
palloc_free_multiple(t, b) ==
  /\ At(t, "idle")
  /\ blocks' = blocks \ {b}
  /\ page_idx' = [page_idx EXCEPT ![t] = b[1]]
  /\ page_cnt' = [page_cnt EXCEPT ![t] = b[2]]
  /\ i' = [i EXCEPT ![t] = 0]
  /\ Goto(t, "check")
  /\ UNCHANGED <<used_map, holder, snapshot, panic>>

(* ... asserts in bitmap_all() that each of its bits is set ...            *)
bitmap_all(t) ==
  /\ At(t, "check")
  /\ panic' = (page_idx[t] + i[t] \notin used_map)
  /\ LET done == i[t] + 1 = page_cnt[t]
     IN  /\ i' = [i EXCEPT ![t] = IF done THEN 0 ELSE @ + 1]
         /\ Goto(t, IF done THEN "clear" ELSE "check")
  /\ UNCHANGED <<used_map, holder, page_idx, page_cnt, blocks, snapshot>>

(* ... and clears them one by one.                                         *)
bitmap_reset(t) ==
  /\ At(t, "clear")
  /\ used_map' = used_map \ {page_idx[t] + i[t]}
  /\ IF i[t] + 1 = page_cnt[t]
     THEN Return(t)
     ELSE /\ i' = [i EXCEPT ![t] = @ + 1]
          /\ UNCHANGED <<pc, page_idx, page_cnt, snapshot>>
  /\ UNCHANGED <<holder, blocks, panic>>

Continue(t) ==
  \/ bitmap_scan(t) \/ scan_failed(t) \/ bitmap_mark(t) \/ get_return(t)
  \/ bitmap_all(t) \/ bitmap_reset(t)

Next ==
  \E t \in Thread :
     \/ \E n \in 1 .. MaxCnt : palloc_get_multiple(t, n)
     \/ \E b \in blocks : palloc_free_multiple(t, b)
     \/ get_lock(t)
     \/ Continue(t)

Spec == Init /\ [][Next]_vars

(* Ready threads go on through the allocator, and a lock that stays free   *)
(* is taken by a thread that waits for it.  It is not given to each waiter *)
(* in turn: a thread that never waited may take it before the one that was *)
(* woken, which then goes to the end of the list.                          *)
FairSpec ==
  /\ Spec
  /\ \A t \in Thread : WF_vars(Continue(t)) /\ WF_vars(get_lock(t))

-----------------------------------------------------------------------------
(* Properties.                                                             *)

(* The pages thread t has a claim to inside the allocator: a group it has  *)
(* found and not yet returned, or one it has been given to free, less the  *)
(* pages it has already let go.                                            *)
Claim(t) ==
  CASE pc[t] \in {"flip", "found", "check"} -> Group(page_idx[t], page_cnt[t])
    [] pc[t] = "clear" -> Group(page_idx[t] + i[t], page_cnt[t] - i[t])
    [] OTHER -> {}

Owned(b) == Group(b[1], b[2])

(* No page is handed out twice: the groups callers own are disjoint, and   *)
(* so are the groups other threads are taking or freeing, although a free  *)
(* takes no lock and a scan tests a bit long before it sets it.            *)
NoPageTwice ==
  /\ \A b, c \in blocks : b # c => Owned(b) \cap Owned(c) = {}
  /\ \A t \in Thread, b \in blocks : Claim(t) \cap Owned(b) = {}
  /\ \A t, u \in Thread : t # u => Claim(t) \cap Claim(u) = {}

(* palloc.c, line 147: ASSERT (bitmap_all (...)) never fails for a group   *)
(* that was allocated and is freed once.                                   *)
NoPanic == ~panic

(* No page leaks: a set bit belongs to a group somebody owns, takes or     *)
(* frees, and the pages of an owned group have their bits set.             *)
UsedExact ==
  /\ used_map \subseteq UNION ({Owned(b) : b \in blocks} \cup {Claim(t) : t \in Thread})
  /\ \A b \in blocks : Owned(b) \subseteq used_map

(* palloc_get_multiple() returns a null pointer only "if too few pages are *)
(* available": no group of pages that was free when it took the lock is    *)
(* overlooked, whatever is freed during the scan.                          *)
FailsOnlyWhenFull ==
  \A t \in Thread : pc[t] = "failed" =>
     ~ \E p \in Page : Group(p, page_cnt[t]) \subseteq snapshot[t]

(* An allocation that has the lock ends, with or without pages, whatever   *)
(* is freed during its scan, and so does a free.  And the pool is not left *)
(* unused: an allocation that waits for the lock for ever sees those of    *)
(* others end for ever.                                                    *)
GetReturns ==
  \A t \in Thread :
     /\ pc[t] \notin {"idle", "lock"} ~> pc[t] = "idle"
     /\ \/ []<>(pc[t] # "lock")
        \/ []<>(\E u \in Thread \ {t} : pc[u] \in {"found", "failed"})
=============================================================================
