------------------------------ MODULE MCKernel ------------------------------
(***************************************************************************)
(* Instances, for TLC, of the page allocator, the block allocator, page    *)
(* directories, and the interrupt queue with threads at both ends.  A      *)
(* behaviour exercises one unit; the variables of the others keep their    *)
(* first values.                                                           *)
(***************************************************************************)
EXTENDS Palloc, Sequences

CONSTANTS r1, r2, w1, w2, x, y,              \* Intq
          pd1, pd2, base, u, k1, k2          \* Pagedir

VARIABLES
  unit,
  buf, head, tail, not_full, not_empty, q_holder, q_pc, byte, out, q_panic,  \* Intq
  arena, used, free_list, live, moving, m_panic,                             \* Malloc
  tables, pte, cr3, TLB, written, read                                       \* Pagedir

(* Two threads at each end, and handlers at both.                          *)
intq == INSTANCE Intq WITH
  Reader <- {r1, r2}, Writer <- {w1, w2}, IntrGet <- TRUE, IntrPut <- TRUE,
  Byte <- {x, y}, INTQ_BUFSIZE <- 3, holder <- q_holder, pc <- q_pc, panic <- q_panic

(* Pages of six bytes, four of them the arena's header, in an address      *)
(* space of six pages.  malloc(33) wraps around in page_cnt, calloc(7, 7)  *)
(* in its product without being refused.                                   *)
malloc == INSTANCE Malloc WITH
  PGSIZE <- 6, HEADER <- 4, MIN_BLOCK <- 1, SIZE_MAX <- 35, Request <- {1, 2, 3, 7, 33},
  panic <- m_panic

pages == INSTANCE Pagedir WITH
  Pd <- {pd1, pd2}, base_page_dir <- base, UPage <- {u}, TableOf <- [v \in {u} |-> 0],
  KPage <- {k1, k2}

-----------------------------------------------------------------------------
KernelInit ==
  /\ unit \in {"palloc", "intq", "malloc", "pagedir"}
  /\ Init /\ intq!Init /\ malloc!Init /\ pages!Init

Only(name) ==
  /\ unit = name /\ unit' = name
  /\ IF name = "palloc" THEN TRUE
     ELSE UNCHANGED <<used_map, holder, pc, page_idx, page_cnt, i, blocks, snapshot, panic>>
  /\ IF name = "intq" THEN TRUE
     ELSE UNCHANGED <<buf, head, tail, not_full, not_empty, q_holder, q_pc, byte, out, q_panic>>
  /\ IF name = "malloc" THEN TRUE
     ELSE UNCHANGED <<arena, used, free_list, live, moving, m_panic>>
  /\ IF name = "pagedir" THEN TRUE ELSE UNCHANGED <<tables, pte, cr3, TLB, written, read>>

KernelNext ==
  \/ Only("palloc") /\ Next
  \/ Only("intq") /\ intq!Next
  \/ Only("malloc") /\ malloc!Next
  \/ Only("pagedir") /\ pages!Next

kernelVars ==
  <<unit, vars, buf, head, tail, not_full, not_empty, q_holder, q_pc, byte, out, q_panic,
    arena, used, free_list, live, moving, m_panic, tables, pte, cr3, TLB, written, read>>

(* The fairness of the page allocator; the other units promise nothing     *)
(* that needs any.                                                         *)
KernelSpec ==
  /\ KernelInit /\ [][KernelNext]_kernelVars
  /\ \A t \in Thread : /\ WF_kernelVars(Only("palloc") /\ Continue(t))
                       /\ WF_kernelVars(Only("palloc") /\ get_lock(t))

-----------------------------------------------------------------------------
(* The interrupt queue is a first-in first-out queue, for any threads and  *)
(* handlers at its ends (Intq).                                            *)
ImplementsFifo == intq!ImplementsFifo

(* Blocks of malloc() do not overlap and are as large as was asked for,    *)
(* unless the size wrapped around, and what is freed comes back (Malloc).  *)
HeapSound == malloc!BlocksSound /\ malloc!ArenasExact

(* The TLB agrees with the active page directory, and the dirty and        *)
(* accessed bits with what was done to the page (Pagedir).                 *)
TLBCoherent == pages!TLBCoherent
=============================================================================
