------------------------------ MODULE Pagedir -------------------------------
(***************************************************************************)
(* The page directories of userprog/pagedir.c, and the processor that uses *)
(* them: CR3, the translation lookaside buffer (TLB), and the accessed and *)
(* dirty bits it sets.                                                     *)
(*                                                                         *)
(* A page directory maps page table numbers to page tables, which map user *)
(* pages to entries.  The page table of a user page is TableOf[page].      *)
(***************************************************************************)
EXTENDS Integers, FiniteSets

CONSTANTS
  Pd,       \* the page directories, base_page_dir not included
  base_page_dir,
  UPage,    \* user virtual pages
  TableOf,  \* the page table number of each user page
  KPage     \* pages from the user pool

VARIABLES
  tables,  \* the page tables each directory has
  pte,     \* the entry of each user page in each directory
  cr3,     \* the active directory
  TLB,     \* the entries the processor has cached, with their dirty bits
  written, \* history: <<directory, page>> modified since the entry was
           \* installed or its dirty bit was cleared
  read     \* history: the same for accesses and the accessed bit

vars == <<tables, pte, cr3, TLB, written, read>>

Unmapped == [P |-> FALSE, A |-> FALSE, D |-> FALSE, page |-> "none"]

Init ==
  /\ tables = [d \in Pd |-> {}]
  /\ pte = [d \in Pd |-> [u \in UPage |-> Unmapped]]
  /\ cr3 = base_page_dir
  /\ TLB = {}
  /\ written = {} /\ read = {}

(* lookup_page() without CREATE finds an entry when there is a table.      *)
Found(d, u) == TableOf[u] \in tables[d]

(* pagedir_activate(): loading CR3 empties the TLB.                        *)
pagedir_activate(d) ==
  /\ cr3' = d
  /\ TLB' = {}
  /\ UNCHANGED <<tables, pte, written, read>>

invalidate_pagedir(d) == TLB' = IF cr3 = d THEN {} ELSE TLB

(* pagedir_set_page(): mem tells whether palloc_get_page() has a page for  *)
(* a missing page table.  UPAGE must not already be mapped.                *)
pagedir_set_page(d, u, k, mem) ==
  /\ ~pte[d][u].P
  /\ tables' = [tables EXCEPT ![d] = IF mem THEN @ \cup {TableOf[u]} ELSE @]
  /\ IF Found(d, u) \/ mem
     THEN /\ pte' = [pte EXCEPT ![d][u] = [P |-> TRUE, A |-> FALSE, D |-> FALSE, page |-> k]]
          /\ written' = written \ {<<d, u>>}
          /\ read' = read \ {<<d, u>>}
     ELSE UNCHANGED <<pte, written, read>>
  /\ UNCHANGED <<cr3, TLB>>

(* Mutant: the TLB is left alone.                                          *)
pagedir_clear_page_cached(d, u) ==
  /\ Found(d, u) /\ pte[d][u].P
  /\ pte' = [pte EXCEPT ![d][u].P = FALSE]
  /\ UNCHANGED <<tables, cr3, TLB, written, read>>

pagedir_clear_page(d, u) ==
  /\ Found(d, u) /\ pte[d][u].P
  /\ pte' = [pte EXCEPT ![d][u].P = FALSE]
  /\ invalidate_pagedir(d)
  /\ UNCHANGED <<tables, cr3, written, read>>

pagedir_is_dirty(d, u) == Found(d, u) /\ pte[d][u].D
pagedir_is_accessed(d, u) == Found(d, u) /\ pte[d][u].A

pagedir_set_dirty(d, u, dirty) ==
  /\ Found(d, u)
  /\ pte' = [pte EXCEPT ![d][u].D = dirty]
  /\ IF dirty THEN UNCHANGED TLB ELSE invalidate_pagedir(d)
  /\ written' = IF dirty THEN written \cup {<<d, u>>} ELSE written \ {<<d, u>>}
  /\ UNCHANGED <<tables, cr3, read>>

pagedir_set_accessed(d, u, accessed) ==
  /\ Found(d, u)
  /\ pte' = [pte EXCEPT ![d][u].A = accessed]
  /\ IF accessed THEN UNCHANGED TLB ELSE invalidate_pagedir(d)
  /\ read' = IF accessed THEN read \cup {<<d, u>>} ELSE read \ {<<d, u>>}
  /\ UNCHANGED <<tables, cr3, written>>

(* The processor reads or writes user page u.  Without a cached entry it   *)
(* walks the tables, sets the bits and caches the entry; a cached entry    *)
(* whose D is clear goes through the walk again on a write.                *)
Access(u, write) ==
  /\ cr3 \in Pd
  /\ LET hit == \E e \in TLB : e.u = u /\ (write => e.D)
         e == pte[cr3][u]
     IN  /\ hit \/ (Found(cr3, u) /\ e.P)
         /\ IF hit THEN UNCHANGED <<pte, TLB>>
            ELSE /\ pte' = [pte EXCEPT ![cr3][u].A = TRUE, ![cr3][u].D = @ \/ write]
                 /\ TLB' = {x \in TLB : x.u # u}
                             \cup {[u |-> u, page |-> e.page, D |-> e.D \/ write]}
  /\ read' = read \cup {<<cr3, u>>}
  /\ written' = IF write THEN written \cup {<<cr3, u>>} ELSE written
  /\ UNCHANGED <<tables, cr3>>

Next ==
  \/ \E d \in Pd \cup {base_page_dir} : pagedir_activate(d)
  \/ \E d \in Pd, u \in UPage :
       \/ \E k \in KPage, mem \in BOOLEAN : pagedir_set_page(d, u, k, mem)
       \/ pagedir_clear_page(d, u)
       \/ \E b \in BOOLEAN : pagedir_set_dirty(d, u, b) \/ pagedir_set_accessed(d, u, b)
  \/ \E u \in UPage, write \in BOOLEAN : Access(u, write)

Spec == Init /\ [][Next]_vars

-----------------------------------------------------------------------------
(* The processor never uses a translation that the active page directory   *)
(* no longer has (a page marked not present, or mapped to another frame),  *)
(* and the dirty and accessed bits tell whether a mapped page was modified *)
(* or accessed since they were last cleared: no write goes unrecorded      *)
(* because the TLB took the page for dirty already.                        *)
TLBCoherent ==
  /\ \A e \in TLB : /\ cr3 \in Pd
                    /\ pte[cr3][e.u].P /\ pte[cr3][e.u].page = e.page
                    /\ e.D => pte[cr3][e.u].D
  /\ \A d \in Pd, u \in UPage :
       pte[d][u].P => /\ pagedir_is_dirty(d, u) <=> <<d, u>> \in written
                      /\ pagedir_is_accessed(d, u) <=> <<d, u>> \in read

=============================================================================
