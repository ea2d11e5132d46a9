--------------------------- MODULE PagedirProofs ----------------------------
(***************************************************************************)
(* Proofs about Pagedir, for any page directories, user pages and frames.  *)
(***************************************************************************)
EXTENDS Pagedir, TLAPS

(* An entry of a page table, an entry of the TLB, and the state they make. *)
Entry == [P : BOOLEAN, A : BOOLEAN, D : BOOLEAN, page : KPage \cup {"none"}]
Cached == [u : UPage, page : KPage \cup {"none"}, D : BOOLEAN]

PagedirType ==
  /\ tables \in [Pd -> SUBSET {TableOf[u] : u \in UPage}]
  /\ pte \in [Pd -> [UPage -> Entry]]
  /\ cr3 \in Pd \cup {base_page_dir}
  /\ TLB \in SUBSET Cached

(* A present entry is in a table, and a cached one has its accessed bit    *)
(* set, so that a hit has nothing to record but a first write.             *)
EntriesOK ==
  /\ \A d \in Pd, u \in UPage : pte[d][u].P = TRUE => Found(d, u)
  /\ \A e \in TLB : pte[cr3][e.u].A = TRUE

(* The two parts of TLBCoherent: what the TLB has, what the bits tell.     *)
TLBMatches ==
  \A e \in TLB : /\ cr3 \in Pd
                 /\ pte[cr3][e.u].P /\ pte[cr3][e.u].page = e.page
                 /\ e.D => pte[cr3][e.u].D

BitsExact ==
  \A d \in Pd, u \in UPage :
     pte[d][u].P => /\ pagedir_is_dirty(d, u) <=> <<d, u>> \in written
                    /\ pagedir_is_accessed(d, u) <=> <<d, u>> \in read

(* The inductive invariant.  TLBCoherent alone is not: an access that hits *)
(* sets no bit, and is recorded only because the cached entry's bit is set *)
(* and its page table is there.                                            *)
PagedirInv == PagedirType /\ EntriesOK /\ TLBMatches /\ BitsExact

(* One entry changes.                                                      *)
LEMMA OneEntry ==
  ASSUME NEW f \in [Pd -> [UPage -> Entry]], NEW d \in Pd, NEW u \in UPage,
         NEW e \in Entry
  PROVE  LET g == [f EXCEPT ![d][u] = e]
         IN  /\ g \in [Pd -> [UPage -> Entry]]
             /\ g[d][u] = e
             /\ \A x \in Pd, y \in UPage : <<x, y>> # <<d, u>> => g[x][y] = f[x][y]
OBVIOUS

(* Setting or clearing a bit of an entry.                                  *)
LEMMA EntryBits ==
  ASSUME NEW e \in Entry, NEW b \in BOOLEAN
  PROVE  /\ [e EXCEPT !.P = b] \in Entry
         /\ [e EXCEPT !.A = b] \in Entry
         /\ [e EXCEPT !.D = b] \in Entry
BY DEF Entry

(* The initial state has no mapping and an empty TLB.                      *)
LEMMA PagedirInit == Init => PagedirInv
<1> SUFFICES ASSUME Init PROVE PagedirInv
  OBVIOUS
<1>1. Unmapped \in Entry
  BY DEF Unmapped, Entry
<1>2. PagedirType
  BY <1>1 DEF Init, PagedirType
<1>3. EntriesOK
  BY DEF Init, Unmapped, EntriesOK
<1>4. TLBMatches /\ BitsExact
  BY DEF Init, Unmapped, TLBMatches, BitsExact
<1>5. QED
  BY <1>2, <1>3, <1>4 DEF PagedirInv

(* pagedir_activate().                                                     *)
LEMMA ActivateStep ==
  ASSUME PagedirInv, NEW d \in Pd \cup {base_page_dir}, pagedir_activate(d)
  PROVE  PagedirInv'
BY DEF PagedirInv, PagedirType, EntriesOK, TLBMatches, BitsExact, pagedir_activate,
   Found, pagedir_is_dirty, pagedir_is_accessed

(* pagedir_clear_page().                                                   *)
LEMMA ClearStep ==
  ASSUME PagedirInv, NEW d \in Pd, NEW u \in UPage,
         pagedir_clear_page(d, u)
  PROVE  PagedirInv'
<1> DEFINE n == [pte[d][u] EXCEPT !.P = FALSE]
<1>1. /\ Found(d, u) /\ UNCHANGED <<tables, cr3>>
      /\ TLB' = TLB \/ TLB' = {}
      /\ cr3 = d => TLB' = {}
      /\ written' = written
      /\ read' = read
  BY DEF pagedir_clear_page, invalidate_pagedir
<1>2. pte[d][u] \in Entry
  BY DEF PagedirInv, PagedirType
<1>3. n \in Entry /\ n.P = FALSE /\ n.A = pte[d][u].A /\ n.D = pte[d][u].D /\ n.page = pte[d][u].page
  BY <1>2, EntryBits DEF Entry
<1>4. pte' = [pte EXCEPT ![d][u] = n]
  BY DEF pagedir_clear_page
<1> HIDE DEF n
<1>5. /\ pte' \in [Pd -> [UPage -> Entry]] /\ pte'[d][u] = n
      /\ \A x \in Pd, y \in UPage : <<x, y>> # <<d, u>> => pte'[x][y] = pte[x][y]
  BY <1>3, <1>4, OneEntry DEF PagedirInv, PagedirType
<1>6. PagedirType'
  BY <1>1, <1>5 DEF PagedirInv, PagedirType
<1>7. EntriesOK'
  BY <1>1, <1>3, <1>5 DEF PagedirInv, PagedirType, EntriesOK, Cached, Found, TLBMatches
<1>8. TLBMatches'
  BY <1>1, <1>3, <1>5 DEF PagedirInv, PagedirType, Cached, TLBMatches
<1>9. BitsExact'
  BY <1>1, <1>3, <1>5 DEF PagedirInv, BitsExact, Found, pagedir_is_dirty, pagedir_is_accessed
<1>10. QED
  BY <1>6, <1>7, <1>8, <1>9 DEF PagedirInv

(* pagedir_set_dirty().                                                    *)
LEMMA DirtyStep ==
  ASSUME PagedirInv, NEW d \in Pd, NEW u \in UPage, NEW b \in BOOLEAN,
         pagedir_set_dirty(d, u, b)
  PROVE  PagedirInv'
<1> DEFINE n == [pte[d][u] EXCEPT !.D = b]
<1>1. /\ Found(d, u) /\ UNCHANGED <<tables, cr3>>
      /\ TLB' = TLB \/ TLB' = {}
      /\ cr3 = d /\ ~b => TLB' = {}
      /\ written' = IF b THEN written \cup {<<d, u>>} ELSE written \ {<<d, u>>}
      /\ read' = read
  BY DEF pagedir_set_dirty, invalidate_pagedir
<1>2. pte[d][u] \in Entry
  BY DEF PagedirInv, PagedirType
<1>3. n \in Entry /\ n.D = b /\ n.P = pte[d][u].P /\ n.A = pte[d][u].A /\ n.page = pte[d][u].page
  BY <1>2, EntryBits DEF Entry
<1>4. pte' = [pte EXCEPT ![d][u] = n]
  BY DEF pagedir_set_dirty
<1> HIDE DEF n
<1>5. /\ pte' \in [Pd -> [UPage -> Entry]] /\ pte'[d][u] = n
      /\ \A x \in Pd, y \in UPage : <<x, y>> # <<d, u>> => pte'[x][y] = pte[x][y]
  BY <1>3, <1>4, OneEntry DEF PagedirInv, PagedirType
<1>6. PagedirType'
  BY <1>1, <1>5 DEF PagedirInv, PagedirType
<1>7. EntriesOK'
  BY <1>1, <1>3, <1>5 DEF PagedirInv, PagedirType, EntriesOK, Cached, Found, TLBMatches
<1>8. TLBMatches'
  BY <1>1, <1>3, <1>5 DEF PagedirInv, PagedirType, Cached, TLBMatches
<1>9. BitsExact'
  BY <1>1, <1>3, <1>5 DEF PagedirInv, BitsExact, Found, pagedir_is_dirty, pagedir_is_accessed
<1>10. QED
  BY <1>6, <1>7, <1>8, <1>9 DEF PagedirInv

(* pagedir_set_accessed().                                                 *)
LEMMA AccessedStep ==
  ASSUME PagedirInv, NEW d \in Pd, NEW u \in UPage, NEW b \in BOOLEAN,
         pagedir_set_accessed(d, u, b)
  PROVE  PagedirInv'
<1> DEFINE n == [pte[d][u] EXCEPT !.A = b]
<1>1. /\ Found(d, u) /\ UNCHANGED <<tables, cr3>>
      /\ TLB' = TLB \/ TLB' = {}
      /\ cr3 = d /\ ~b => TLB' = {}
      /\ written' = written
      /\ read' = IF b THEN read \cup {<<d, u>>} ELSE read \ {<<d, u>>}
  BY DEF pagedir_set_accessed, invalidate_pagedir
<1>2. pte[d][u] \in Entry
  BY DEF PagedirInv, PagedirType
<1>3. n \in Entry /\ n.A = b /\ n.P = pte[d][u].P /\ n.D = pte[d][u].D /\ n.page = pte[d][u].page
  BY <1>2, EntryBits DEF Entry
<1>4. pte' = [pte EXCEPT ![d][u] = n]
  BY DEF pagedir_set_accessed
<1> HIDE DEF n
<1>5. /\ pte' \in [Pd -> [UPage -> Entry]] /\ pte'[d][u] = n
      /\ \A x \in Pd, y \in UPage : <<x, y>> # <<d, u>> => pte'[x][y] = pte[x][y]
  BY <1>3, <1>4, OneEntry DEF PagedirInv, PagedirType
<1>6. PagedirType'
  BY <1>1, <1>5 DEF PagedirInv, PagedirType
<1>7. EntriesOK'
  BY <1>1, <1>3, <1>5 DEF PagedirInv, PagedirType, EntriesOK, Cached, Found, TLBMatches
<1>8. TLBMatches'
  BY <1>1, <1>3, <1>5 DEF PagedirInv, PagedirType, Cached, TLBMatches
<1>9. BitsExact'
  BY <1>1, <1>3, <1>5 DEF PagedirInv, BitsExact, Found, pagedir_is_dirty, pagedir_is_accessed
<1>10. QED
  BY <1>6, <1>7, <1>8, <1>9 DEF PagedirInv

(* pagedir_set_page() that has, or gets, a page table.                     *)
LEMMA MappedStep ==
  ASSUME PagedirInv, NEW d \in Pd, NEW u \in UPage, NEW k \in KPage,
         NEW mem \in BOOLEAN, pagedir_set_page(d, u, k, mem), Found(d, u) \/ mem
  PROVE  PagedirInv'
<1> DEFINE n == [P |-> TRUE, A |-> FALSE, D |-> FALSE, page |-> k]
<1>1. /\ ~pte[d][u].P
      /\ pte' = [pte EXCEPT ![d][u] = n]
      /\ written' = written \ {<<d, u>>}
      /\ read' = read \ {<<d, u>>}
      /\ cr3' = cr3 /\ TLB' = TLB
  BY Zenon DEF pagedir_set_page
<1>2. /\ tables' \in [Pd -> SUBSET {TableOf[v] : v \in UPage}]
      /\ \A c \in Pd : tables[c] \subseteq tables'[c]
      /\ \A c \in Pd : c # d => tables'[c] = tables[c]
      /\ tables'[d] = tables[d] \cup {TableOf[u]}
  BY DEF PagedirInv, PagedirType, pagedir_set_page, Found
<1>3. n \in Entry /\ n.P = TRUE /\ n.A = FALSE /\ n.D = FALSE
  BY DEF Entry
<1> HIDE DEF n
<1>4. /\ pte' \in [Pd -> [UPage -> Entry]] /\ pte'[d][u] = n
      /\ \A x \in Pd, y \in UPage : <<x, y>> # <<d, u>> => pte'[x][y] = pte[x][y]
  BY <1>1, <1>3, OneEntry DEF PagedirInv, PagedirType
<1>5. PagedirType'
  BY <1>1, <1>2, <1>4 DEF PagedirInv, PagedirType
<1>6. ASSUME NEW e \in TLB
      PROVE  pte'[cr3][e.u] = pte[cr3][e.u]
  <2>1. e.u \in UPage /\ cr3 \in Pd /\ pte[cr3][e.u].P
    BY DEF PagedirInv, PagedirType, Cached, TLBMatches
  <2>2. QED
    BY <1>1, <1>4, <2>1
<1>7. EntriesOK'
  BY <1>1, <1>2, <1>4, <1>6 DEF PagedirInv, EntriesOK, Found
<1>8. TLBMatches'
  BY <1>1, <1>6 DEF PagedirInv, TLBMatches
<1>9. BitsExact'
  <2> SUFFICES ASSUME NEW x \in Pd, NEW y \in UPage, pte'[x][y].P
               PROVE  /\ pagedir_is_dirty(x, y)' <=> <<x, y>> \in written'
                      /\ pagedir_is_accessed(x, y)' <=> <<x, y>> \in read'
    BY DEF BitsExact
  <2>1. CASE <<x, y>> = <<d, u>>
    BY <1>1, <1>3, <1>4, <2>1 DEF pagedir_is_dirty, pagedir_is_accessed
  <2>2. CASE <<x, y>> # <<d, u>>
    <3>1. pte'[x][y] = pte[x][y] /\ Found(x, y) /\ Found(x, y)'
      BY <1>2, <1>4, <2>2 DEF PagedirInv, PagedirType, Entry, EntriesOK, Found
    <3>2. QED
      BY <1>1, <2>2, <3>1 DEF PagedirInv, BitsExact, pagedir_is_dirty, pagedir_is_accessed
  <2>3. QED
    BY <2>1, <2>2
<1>10. QED
  BY <1>5, <1>7, <1>8, <1>9 DEF PagedirInv

(* pagedir_set_page() that gets none.                                      *)
LEMMA FailedStep ==
  ASSUME PagedirInv, NEW d \in Pd, NEW u \in UPage, NEW k \in KPage,
         NEW mem \in BOOLEAN, pagedir_set_page(d, u, k, mem), ~(Found(d, u) \/ mem)
  PROVE  PagedirInv'
<1>1. UNCHANGED <<pte, written, read, cr3, TLB>>
  BY Zenon DEF pagedir_set_page
<1>2. tables' = tables
  BY DEF PagedirInv, PagedirType, pagedir_set_page, Found
<1>3. QED
  BY <1>1, <1>2 DEF PagedirInv, PagedirType, EntriesOK, TLBMatches, BitsExact, Found,
     pagedir_is_dirty, pagedir_is_accessed

(* An access that hits the TLB.                                            *)
LEMMA HitStep ==
  ASSUME PagedirInv, NEW u \in UPage, NEW w \in BOOLEAN, Access(u, w),
         \E e \in TLB : e.u = u /\ (w => e.D)
  PROVE  PagedirInv'
<1>1. /\ cr3 \in Pd
      /\ UNCHANGED <<pte, TLB, tables, cr3>>
      /\ read' = read \cup {<<cr3, u>>}
      /\ written' = IF w THEN written \cup {<<cr3, u>>} ELSE written
  BY Zenon DEF Access
<1>2. PagedirType' /\ EntriesOK' /\ TLBMatches'
  BY <1>1 DEF PagedirInv, PagedirType, EntriesOK, TLBMatches, Found
<1>3. PICK e \in TLB : e.u = u /\ (w => e.D)
  OBVIOUS
<1>4. pte[cr3][u].A = TRUE /\ (w => pte[cr3][u].D)
  BY <1>3 DEF PagedirInv, EntriesOK, TLBMatches
<1>5. pte[cr3][u].P => Found(cr3, u)
  BY <1>1 DEF PagedirInv, PagedirType, Entry, EntriesOK
<1>6. BitsExact'
  BY <1>1, <1>4, <1>5 DEF PagedirInv, BitsExact, Found, pagedir_is_dirty, pagedir_is_accessed
<1>7. QED
  BY <1>2, <1>6 DEF PagedirInv

(* An access that misses: the entry is fetched, marked and cached.         *)
LEMMA MissStep ==
  ASSUME PagedirInv, NEW u \in UPage, NEW w \in BOOLEAN, Access(u, w),
         ~(\E e \in TLB : e.u = u /\ (w => e.D))
  PROVE  PagedirInv'
<1> DEFINE o == pte[cr3][u]
           n == [o EXCEPT !.A = TRUE, !.D = @ \/ w]
           c == [u |-> u, page |-> o.page, D |-> o.D \/ w]
<1>1. /\ cr3 \in Pd
      /\ Found(cr3, u) /\ o.P
      /\ pte' = [pte EXCEPT ![cr3][u].A = TRUE, ![cr3][u].D = @ \/ w]
      /\ TLB' = {x \in TLB : x.u # u} \cup {c}
      /\ UNCHANGED <<tables, cr3>>
      /\ read' = read \cup {<<cr3, u>>}
      /\ written' = IF w THEN written \cup {<<cr3, u>>} ELSE written
  BY Zenon DEF Access
<1>2. o \in Entry
  BY <1>1 DEF PagedirInv, PagedirType
<1>3. /\ n \in Entry /\ n.P = o.P /\ n.page = o.page /\ n.A = TRUE /\ (n.D <=> o.D \/ w)
      /\ c \in Cached /\ c.u = u /\ c.page = o.page /\ (c.D <=> o.D \/ w)
  BY <1>2 DEF Entry, Cached
<1>4. pte' = [pte EXCEPT ![cr3][u] = n]
  BY <1>1, <1>2 DEF PagedirInv, PagedirType, Entry
<1>5. /\ cr3 \in Pd /\ cr3' = cr3 /\ tables' = tables /\ o.P /\ Found(cr3, u)
      /\ TLB' = {x \in TLB : x.u # u} \cup {c}
      /\ read' = read \cup {<<cr3, u>>}
      /\ written' = IF w THEN written \cup {<<cr3, u>>} ELSE written
  BY <1>1
<1> HIDE DEF n, c
<1>6. /\ pte' \in [Pd -> [UPage -> Entry]] /\ pte'[cr3][u] = n
      /\ \A x \in Pd, y \in UPage : <<x, y>> # <<cr3, u>> => pte'[x][y] = pte[x][y]
  <2>1. cr3 \in Pd /\ pte \in [Pd -> [UPage -> Entry]] /\ n \in Entry
    BY <1>3, <1>5 DEF PagedirInv, PagedirType
  <2>2. QED
    BY <1>4, <2>1, OneEntry
<1>7. PagedirType'
  BY <1>3, <1>5, <1>6 DEF PagedirInv, PagedirType
<1>8. \A x \in TLB' : x = c \/ (x \in TLB /\ pte'[cr3][x.u] = pte[cr3][x.u])
  BY <1>5, <1>6 DEF PagedirInv, PagedirType, Cached
<1>9. EntriesOK'
  BY <1>3, <1>5, <1>6, <1>8 DEF PagedirInv, EntriesOK, Found
<1>10. TLBMatches'
  <2> SUFFICES ASSUME NEW x \in TLB'
               PROVE  /\ pte'[cr3][x.u].P /\ pte'[cr3][x.u].page = x.page
                      /\ x.D => pte'[cr3][x.u].D
    BY <1>5 DEF TLBMatches
  <2>1. CASE x = c
    <3>1. pte'[cr3][x.u] = n /\ n.P /\ n.page = x.page
      BY <1>3, <1>5, <1>6, <2>1
    <3>2. x.D => n.D
      BY <1>3, <2>1
    <3>3. QED
      BY <3>1, <3>2
  <2>2. CASE x \in TLB /\ pte'[cr3][x.u] = pte[cr3][x.u]
    BY <2>2 DEF PagedirInv, TLBMatches
  <2>3. QED
    BY <1>8, <2>1, <2>2
<1>11. BitsExact'
  <2> SUFFICES ASSUME NEW x \in Pd, NEW y \in UPage, pte'[x][y].P
               PROVE  /\ pagedir_is_dirty(x, y)' <=> <<x, y>> \in written'
                      /\ pagedir_is_accessed(x, y)' <=> <<x, y>> \in read'
    BY DEF BitsExact
  <2>1. Found(x, y)' <=> Found(x, y)
    BY <1>5 DEF Found
  <2>2. CASE <<x, y>> = <<cr3, u>>
    <3>1. o.D <=> <<cr3, u>> \in written
      BY <1>5 DEF PagedirInv, BitsExact, pagedir_is_dirty
    <3>2. QED
      BY <1>3, <1>5, <1>6, <2>1, <2>2, <3>1 DEF pagedir_is_dirty, pagedir_is_accessed
  <2>3. CASE <<x, y>> # <<cr3, u>>
    BY <1>5, <1>6, <2>1, <2>3 DEF PagedirInv, BitsExact, pagedir_is_dirty, pagedir_is_accessed
  <2>4. QED
    BY <2>2, <2>3
<1>12. QED
  BY <1>7, <1>9, <1>10, <1>11 DEF PagedirInv

(* Every step preserves the invariant.                                     *)
LEMMA PagedirStep == PagedirInv /\ [Next]_vars => PagedirInv'
<1> SUFFICES ASSUME PagedirInv, [Next]_vars PROVE PagedirInv'
  OBVIOUS
<1>1. CASE \E d \in Pd \cup {base_page_dir} : pagedir_activate(d)
  BY <1>1, ActivateStep
<1>2. CASE \E d \in Pd, u \in UPage, k \in KPage, mem \in BOOLEAN :
             pagedir_set_page(d, u, k, mem)
  BY <1>2, MappedStep, FailedStep
<1>3. CASE \E d \in Pd, u \in UPage : pagedir_clear_page(d, u)
  BY <1>3, ClearStep
<1>4. CASE \E d \in Pd, u \in UPage, b \in BOOLEAN :
             pagedir_set_dirty(d, u, b) \/ pagedir_set_accessed(d, u, b)
  BY <1>4, DirtyStep, AccessedStep
<1>5. CASE \E u \in UPage, w \in BOOLEAN : Access(u, w)
  BY <1>5, HitStep, MissStep
<1>6. CASE UNCHANGED vars
  BY <1>6 DEF vars, PagedirInv, PagedirType, EntriesOK, TLBMatches, BitsExact, Found,
     pagedir_is_dirty, pagedir_is_accessed
<1>7. QED
  BY <1>1, <1>2, <1>3, <1>4, <1>5, <1>6 DEF Next

(* The processor never uses a translation that the active directory does   *)
(* not have, and the dirty and accessed bits record every write and access *)
(* since they were cleared, whatever the directories, pages and frames.    *)
THEOREM TLBStaysCoherent == Spec => []TLBCoherent
<1>1. PagedirInv => TLBCoherent
  BY DEF PagedirInv, TLBMatches, BitsExact, TLBCoherent
<1>2. QED
  BY <1>1, PagedirInit, PagedirStep, PTL DEF Spec
=============================================================================
