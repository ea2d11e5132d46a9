---------------------------- MODULE PallocProofs ----------------------------
(***************************************************************************)
(* Proofs about Palloc, for any number of threads and pages.               *)
(***************************************************************************)
EXTENDS Palloc, TLAPS

(* The calls that hold the pool's lock.                                    *)
Locked == {"scan", "flip", "found", "failed"}

(* The locals of a call make sense: its loop index is within its group,    *)
(* and a group that has been found lies in the pool.                       *)
ArgsOK ==
  \A t \in Thread :
     /\ pc[t] \in Locked => holder = t
     /\ pc[t] # "idle" => page_cnt[t] >= 1
     /\ pc[t] \in {"scan", "flip", "check", "clear"} => i[t] < page_cnt[t]
     /\ pc[t] \in {"flip", "found", "check", "clear"} =>
           page_idx[t] + page_cnt[t] <= PageCnt

(* The bits agree with who holds what.  The bits a scan has seen clear     *)
(* stay clear, because only the lock's holder sets bits.                   *)
BitsOK ==
  /\ \A b \in blocks : b[1] + b[2] <= PageCnt /\ Owned(b) \subseteq used_map
  /\ \A t \in Thread :
        /\ pc[t] = "scan" => \A p \in Group(page_idx[t], i[t]) : p \notin used_map
        /\ pc[t] = "flip" => Group(page_idx[t], i[t]) \subseteq used_map
        /\ pc[t] \in {"found", "check", "clear"} => Claim(t) \subseteq used_map

(* Every set bit is accounted for.                                         *)
NoStrayBit ==
  \A p \in used_map : (\E b \in blocks : p \in Owned(b)) \/ (\E t \in Thread : p \in Claim(t))

(* The inductive invariant.  NoPageTwice alone is not inductive: that a    *)
(* group just scanned is nobody else's follows from its bits being clear   *)
(* and everybody else's being set.                                         *)
PoolInv == TypeOK /\ NoPanic /\ ArgsOK /\ BitsOK /\ NoPageTwice /\ NoStrayBit

(* What a thread claims, label by label.                                   *)
LEMMA ClaimOf ==
  ASSUME NEW t \in Thread
  PROVE  /\ pc[t] \in {"flip", "found", "check"} => Claim(t) = Group(page_idx[t], page_cnt[t])
         /\ pc[t] = "clear" => Claim(t) = Group(page_idx[t] + i[t], page_cnt[t] - i[t])
         /\ pc[t] \in {"idle", "lock", "scan", "failed"} => Claim(t) = {}
BY DEF Claim

(* A step of t leaves the claims of the other threads alone.               *)
LEMMA ClaimFrame ==
  ASSUME NEW u \in Thread,
         pc'[u] = pc[u], page_idx'[u] = page_idx[u],
         page_cnt'[u] = page_cnt[u], i'[u] = i[u]
  PROVE  Claim(u)' = Claim(u)
BY DEF Claim

(* The claim of a thread after the step that changed it.                   *)
LEMMA ClaimOfNext ==
  ASSUME NEW t \in Thread
  PROVE  /\ pc'[t] \in {"flip", "found", "check"} => Claim(t)' = Group(page_idx'[t], page_cnt'[t])
         /\ pc'[t] = "clear" => Claim(t)' = Group(page_idx'[t] + i'[t], page_cnt'[t] - i'[t])
         /\ pc'[t] \in {"idle", "lock", "scan", "failed"} => Claim(t)' = {}
BY DEF Claim

(* A group less its first page.                                            *)
LEMMA GroupTail ==
  ASSUME NEW x \in Nat, NEW n \in Nat, NEW k \in Nat, k < n
  PROVE  /\ x + k \in Group(x + k, n - k)
         /\ Group(x + (k + 1), n - (k + 1)) = Group(x + k, n - k) \ {x + k}
BY DEF Group

(* init_pool() establishes the invariant.                                  *)
LEMMA PoolInit == Init => PoolInv
<1> SUFFICES ASSUME Init PROVE PoolInv
  OBVIOUS
<1>1. TypeOK /\ NoPanic
  BY PallocAssumption DEF Init, TypeOK, NoPanic, Label
<1>2. \A t \in Thread : Claim(t) = {}
  BY ClaimOf DEF Init
<1>3. ArgsOK /\ BitsOK
  BY DEF Init, ArgsOK, BitsOK, Locked
<1>4. NoPageTwice /\ NoStrayBit
  BY <1>2 DEF Init, NoPageTwice, NoStrayBit
<1> QED BY <1>1, <1>3, <1>4 DEF PoolInv

(* A call of palloc_get_multiple() touches nothing shared.                 *)
LEMMA GetStep ==
  ASSUME PoolInv, NEW t \in Thread, NEW n \in 1 .. MaxCnt, palloc_get_multiple(t, n)
  PROVE  PoolInv'
<1> USE PallocAssumption DEF PoolInv, palloc_get_multiple, At, Goto
<1>1. TypeOK'
  BY DEF TypeOK, Label
<1>2. \A u \in Thread : Claim(u)' = Claim(u)
  BY ClaimFrame, ClaimOf, ClaimOfNext DEF TypeOK
<1>3. ArgsOK' /\ NoPanic'
  BY DEF ArgsOK, TypeOK, Locked, NoPanic
<1>4. BitsOK' /\ NoPageTwice' /\ NoStrayBit'
  BY <1>2 DEF BitsOK, NoPageTwice, NoStrayBit, TypeOK, Owned, Group
<1> QED BY <1>1, <1>3, <1>4

(* Nobody holds the lock when it is taken.                                 *)
LEMMA LockStep ==
  ASSUME PoolInv, NEW t \in Thread, get_lock(t)
  PROVE  PoolInv'
<1> USE PallocAssumption DEF PoolInv, get_lock, At, Goto
<1>1. TypeOK'
  BY DEF TypeOK, Label
<1>2. \A u \in Thread : Claim(u)' = Claim(u)
  BY ClaimFrame, ClaimOf, ClaimOfNext DEF TypeOK
<1>3. ArgsOK' /\ NoPanic'
  BY DEF ArgsOK, TypeOK, Locked, NoPanic
<1>4. BitsOK' /\ NoPageTwice' /\ NoStrayBit'
  BY <1>2 DEF BitsOK, NoPageTwice, NoStrayBit, TypeOK, Owned, Group
<1> QED BY <1>1, <1>3, <1>4

(* A scan extends or moves the group it has seen clear; when the group is  *)
(* complete it is disjoint from every other, since those have their bits   *)
(* set.                                                                    *)
LEMMA ScanStep ==
  ASSUME PoolInv, NEW t \in Thread, bitmap_scan(t)
  PROVE  PoolInv'
<1> USE PallocAssumption DEF PoolInv, bitmap_scan, At, Goto
<1>1. TypeOK'
  BY DEF TypeOK, Label
<1>2. \A u \in Thread \ {t} : Claim(u)' = Claim(u) /\ Claim(u) \subseteq used_map
  BY ClaimFrame, ClaimOf DEF TypeOK, ArgsOK, BitsOK, Locked, Label
<1>3. ArgsOK' /\ NoPanic'
  BY DEF ArgsOK, TypeOK, Locked, NoPanic
<1>4. pc'[t] = "scan" => \A p \in Group(page_idx'[t], i'[t]) : p \notin used_map
  BY DEF TypeOK, BitsOK, ArgsOK, Group
<1>5. pc'[t] \in {"scan", "flip"} /\ i'[t] \in Nat /\ (pc'[t] = "flip" => i'[t] = 0)
  BY DEF TypeOK
<1>6. \A p \in Claim(t)' : p \notin used_map
  <2>1. CASE pc'[t] = "scan"
    BY <2>1, ClaimOfNext
  <2>2. CASE pc'[t] = "flip"
    <3>1. Claim(t)' = Group(page_idx[t], page_cnt[t])
      BY <2>2, ClaimOfNext DEF TypeOK
    <3>2. i[t] + 1 = page_cnt[t] /\ page_idx[t] + i[t] \notin used_map
      BY <2>2 DEF TypeOK
    <3>3. page_idx[t] \in Nat /\ i[t] \in Nat
      BY DEF TypeOK
    <3>4. \A p \in Group(page_idx[t], i[t]) : p \notin used_map
      BY DEF BitsOK
    <3>5. \A p \in Group(page_idx[t], page_cnt[t]) :
            p \in Group(page_idx[t], i[t]) \/ p = page_idx[t] + i[t]
      BY <3>2, <3>3 DEF Group
    <3> QED BY <3>1, <3>2, <3>4, <3>5
  <2> QED BY <1>5, <2>1, <2>2
<1>7. Claim(t) = {}
  BY ClaimOf
<1>8. BitsOK'
  BY <1>2, <1>4, <1>5 DEF BitsOK, TypeOK, Owned, Group
<1>9. NoPageTwice'
  <2>1. NoPageTwice /\ blocks' = blocks /\ \A b \in blocks : Owned(b) \subseteq used_map
    BY DEF BitsOK
  <2> HIDE DEF PoolInv, bitmap_scan, At, Goto
  <2>2. \A u \in Thread, b \in blocks : Claim(u)' \cap Owned(b) = {}
    BY <1>2, <1>6, <2>1 DEF NoPageTwice
  <2>3. \A u, v \in Thread : u # v => Claim(u)' \cap Claim(v)' = {}
    BY <1>2, <1>6, <2>1 DEF NoPageTwice
  <2> QED BY <2>1, <2>2, <2>3 DEF NoPageTwice, Owned
<1>10. NoStrayBit'
  BY <1>2, <1>7 DEF NoStrayBit, Owned
<1> QED BY <1>1, <1>3, <1>8, <1>9, <1>10

(* A scan that fails, the second exit of bitmap_scan().                    *)
LEMMA FailStep ==
  ASSUME PoolInv, NEW t \in Thread, scan_failed(t)
  PROVE  PoolInv'
<1> USE PallocAssumption DEF PoolInv, scan_failed, At, Goto
<1>1. TypeOK'
  BY DEF TypeOK, Label
<1>2. \A u \in Thread : Claim(u)' = Claim(u)
  BY ClaimFrame, ClaimOf, ClaimOfNext DEF TypeOK
<1>3. ArgsOK' /\ NoPanic'
  BY DEF ArgsOK, TypeOK, Locked, NoPanic
<1>4. BitsOK' /\ NoPageTwice' /\ NoStrayBit'
  BY <1>2 DEF BitsOK, NoPageTwice, NoStrayBit, TypeOK, Owned, Group
<1> QED BY <1>1, <1>3, <1>4

(* Setting a bit of t's own group: no other thread is scanning.            *)
LEMMA MarkStep ==
  ASSUME PoolInv, NEW t \in Thread, bitmap_mark(t)
  PROVE  PoolInv'
<1> USE PallocAssumption DEF PoolInv, bitmap_mark, At, Goto
<1>0. page_idx[t] + i[t] \in Page
  BY DEF TypeOK, ArgsOK, Page
<1>1. TypeOK'
  BY <1>0 DEF TypeOK, Label
<1>2. \A u \in Thread : Claim(u)' = Claim(u)
  BY ClaimFrame, ClaimOf, ClaimOfNext DEF TypeOK
<1>3. ArgsOK' /\ NoPanic'
  BY DEF ArgsOK, TypeOK, Locked, NoPanic
<1>4. page_idx[t] + i[t] \in Claim(t)
  BY ClaimOf DEF ArgsOK, TypeOK, Group
<1>5. \A u \in Thread \ {t} : pc[u] \notin Locked
  BY DEF ArgsOK, Locked
<1>6. Group(page_idx[t], i[t] + 1) \subseteq used_map'
  BY DEF BitsOK, TypeOK, Group
<1>7. BitsOK'
  <2>1. \A b \in blocks' : b[1] + b[2] <= PageCnt /\ Owned(b) \subseteq used_map'
    BY DEF BitsOK
  <2>2. ASSUME NEW u \in Thread \ {t}
        PROVE  /\ pc'[u] \notin {"scan", "flip", "found"}
               /\ pc'[u] \in {"check", "clear"} => Claim(u)' \subseteq used_map'
    BY <1>2, <1>5 DEF BitsOK, TypeOK, Locked
  <2>3. pc'[t] = "flip" => Group(page_idx'[t], i'[t]) \subseteq used_map'
    BY <1>6 DEF TypeOK
  <2>4. pc'[t] = "found" => Claim(t)' \subseteq used_map'
    BY <1>6, ClaimOfNext DEF TypeOK
  <2> QED BY <2>1, <2>2, <2>3, <2>4 DEF BitsOK, TypeOK, Owned
<1>8. NoPageTwice' /\ NoStrayBit'
  BY <1>2, <1>4 DEF NoPageTwice, NoStrayBit, Owned
<1> QED BY <1>1, <1>3, <1>7, <1>8

(* The group passes from the allocator to the caller.                      *)
LEMMA ReturnStep ==
  ASSUME PoolInv, NEW t \in Thread, get_return(t)
  PROVE  PoolInv'
<1> USE PallocAssumption DEF PoolInv, get_return, At, Goto, Return
<1>1. TypeOK'
  BY DEF TypeOK, Label, ArgsOK
<1>2. \A u \in Thread \ {t} : Claim(u)' = Claim(u)
  BY ClaimFrame DEF TypeOK
<1>3. Claim(t)' = {}
  BY ClaimOfNext DEF TypeOK
<1>4. ArgsOK' /\ NoPanic'
  BY DEF ArgsOK, TypeOK, Locked, NoPanic
<1>5. pc[t] = "found" =>
        /\ Owned(<<page_idx[t], page_cnt[t]>>) = Claim(t)
        /\ Claim(t) \subseteq used_map
        /\ page_idx[t] + page_cnt[t] <= PageCnt
  BY ClaimOf DEF Owned, BitsOK, ArgsOK
<1>6. pc[t] = "failed" => Claim(t) = {}
  BY ClaimOf
<1>7. BitsOK'
  BY <1>2, <1>3, <1>5 DEF BitsOK, TypeOK, Owned
<1>8. NoPageTwice'
  <2> DEFINE new == <<page_idx[t], page_cnt[t]>>
  <2>1. \A b \in blocks' : b \in blocks \/ (pc[t] = "found" /\ b = new)
    OBVIOUS
  <2>2. NoPageTwice /\ (pc[t] = "found" => Owned(new) = Claim(t))
    BY <1>5
  <2> HIDE DEF new, PoolInv, get_return, At, Goto, Return
  <2>3. \A b \in blocks : pc[t] = "found" => Owned(new) \cap Owned(b) = {}
    BY <2>2 DEF NoPageTwice
  <2>4. \A b, c \in blocks' : b # c => Owned(b) \cap Owned(c) = {}
    BY <2>1, <2>2, <2>3 DEF NoPageTwice
  <2>5. \A u \in Thread \ {t}, b \in blocks' : Claim(u) \cap Owned(b) = {}
    BY <2>1, <2>2 DEF NoPageTwice
  <2>6. \A u \in Thread, b \in blocks' : Claim(u)' \cap Owned(b) = {}
    BY <1>2, <1>3, <2>5
  <2>7. \A u, v \in Thread : u # v => Claim(u)' \cap Claim(v)' = {}
    BY <1>2, <1>3, <2>2 DEF NoPageTwice
  <2> QED BY <2>4, <2>6, <2>7 DEF NoPageTwice, Owned
<1>9. NoStrayBit'
  BY <1>2, <1>3, <1>5, <1>6 DEF NoStrayBit, Owned
<1> QED BY <1>1, <1>4, <1>7, <1>8, <1>9

(* The group passes from its owner to the thread that frees it.            *)
LEMMA FreeStep ==
  ASSUME PoolInv, NEW t \in Thread, NEW b \in blocks, palloc_free_multiple(t, b)
  PROVE  PoolInv'
<1> USE PallocAssumption DEF PoolInv, palloc_free_multiple, At, Goto
<1>1. TypeOK'
  BY DEF TypeOK, Label
<1>2. \A u \in Thread \ {t} : Claim(u)' = Claim(u)
  BY ClaimFrame DEF TypeOK
<1>3. Claim(t)' = Owned(b)
  BY ClaimOfNext DEF TypeOK, Owned
<1>4. Claim(t) = {}
  BY ClaimOf
<1>5. ArgsOK' /\ NoPanic'
  BY DEF ArgsOK, TypeOK, Locked, NoPanic, BitsOK
<1>6. BitsOK'
  BY <1>2, <1>3 DEF BitsOK, TypeOK, Owned
<1>7. NoPageTwice'
  <2>1. NoPageTwice /\ \A c \in blocks' : c \in blocks /\ c # b
    OBVIOUS
  <2> HIDE DEF PoolInv, palloc_free_multiple, At, Goto
  <2>2. \A c, d \in blocks' : c # d => Owned(c) \cap Owned(d) = {}
    BY <2>1 DEF NoPageTwice
  <2>3. \A u \in Thread, c \in blocks' : Claim(u)' \cap Owned(c) = {}
    BY <1>2, <1>3, <2>1 DEF NoPageTwice
  <2>4. \A u, v \in Thread : u # v => Claim(u)' \cap Claim(v)' = {}
    BY <1>2, <1>3, <2>1 DEF NoPageTwice
  <2> QED BY <2>2, <2>3, <2>4 DEF NoPageTwice, Owned
<1>8. NoStrayBit'
  BY <1>2, <1>3, <1>4 DEF NoStrayBit, Owned
<1> QED BY <1>1, <1>5, <1>6, <1>7, <1>8

(* The ASSERT holds: the bits of a group being freed are still set.        *)
LEMMA CheckStep ==
  ASSUME PoolInv, NEW t \in Thread, bitmap_all(t)
  PROVE  PoolInv'
<1> USE PallocAssumption DEF PoolInv, bitmap_all, At, Goto
<1>0. page_idx[t] + i[t] \in used_map
  BY ClaimOf DEF BitsOK, ArgsOK, TypeOK, Group
<1>1. TypeOK'
  BY <1>0 DEF TypeOK, Label
<1>2. \A u \in Thread \ {t} : Claim(u)' = Claim(u)
  BY ClaimFrame DEF TypeOK
<1>3. Claim(t)' = Claim(t)
  BY ClaimOf, ClaimOfNext DEF TypeOK
<1>4. ArgsOK' /\ NoPanic'
  BY <1>0 DEF ArgsOK, TypeOK, Locked, NoPanic
<1>5. pc'[t] \in {"check", "clear"} /\ Claim(t) \subseteq used_map
  BY DEF BitsOK, TypeOK
<1>6. BitsOK'
  BY <1>2, <1>3, <1>5 DEF BitsOK, TypeOK, Owned
<1>7. NoPageTwice' /\ NoStrayBit'
  BY <1>2, <1>3 DEF NoPageTwice, NoStrayBit, Owned
<1> QED BY <1>1, <1>4, <1>6, <1>7

(* Clearing a bit gives up the claim to one page and no other.             *)
LEMMA ResetStep ==
  ASSUME PoolInv, NEW t \in Thread, bitmap_reset(t)
  PROVE  PoolInv'
<1> USE PallocAssumption DEF PoolInv, bitmap_reset, At, Goto, Return
<1>1. TypeOK'
  BY DEF TypeOK, Label
<1>2. \A u \in Thread \ {t} : Claim(u)' = Claim(u)
  BY ClaimFrame DEF TypeOK
<1>3. Claim(t)' = Claim(t) \ {page_idx[t] + i[t]} /\ page_idx[t] + i[t] \in Claim(t)
  <2>1. Claim(t) = Group(page_idx[t] + i[t], page_cnt[t] - i[t])
    BY ClaimOf
  <2>t. page_idx[t] \in Nat /\ i[t] \in Nat /\ page_cnt[t] \in Nat /\ i[t] < page_cnt[t]
    BY DEF TypeOK, ArgsOK
  <2>2. CASE i[t] + 1 = page_cnt[t]
    <3>1. Claim(t)' = {}
      BY <2>2, ClaimOfNext DEF TypeOK
    <3>2. Group(page_idx[t] + i[t], page_cnt[t] - i[t]) = {page_idx[t] + i[t]}
      BY <2>2, <2>t DEF Group
    <3> QED BY <2>1, <3>1, <3>2
  <2>3. CASE i[t] + 1 # page_cnt[t]
    <3>1. Claim(t)' = Group(page_idx[t] + (i[t] + 1), page_cnt[t] - (i[t] + 1))
      BY <2>3, ClaimOfNext DEF TypeOK
    <3>2. /\ page_idx[t] + i[t] \in Group(page_idx[t] + i[t], page_cnt[t] - i[t])
          /\ Group(page_idx[t] + (i[t] + 1), page_cnt[t] - (i[t] + 1))
                = Group(page_idx[t] + i[t], page_cnt[t] - i[t]) \ {page_idx[t] + i[t]}
      BY ONLY <2>t, GroupTail
    <3> QED BY ONLY <2>1, <3>1, <3>2, Zenon
  <2> QED BY <2>2, <2>3
<1>4. ArgsOK' /\ NoPanic'
  BY DEF ArgsOK, TypeOK, Locked, NoPanic
<1>5. page_idx[t] + i[t] \notin UNION {Owned(b) : b \in blocks}
  BY <1>3 DEF NoPageTwice
<1>6. BitsOK'
  <2>1. \A b \in blocks' : b[1] + b[2] <= PageCnt /\ Owned(b)' \subseteq used_map'
    BY <1>5 DEF BitsOK, Owned
  <2>2. ASSUME NEW u \in Thread \ {t}
        PROVE  /\ pc'[u] = "scan" => \A p \in Group(page_idx'[u], i'[u]) : p \notin used_map'
               /\ pc'[u] = "flip" => Group(page_idx'[u], i'[u]) \subseteq used_map'
               /\ pc'[u] \in {"found", "check", "clear"} => Claim(u)' \subseteq used_map'
    <3>1. page_idx[t] + i[t] \notin Claim(u)
      BY <1>3 DEF NoPageTwice
    <3>2. pc[u] = "flip" => page_idx[t] + i[t] \notin Group(page_idx[u], i[u])
      <4> SUFFICES ASSUME pc[u] = "flip"
                   PROVE  Group(page_idx[u], i[u]) \subseteq Claim(u)
        BY <3>1
      <4>1. page_idx[u] \in Nat /\ i[u] \in Nat /\ page_cnt[u] \in Nat /\ i[u] < page_cnt[u]
        BY DEF TypeOK, ArgsOK
      <4>2. Claim(u) = Group(page_idx[u], page_cnt[u])
        BY ClaimOf
      <4> QED BY <4>1, <4>2 DEF Group
    <3> QED BY <1>2, <3>1, <3>2 DEF BitsOK, TypeOK
  <2>3. pc'[t] \in {"idle", "clear"} /\ Claim(t)' \subseteq used_map'
    BY <1>3 DEF BitsOK, TypeOK
  <2> QED BY <2>1, <2>2, <2>3 DEF BitsOK, Owned
<1>7. NoPageTwice' /\ NoStrayBit'
  BY <1>2, <1>3 DEF NoPageTwice, NoStrayBit, Owned
<1> QED BY <1>1, <1>4, <1>6, <1>7

(* Every step of every thread preserves the invariant.                     *)
LEMMA PoolStep == PoolInv /\ [Next]_vars => PoolInv'
<1> SUFFICES ASSUME PoolInv, [Next]_vars PROVE PoolInv'
  OBVIOUS
<1>1. CASE Next
  <2> PICK t \in Thread :
        \/ \E n \in 1 .. MaxCnt : palloc_get_multiple(t, n)
        \/ \E b \in blocks : palloc_free_multiple(t, b)
        \/ get_lock(t)
        \/ Continue(t)
    BY <1>1 DEF Next
  <2> QED BY GetStep, FreeStep, LockStep, ScanStep, FailStep, MarkStep,
             ReturnStep, CheckStep, ResetStep DEF Continue
<1>2. CASE UNCHANGED vars
  <2>1. \A t \in Thread : Claim(t)' = Claim(t)
    BY <1>2, ClaimFrame DEF vars
  <2>2. TypeOK' /\ NoPanic' /\ ArgsOK'
    BY <1>2 DEF vars, PoolInv, TypeOK, NoPanic, ArgsOK
  <2>3. BitsOK' /\ NoPageTwice' /\ NoStrayBit'
    BY <1>2, <2>1 DEF vars, PoolInv, BitsOK, NoPageTwice, NoStrayBit, Owned
  <2> QED BY <2>2, <2>3 DEF PoolInv
<1> QED BY <1>1, <1>2

(* The inductive invariant holds of every pool, whatever its size and      *)
(* however many threads call palloc_get_multiple() and                     *)
(* palloc_free_multiple().                                                 *)
THEOREM PoolInvariant == Spec => []PoolInv
BY PoolInit, PoolStep, PTL DEF Spec

(* For any number of threads and pages, no page of a pool is ever owned,   *)
(* or being allocated or freed, by two parties: palloc_free_multiple()     *)
(* needs no lock.                                                          *)
THEOREM PagesOwnedOnce == Spec => []NoPageTwice
<1>1. PoolInv => NoPageTwice
  BY DEF PoolInv
<1> QED BY PoolInvariant, <1>1, PTL

(* The ASSERT of palloc_free_multiple(), line 147, never fails when        *)
(* callers free only what they own.                                        *)
THEOREM FreeNeverPanics == Spec => []NoPanic
<1>1. PoolInv => NoPanic
  BY DEF PoolInv
<1> QED BY PoolInvariant, <1>1, PTL

(* No page leaks and no owned page looks free.                             *)
THEOREM BitmapIsExact == Spec => []UsedExact
<1>1. PoolInv => UsedExact
  <2> SUFFICES ASSUME PoolInv PROVE UsedExact
    OBVIOUS
  <2>1. \A b \in blocks : Owned(b) \subseteq used_map
    BY DEF PoolInv, BitsOK
  <2>2. \A p \in used_map :
          p \in UNION ({Owned(b) : b \in blocks} \cup {Claim(t) : t \in Thread})
    BY DEF PoolInv, NoStrayBit
  <2> QED BY <2>1, <2>2 DEF UsedExact
<1> QED BY PoolInvariant, <1>1, PTL

(* Type correctness: in particular bitmap_mark() and bitmap_reset() touch  *)
(* no bit outside the pool's bitmap.                                       *)
THEOREM PoolTypeCorrect == Spec => []TypeOK
<1>1. PoolInv => TypeOK
  BY DEF PoolInv
<1> QED BY PoolInvariant, <1>1, PTL
-----------------------------------------------------------------------------
(* What a scan has established so far: the pages that were free when it    *)
(* took the lock still are, since only the lock's holder sets bits, and no *)
(* group that starts below page_idx was all free then.                     *)
ScanComplete ==
  \A t \in Thread : pc[t] = "scan" =>
     /\ \A p \in snapshot[t] : p \notin used_map
     /\ \A p \in Nat : p < page_idx[t] => ~(Group(p, page_cnt[t]) \subseteq snapshot[t])

(* FailsOnlyWhenFull is not inductive without what the scan has seen.      *)
FullInv == ScanComplete /\ FailsOnlyWhenFull

(* A step that is not the scan's own does not make the scan forget.        *)
LEMMA ScanFrame ==
  ASSUME PoolInv, FullInv, NEW t \in Thread,
         \A u \in Thread \ {t} :
            /\ pc'[u] = pc[u] /\ page_idx'[u] = page_idx[u]
            /\ page_cnt'[u] = page_cnt[u] /\ snapshot'[u] = snapshot[u],
         used_map' \subseteq used_map \/ holder = t,
         pc'[t] \notin {"scan", "failed"}
  PROVE  FullInv'
<1>1. ASSUME NEW u \in Thread, pc'[u] = "scan"
      PROVE  /\ \A p \in snapshot'[u] : p \notin used_map'
             /\ \A p \in Nat : p < page_idx'[u] =>
                   ~(Group(p, page_cnt'[u]) \subseteq snapshot'[u])
  <2>1. u # t /\ pc[u] = "scan"
    BY <1>1
  <2>2. holder = u
    BY <2>1 DEF PoolInv, ArgsOK, Locked
  <2>3. used_map' \subseteq used_map
    BY <2>1, <2>2
  <2> QED BY <2>1, <2>3 DEF FullInv, ScanComplete
<1>2. ASSUME NEW u \in Thread, pc'[u] = "failed"
      PROVE  ~ \E p \in Page : Group(p, page_cnt'[u]) \subseteq snapshot'[u]
  BY <1>2 DEF FullInv, FailsOnlyWhenFull
<1> QED BY <1>1, <1>2 DEF FullInv, ScanComplete, FailsOnlyWhenFull, Page, Group

(* A set bit rules out the group that starts at page_idx; a clear one      *)
(* leaves page_idx where it is.                                            *)
LEMMA ScanProgress ==
  ASSUME PoolInv, FullInv, NEW t \in Thread, bitmap_scan(t)
  PROVE  FullInv'
<1> USE DEF bitmap_scan, At, Goto
<1>t. /\ page_idx[t] \in Nat /\ page_cnt[t] \in Nat /\ i[t] \in Nat
      /\ i[t] < page_cnt[t]
      /\ pc \in [Thread -> Label] /\ page_idx \in [Thread -> Nat]
  BY DEF PoolInv, TypeOK, ArgsOK
<1>1. ASSUME page_idx[t] + i[t] \in used_map
      PROVE  ~(Group(page_idx[t], page_cnt[t]) \subseteq snapshot[t])
  <2>1. page_idx[t] + i[t] \in Group(page_idx[t], page_cnt[t])
    BY <1>t DEF Group
  <2> QED BY <1>1, <2>1 DEF FullInv, ScanComplete
<1>2. ASSUME NEW p \in Nat, p < page_idx'[t]
      PROVE  ~(Group(p, page_cnt[t]) \subseteq snapshot[t])
  <2>1. p < page_idx[t] \/ (p = page_idx[t] /\ page_idx[t] + i[t] \in used_map)
    BY <1>t, <1>2
  <2> QED BY <1>1, <2>1 DEF FullInv, ScanComplete
<1>3. ASSUME NEW u \in Thread, pc'[u] = "scan"
      PROVE  /\ \A p \in snapshot'[u] : p \notin used_map'
             /\ \A p \in Nat : p < page_idx'[u] =>
                   ~(Group(p, page_cnt'[u]) \subseteq snapshot'[u])
  <2>1. CASE u = t
    BY <1>2, <2>1 DEF FullInv, ScanComplete
  <2>2. CASE u # t
    BY <1>3, <1>t, <2>2 DEF FullInv, ScanComplete
  <2> QED BY <2>1, <2>2
<1>4. ASSUME NEW u \in Thread, pc'[u] = "failed"
      PROVE  ~ \E p \in Page : Group(p, page_cnt'[u]) \subseteq snapshot'[u]
  BY <1>4, <1>t DEF FullInv, FailsOnlyWhenFull
<1> QED BY <1>3, <1>4 DEF FullInv, ScanComplete, FailsOnlyWhenFull, Page, Group

(* When page_idx is too far for another group, no group was free: the      *)
(* earlier ones have been ruled out, and a later one leaves the pool.      *)
LEMMA ScanFails ==
  ASSUME PoolInv, FullInv, NEW t \in Thread, scan_failed(t)
  PROVE  FullInv'
<1> USE DEF scan_failed, At, Goto
<1>t. /\ page_idx[t] \in Nat /\ page_cnt[t] \in Nat /\ page_cnt[t] >= 1
      /\ pc \in [Thread -> Label] /\ snapshot[t] \subseteq Page
  BY DEF PoolInv, TypeOK, ArgsOK
<1>1. ASSUME NEW p \in Page PROVE ~(Group(p, page_cnt[t]) \subseteq snapshot[t])
  <2>1. CASE p < page_idx[t]
    BY <2>1 DEF FullInv, ScanComplete, Page
  <2>2. CASE ~(p < page_idx[t])
    <3>1. p + page_cnt[t] - 1 \in Group(p, page_cnt[t])
      BY <1>t DEF Group, Page
    <3>2. p + page_cnt[t] - 1 \notin Page
      BY <1>t, <2>2, PallocAssumption DEF Page
    <3> QED BY <1>t, <3>1, <3>2
  <2> QED BY <2>1, <2>2
<1>2. ASSUME NEW u \in Thread, pc'[u] = "scan"
      PROVE  /\ \A p \in snapshot'[u] : p \notin used_map'
             /\ \A p \in Nat : p < page_idx'[u] =>
                   ~(Group(p, page_cnt'[u]) \subseteq snapshot'[u])
  BY <1>2, <1>t DEF FullInv, ScanComplete
<1>3. ASSUME NEW u \in Thread, pc'[u] = "failed"
      PROVE  ~ \E p \in Page : Group(p, page_cnt'[u]) \subseteq snapshot'[u]
  BY <1>1, <1>3, <1>t DEF FullInv, FailsOnlyWhenFull
<1> QED BY <1>2, <1>3 DEF FullInv, ScanComplete, FailsOnlyWhenFull, Page, Group

(* Every step preserves it.                                                *)
LEMMA FullStep == PoolInv /\ FullInv /\ [Next]_vars => FullInv'
<1> SUFFICES ASSUME PoolInv, FullInv, [Next]_vars PROVE FullInv'
  OBVIOUS
<1>t. /\ pc \in [Thread -> Label] /\ page_idx \in [Thread -> Nat]
      /\ page_cnt \in [Thread -> Nat] /\ snapshot \in [Thread -> SUBSET Page]
  BY DEF PoolInv, TypeOK
<1>1. ASSUME NEW t \in Thread, NEW n \in 1 .. MaxCnt, palloc_get_multiple(t, n)
      PROVE  FullInv'
  BY <1>1, <1>t, ScanFrame DEF palloc_get_multiple, At, Goto
<1>2. ASSUME NEW t \in Thread, NEW b \in blocks, palloc_free_multiple(t, b)
      PROVE  FullInv'
  BY <1>2, <1>t, ScanFrame DEF palloc_free_multiple, At, Goto
<1>3. ASSUME NEW t \in Thread, get_lock(t) PROVE FullInv'
  <2> USE DEF get_lock, At, Goto
  <2>1. ASSUME NEW u \in Thread, pc'[u] = "scan"
        PROVE  /\ \A p \in snapshot'[u] : p \notin used_map'
               /\ \A p \in Nat : p < page_idx'[u] =>
                     ~(Group(p, page_cnt'[u]) \subseteq snapshot'[u])
    <3>1. CASE u = t
      BY <1>3, <1>t, <3>1
    <3>2. CASE u # t
      BY <1>3, <1>t, <2>1, <3>2 DEF FullInv, ScanComplete
    <3> QED BY <3>1, <3>2
  <2>2. ASSUME NEW u \in Thread, pc'[u] = "failed"
        PROVE  ~ \E p \in Page : Group(p, page_cnt'[u]) \subseteq snapshot'[u]
    BY <1>3, <1>t, <2>2 DEF FullInv, FailsOnlyWhenFull
  <2> QED BY <2>1, <2>2 DEF FullInv, ScanComplete, FailsOnlyWhenFull, Page, Group
<1>4. ASSUME NEW t \in Thread, bitmap_scan(t) PROVE FullInv'
  BY <1>4, ScanProgress
<1>5. ASSUME NEW t \in Thread, scan_failed(t) PROVE FullInv'
  BY <1>5, ScanFails
<1>6. ASSUME NEW t \in Thread, bitmap_mark(t) PROVE FullInv'
  <2>1. holder = t
    BY <1>6 DEF bitmap_mark, At, PoolInv, ArgsOK, Locked
  <2> QED BY <1>6, <1>t, <2>1, ScanFrame DEF bitmap_mark, At, Goto
<1>7. ASSUME NEW t \in Thread, get_return(t) PROVE FullInv'
  BY <1>7, <1>t, ScanFrame DEF get_return, At, Goto, Return
<1>8. ASSUME NEW t \in Thread, bitmap_all(t) PROVE FullInv'
  BY <1>8, <1>t, ScanFrame DEF bitmap_all, At, Goto
<1>9. ASSUME NEW t \in Thread, bitmap_reset(t) PROVE FullInv'
  BY <1>9, <1>t, ScanFrame DEF bitmap_reset, At, Goto, Return
<1>10. CASE UNCHANGED vars
  BY <1>10 DEF vars, FullInv, ScanComplete, FailsOnlyWhenFull
<1> QED BY <1>1, <1>2, <1>3, <1>4, <1>5, <1>6, <1>7, <1>8, <1>9, <1>10
           DEF Next, Continue

(* palloc_get_multiple() returns a null pointer only when no group of      *)
(* page_cnt pages was free at the moment it took the lock, whatever is     *)
(* freed during its scan: for any pool, request and number of threads.     *)
THEOREM PoolFailsOnlyWhenFull == Spec => []FailsOnlyWhenFull
<1>1. Init => FullInv
  BY DEF Init, FullInv, ScanComplete, FailsOnlyWhenFull
<1>2. PoolInv /\ FullInv /\ [Next]_vars => FullInv'
  BY FullStep
<1>3. FullInv => FailsOnlyWhenFull
  BY DEF FullInv
<1>4. QED
  BY PoolInvariant, <1>1, <1>2, <1>3, PTL DEF Spec
=============================================================================
