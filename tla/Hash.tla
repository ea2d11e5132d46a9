-------------------------------- MODULE Hash --------------------------------
(***************************************************************************)
(* The chained hash table of lib/kernel/hash.c, with an iteration over it. *)
(*                                                                         *)
(* A bucket is the sequence of its list's elements.  The hash function and *)
(* the comparison are the user's: elements with the same Key are equal and *)
(* have the same HashOf.  The number of buckets hash_init() and rehash()   *)
(* start from, 4 in the code, and BEST_ELEMS_PER_BUCKET are parameters, so *)
(* that a small table grows and shrinks.                                   *)
(***************************************************************************)
EXTENDS Integers, Sequences, SequencesExt, FiniteSets, Bitwise

CONSTANTS
  Elem,
  Key,                    \* what less() compares, for each element
  HashOf,                 \* the hash value of each key
  MIN_BUCKETS,
  BEST_ELEMS_PER_BUCKET

VARIABLES
  buckets,   \* 0 .. bucket_cnt - 1 -> sequences of elements
  elem_cnt,
  i,         \* the iterator: bucket and element, and history: what it returned
  present    \* history: the elements the calls so far leave in the table

vars == <<buckets, elem_cnt, i, present>>

None == 0
bucket_cnt == Cardinality(DOMAIN buckets)
Empty(n) == [b \in 0 .. n - 1 |-> << >>]
NoIteration == [bucket |-> 0, elem |-> None, seen |-> << >>]

find_bucket(e, cnt) == HashOf[Key[e]] & (cnt - 1)

(* The element of the bucket that is equal to e, or None.                  *)
find_elem(b, e) ==
  LET same == {x \in ToSet(buckets[b]) : Key[x] = Key[e]}
  IN  IF same = {} THEN None
      ELSE buckets[b][CHOOSE k \in DOMAIN buckets[b] :
                        /\ Key[buckets[b][k]] = Key[e]
                        /\ \A j \in 1 .. k - 1 : Key[buckets[b][j]] # Key[e]]

Without(b, e) == [b EXCEPT ![find_bucket(e, Cardinality(DOMAIN b))] = SelectSeq(@, LAMBDA x : x # e)]
With(b, e) == [b EXCEPT ![find_bucket(e, Cardinality(DOMAIN b))] = <<e>> \o @]

turn_off_least_1bit(x) == x & (x - 1)

RECURSIVE PowerOf2(_)
PowerOf2(n) == IF n # 0 /\ turn_off_least_1bit(n) = 0 THEN n ELSE PowerOf2(turn_off_least_1bit(n))

NewBucketCnt(cnt) ==
  LET ideal == cnt \div BEST_ELEMS_PER_BUCKET
  IN  PowerOf2(IF ideal < MIN_BUCKETS THEN MIN_BUCKETS ELSE ideal)

(* The elements of the old buckets, in the order rehash() moves them.      *)
AllElems(b) == FlattenSeq([k \in 1 .. Cardinality(DOMAIN b) |-> b[k - 1]])

(* mem: whether malloc() finds the memory for the new buckets.  Without it *)
(* the table keeps the buckets it has.                                     *)
rehash(b, cnt, mem) ==
  LET new == NewBucketCnt(cnt)
  IN  IF new = Cardinality(DOMAIN b) \/ ~mem THEN b
      ELSE FoldLeft(With, Empty(new), AllElems(b))

Init ==
  /\ buckets = Empty(MIN_BUCKETS)
  /\ elem_cnt = 0
  /\ i = NoIteration
  /\ present = {}

-----------------------------------------------------------------------------
(* Any change of the table ends the iteration ("Modifying hash table H     *)
(* during iteration ... invalidates all iterators").                       *)

(* rehash() is called even when an equal element was there already.        *)
hash_insert(e, mem) ==
  LET old == find_elem(find_bucket(e, bucket_cnt), e)
      cnt == IF old = None THEN elem_cnt + 1 ELSE elem_cnt
      b   == IF old = None THEN With(buckets, e) ELSE buckets
  IN  /\ e \notin present
      /\ elem_cnt' = cnt
      /\ buckets' = rehash(b, cnt, mem)
      /\ present' = IF \E x \in present : Key[x] = Key[e] THEN present ELSE present \cup {e}
      /\ i' = NoIteration

hash_replace(e, mem) ==
  LET old == find_elem(find_bucket(e, bucket_cnt), e)
      cnt == IF old = None THEN elem_cnt + 1 ELSE elem_cnt
      b   == IF old = None THEN buckets ELSE Without(buckets, old)
  IN  /\ e \notin present
      /\ elem_cnt' = cnt
      /\ buckets' = rehash(With(b, e), cnt, mem)
      /\ present' = {x \in present : Key[x] # Key[e]} \cup {e}
      /\ i' = NoIteration

hash_find(e) == find_elem(find_bucket(e, bucket_cnt), e)

hash_delete(e, mem) ==
  LET found == hash_find(e)
      b     == IF found = None THEN buckets ELSE Without(buckets, found)
      cnt   == IF found = None THEN elem_cnt ELSE elem_cnt - 1
  IN  /\ buckets' = IF found = None THEN buckets ELSE rehash(b, cnt, mem)
      /\ elem_cnt' = cnt
      /\ present' = {x \in present : Key[x] # Key[e]}
      /\ i' = NoIteration

(* The buckets are emptied and kept.                                       *)
hash_clear ==
  /\ buckets' = Empty(bucket_cnt)
  /\ elem_cnt' = 0
  /\ present' = {}
  /\ i' = NoIteration

-----------------------------------------------------------------------------
(* hash_first(), hash_next(), hash_cur().                                  *)
hash_first ==
  /\ i' = NoIteration
  /\ UNCHANGED <<buckets, elem_cnt, present>>

(* The element after e in its bucket, or the first one of a later bucket:  *)
(* hash_next()'s list_next() and its loop over empty buckets.              *)
NextElem ==
  LET b    == buckets[i.bucket]
      k    == IF i.elem = None THEN 0 ELSE CHOOSE k \in DOMAIN b : b[k] = i.elem
      more == {n \in i.bucket + 1 .. bucket_cnt - 1 : buckets[n] # << >>}
  IN  IF k < Len(b) THEN [bucket |-> i.bucket, elem |-> b[k + 1]]
      ELSE IF more = {} THEN [bucket |-> i.bucket, elem |-> None]
      ELSE LET n == CHOOSE n \in more : \A m \in more : n <= m
           IN  [bucket |-> n, elem |-> Head(buckets[n])]

hash_next ==
  /\ Len(i.seen) <= Cardinality(Elem)
  /\ i.seen # << >> => Last(i.seen) # None
  /\ i' = [bucket |-> NextElem.bucket, elem |-> NextElem.elem,
           seen |-> Append(i.seen, NextElem.elem)]
  /\ UNCHANGED <<buckets, elem_cnt, present>>

Next ==
  \/ \E e \in Elem, mem \in BOOLEAN :
       hash_insert(e, mem) \/ hash_replace(e, mem) \/ hash_delete(e, mem)
  \/ hash_clear \/ hash_first \/ hash_next

Spec == Init /\ [][Next]_vars

-----------------------------------------------------------------------------
(* The table holds exactly the elements that the calls so far leave in it, *)
(* each under its own hash value, and finds each of them, however often it *)
(* was rehashed and whichever of those attempts found no memory; and an    *)
(* iteration that has ended returned each of them exactly once.            *)
TableExact ==
  /\ elem_cnt = Cardinality(present)
  /\ \A e \in Elem :
       /\ hash_find(e) = IF \E x \in present : Key[x] = Key[e]
                         THEN CHOOSE x \in present : Key[x] = Key[e] ELSE None
       /\ \A b \in DOMAIN buckets :
            Contains(buckets[b], e) <=> e \in present /\ b = find_bucket(e, bucket_cnt)
  /\ Len(AllElems(buckets)) = elem_cnt
  /\ i.seen # << >> /\ Last(i.seen) = None =>
       /\ Len(i.seen) = elem_cnt + 1
       /\ ToSet(Front(i.seen)) = present

=============================================================================
