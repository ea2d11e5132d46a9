------------------------------- MODULE Bitmap -------------------------------
(***************************************************************************)
(* The bitmaps of lib/kernel/bitmap.c: bits packed into array elements of  *)
(* ELEM_BITS bits each, with every operation, a bitmap's way into a file   *)
(* and back included.  Allocation is left out.  A caller that breaks an    *)
(* ASSERT's condition is not considered.                                   *)
(***************************************************************************)
EXTENDS Integers, FiniteSets, FiniteSetsExt, Bitwise

CONSTANTS
  ELEM_BITS,
  bit_cnt

VARIABLES
  bits,   \* the elements
  file,   \* the elements in the file the bitmap is written to
  ones,   \* history: the bits that should be set
  saved   \* history: the bits that are set in the file

vars == <<bits, file, ones, saved>>

BITMAP_ERROR == -1
Bit == 0 .. bit_cnt - 1
elem_idx(bit_idx) == bit_idx \div ELEM_BITS
bit_mask(bit_idx) == 2 ^ (bit_idx % ELEM_BITS)
elem_cnt == (bit_cnt + ELEM_BITS - 1) \div ELEM_BITS
Word == 0 .. 2 ^ ELEM_BITS - 1
last_mask ==
  LET last_bits == bit_cnt % ELEM_BITS
  IN  IF last_bits # 0 THEN 2 ^ last_bits - 1 ELSE 2 ^ ELEM_BITS - 1

bitmap_mark(b, i) == [b EXCEPT ![elem_idx(i)] = @ | bit_mask(i)]
bitmap_reset(b, i) == [b EXCEPT ![elem_idx(i)] = @ & (2 ^ ELEM_BITS - 1 - bit_mask(i))]
bitmap_flip(b, i) == [b EXCEPT ![elem_idx(i)] = @ ^^ bit_mask(i)]
bitmap_set(b, i, value) == IF value THEN bitmap_mark(b, i) ELSE bitmap_reset(b, i)
bitmap_test(b, i) == b[elem_idx(i)] & bit_mask(i) # 0

bitmap_set_multiple(b, start, cnt, value) ==
  FoldSet(LAMBDA i, acc : bitmap_set(acc, i, value), b, start .. start + cnt - 1)
bitmap_set_all(b, value) == bitmap_set_multiple(b, 0, bit_cnt, value)

bitmap_count(b, start, cnt, value) ==
  Cardinality({i \in start .. start + cnt - 1 : bitmap_test(b, i) = value})
bitmap_contains(b, start, cnt, value) ==
  \E i \in start .. start + cnt - 1 : bitmap_test(b, i) = value
bitmap_any(b, start, cnt) == bitmap_contains(b, start, cnt, TRUE)
bitmap_none(b, start, cnt) == ~bitmap_contains(b, start, cnt, TRUE)
bitmap_all(b, start, cnt) == ~bitmap_contains(b, start, cnt, FALSE)

bitmap_scan(b, start, cnt, value) ==
  LET fits == {i \in start .. bit_cnt - cnt : ~bitmap_contains(b, i, cnt, ~value)}
  IN  IF cnt <= bit_cnt /\ fits # {} THEN Min(fits) ELSE BITMAP_ERROR

(* bitmap_create(): malloc()'s elements hold anything, then all bits are   *)
(* reset.                                                                  *)
Init ==
  /\ \E junk \in Word : bits = bitmap_set_all([e \in 0 .. elem_cnt - 1 |-> junk], FALSE)
  /\ file = [e \in 0 .. elem_cnt - 1 |-> 0]
  /\ ones = {} /\ saved = {}

-----------------------------------------------------------------------------
SetOne(i, value) ==
  /\ bits' = bitmap_set(bits, i, value)
  /\ ones' = IF value THEN ones \cup {i} ELSE ones \ {i}
  /\ UNCHANGED <<file, saved>>

Flip(i) ==
  /\ bits' = bitmap_flip(bits, i)
  /\ ones' = IF i \in ones THEN ones \ {i} ELSE ones \cup {i}
  /\ UNCHANGED <<file, saved>>

SetMany(start, cnt, value) ==
  /\ start + cnt <= bit_cnt
  /\ bits' = bitmap_set_multiple(bits, start, cnt, value)
  /\ ones' = IF value THEN ones \cup (start .. start + cnt - 1)
             ELSE ones \ (start .. start + cnt - 1)
  /\ UNCHANGED <<file, saved>>

bitmap_scan_and_flip(start, cnt, value) ==
  LET idx == bitmap_scan(bits, start, cnt, value)
  IN  /\ idx # BITMAP_ERROR
      /\ bits' = bitmap_set_multiple(bits, idx, cnt, ~value)
      /\ ones' = IF value THEN ones \ (idx .. idx + cnt - 1)
                 ELSE ones \cup (idx .. idx + cnt - 1)
      /\ UNCHANGED <<file, saved>>

bitmap_write ==
  /\ file' = bits
  /\ saved' = ones
  /\ UNCHANGED <<bits, ones>>

(* The file_read_at() of bitmap_read() stops after n elements.  The mask   *)
(* is applied in any case.                                                 *)
bitmap_read(n) ==
  /\ bits' = [e \in DOMAIN bits |->
                LET w == IF e < n THEN file[e] ELSE bits[e]
                IN  IF e = elem_cnt - 1 THEN w & last_mask ELSE w]
  /\ ones' = {i \in Bit : i \in IF elem_idx(i) < n THEN saved ELSE ones}
  /\ UNCHANGED <<file, saved>>

(* A file some other program wrote: the bits past the end may be set.      *)
ForeignFile(e, w) ==
  /\ file' = [file EXCEPT ![e] = w]
  /\ saved' = {i \in Bit : file'[elem_idx(i)] & bit_mask(i) # 0}
  /\ UNCHANGED <<bits, ones>>

Next ==
  \/ \E i \in Bit : Flip(i) \/ \E value \in BOOLEAN : SetOne(i, value)
  \/ \E start, cnt \in 0 .. bit_cnt, value \in BOOLEAN :
       SetMany(start, cnt, value) \/ bitmap_scan_and_flip(start, cnt, value)
  \/ bitmap_write
  \/ \E n \in 0 .. elem_cnt : bitmap_read(n)
  \/ \E e \in DOMAIN file, w \in Word : ForeignFile(e, w)

Spec == Init /\ [][Next]_vars

-----------------------------------------------------------------------------
(* The packed bits are the bits the calls so far set, those of a file read *)
(* only in part included, whatever the bits past the end are;              *)
(* bitmap_count() and its kin agree with them, and bitmap_scan() returns   *)
(* the start of the first group that fits, at the very end too, or         *)
(* BITMAP_ERROR.                                                           *)
BitsExact ==
  /\ \A i \in Bit : bitmap_test(bits, i) <=> i \in ones
  /\ \A start, cnt \in 0 .. bit_cnt, value \in BOOLEAN :
       LET of(i) == (i \in ones) = value
           group(i) == i + cnt <= bit_cnt /\ \A j \in i .. i + cnt - 1 : of(j)
           found == bitmap_scan(bits, start, cnt, value)
       IN  /\ start + cnt <= bit_cnt =>
                /\ bitmap_count(bits, start, cnt, value)
                     = Cardinality({i \in start .. start + cnt - 1 : of(i)})
                /\ bitmap_all(bits, start, cnt) <=> start .. start + cnt - 1 \subseteq ones
                /\ bitmap_any(bits, start, cnt) <=> ~bitmap_none(bits, start, cnt)
           /\ IF \E i \in start .. bit_cnt : group(i)
              THEN /\ found \in start .. bit_cnt /\ group(found)
                   /\ \A i \in start .. found - 1 : ~group(i)
              ELSE found = BITMAP_ERROR

=============================================================================
