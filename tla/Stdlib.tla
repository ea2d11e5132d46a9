------------------------------- MODULE Stdlib -------------------------------
(***************************************************************************)
(* sort(), binary_search() and atoi() of lib/stdlib.c (qsort() and         *)
(* bsearch() only pass their arguments on).  An array is a sequence of     *)
(* numbers, indexed from 1 as in heapify(); a string is a sequence of      *)
(* ASCII codes.                                                            *)
(***************************************************************************)
EXTENDS Integers, Sequences, SequencesExt, FiniteSets, FiniteSetsExt

CONSTANTS
  Value,       \* the values of array elements
  MaxCnt,      \* bound: the longest array
  INT_MAX,     \* the largest int; the smallest is -INT_MAX - 1
  Char,        \* the characters of strings, as ASCII codes
  MaxLen       \* bound: the longest string

VARIABLES
  array,  \* the array sort() and binary_search() are called with
  s       \* the string atoi() is called with, without its terminator

vars == <<array, s>>

do_swap(a, i, j) == [a EXCEPT ![i] = a[j], ![j] = a[i]]

(* The index of the largest of element i and its children.                 *)
Largest(a, i, cnt) ==
  LET left == 2 * i
      right == 2 * i + 1
      max == IF left <= cnt /\ a[left] > a[i] THEN left ELSE i
  IN  IF right <= cnt /\ a[right] > a[max] THEN right ELSE max

RECURSIVE heapify(_, _, _)
heapify(a, i, cnt) ==
  LET max == Largest(a, i, cnt)
  IN  IF max = i THEN a ELSE heapify(do_swap(a, i, max), max, cnt)

RECURSIVE BuildHeap(_, _)
BuildHeap(a, i) == IF i = 0 THEN a ELSE BuildHeap(heapify(a, i, Len(a)), i - 1)

RECURSIVE SortHeap(_, _)
SortHeap(a, i) ==
  IF i <= 1 THEN a ELSE SortHeap(heapify(do_swap(a, 1, i), 1, i - 1), i - 1)

sort(a) == SortHeap(BuildHeap(a, Len(a) \div 2), Len(a))

(* first and last are 0-based, as offsets are in the code; 0 is NULL.      *)
RECURSIVE BinarySearch(_, _, _, _)
BinarySearch(key, a, first, last) ==
  IF first >= last THEN 0
  ELSE LET middle == first + (last - first) \div 2
       IN  IF key < a[middle + 1] THEN BinarySearch(key, a, first, middle)
           ELSE IF key > a[middle + 1] THEN BinarySearch(key, a, middle + 1, last)
           ELSE middle + 1
binary_search(key, a) == BinarySearch(key, a, 0, Len(a))

-----------------------------------------------------------------------------
(* Characters by their ASCII codes.                                        *)
isspace(c) == c = 32 \/ c \in 9 .. 13
isdigit(c) == c \in 48 .. 57
PLUS == 43
MINUS == 45

(* A result no int can hold is undefined behaviour.                        *)
Overflow == INT_MAX + 1
Checked(x) == IF x \in -INT_MAX - 1 .. INT_MAX THEN x ELSE Overflow

RECURSIVE SkipSpace(_)
SkipSpace(str) == IF str # << >> /\ isspace(Head(str)) THEN SkipSpace(Tail(str)) ELSE str

(* Mutant: the value is accumulated as a positive number.                  *)
Digits_positive(str) ==
  LET RECURSIVE value(_, _)
      value(rest, v) ==
        IF v = Overflow \/ rest = << >> \/ ~isdigit(Head(rest)) THEN v
        ELSE value(Tail(rest), Checked(v * 10 + (Head(rest) - 48)))
      v == value(str, 0)
  IN  IF v = Overflow THEN Overflow ELSE -v

(* The loop over the digits: the value, negated.                           *)
Digits(str) ==
  LET RECURSIVE value(_, _)
      value(rest, v) ==
        IF v = Overflow \/ rest = << >> \/ ~isdigit(Head(rest)) THEN v
        ELSE value(Tail(rest), Checked(v * 10 - (Head(rest) - 48)))
  IN  value(str, 0)

atoi(str) ==
  LET t == SkipSpace(str)
      sign == t # << >> /\ Head(t) \in {PLUS, MINUS}
      negative == sign /\ Head(t) = MINUS
      value == Digits(IF sign THEN Tail(t) ELSE t)
  IN  IF value = Overflow THEN Overflow
      ELSE IF negative THEN value ELSE Checked(-value)

-----------------------------------------------------------------------------
Idle == array = << >> /\ s = << >>
Init == Idle
CallSort == Idle /\ array' \in BoundedSeq(Value, MaxCnt) /\ UNCHANGED s
CallAtoi == Idle /\ s' \in BoundedSeq(Char, MaxLen) /\ UNCHANGED array
Return == ~Idle /\ array' = << >> /\ s' = << >>
Next == CallSort \/ CallAtoi \/ Return
Spec == Init /\ [][Next]_vars

-----------------------------------------------------------------------------
(* sort() returns the elements of the array, each as often as it was       *)
(* there, in order; binary_search() in the sorted array finds every value  *)
(* that is there and no other, whatever the length of the array.           *)
SortExact ==
  LET sorted == sort(array)
      times(a, v) == {i \in DOMAIN a : a[i] = v}
  IN  /\ Len(sorted) = Len(array)
      /\ \A i \in 1 .. Len(sorted) - 1 : sorted[i] <= sorted[i + 1]
      /\ \A v \in Value :
           /\ Cardinality(times(sorted, v)) = Cardinality(times(array, v))
           /\ LET found == binary_search(v, sorted)
              IN  IF v \in ToSet(array) THEN found \in times(sorted, v) ELSE found = 0

(* atoi() returns the number that the longest numeral after the spaces     *)
(* stands for whenever an int can hold it, the smallest int included: no   *)
(* step on the way overflows.                                              *)
AtoiExact ==
  LET body == {k \in 1 .. Len(s) + 1 : \A j \in 1 .. k - 1 : isspace(s[j])}
      first == CHOOSE k \in body : \A j \in body : j <= k
      signed == first <= Len(s) /\ s[first] \in {PLUS, MINUS}
      start == IF signed THEN first + 1 ELSE first
      ends == {k \in start .. Len(s) + 1 : \A j \in start .. k - 1 : isdigit(s[j])}
      end == CHOOSE k \in ends : \A j \in ends : j <= k
      number == FoldSet(LAMBDA j, sum : sum + (s[j] - 48) * 10 ^ (end - 1 - j),
                        0, start .. end - 1)
      meant == IF signed /\ s[first] = MINUS THEN -number ELSE number
  IN  meant \in -INT_MAX - 1 .. INT_MAX => atoi(s) = meant

=============================================================================
