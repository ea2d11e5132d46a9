-------------------------------- MODULE List --------------------------------
(***************************************************************************)
(* The doubly linked lists of lib/kernel/list.c at the level of pointers.  *)
(*                                                                         *)
(* A heap h has the fields next and prev of every node.  An operator with  *)
(* the name of a function of list.c maps the heap before the call to the   *)
(* heap after it, or to what the call returns.                             *)
(***************************************************************************)
EXTENDS Integers, Sequences, SequencesExt

CONSTANTS
  Elem,   \* the list elements, numbers
  ListId, \* the lists
  Val     \* the functions that may give the elements their values

VARIABLES
  heap,  \* next and prev of every node
  val,   \* the value that less() compares
  seq    \* history: the elements each list should have

vars == <<heap, val, seq>>

NULL == <<"null", 0>>
HeadOf(l) == <<"head", l>>
TailOf(l) == <<"tail", l>>
El(e) == <<"elem", e>>
Node == {El(e) : e \in Elem} \cup {HeadOf(l) : l \in ListId} \cup {TailOf(l) : l \in ListId}

SetNext(h, n, to) == [h EXCEPT !.next[n] = to]
SetPrev(h, n, to) == [h EXCEPT !.prev[n] = to]

is_head(h, n) == n # NULL /\ h.prev[n] = NULL /\ h.next[n] # NULL
is_interior(h, n) == n # NULL /\ h.prev[n] # NULL /\ h.next[n] # NULL
is_tail(h, n) == n # NULL /\ h.prev[n] # NULL /\ h.next[n] = NULL

list_init(h, l) ==
  SetNext(SetPrev(SetNext(SetPrev(h, HeadOf(l), NULL), HeadOf(l), TailOf(l)),
                  TailOf(l), HeadOf(l)), TailOf(l), NULL)

list_begin(h, l) == h.next[HeadOf(l)]
list_end(l) == TailOf(l)
list_rbegin(h, l) == h.prev[TailOf(l)]
list_rend(l) == HeadOf(l)

(* A failed ASSERT yields NULL, at which every loop over a list goes wrong *)
(* visibly.                                                                *)
list_next(h, n) == IF is_head(h, n) \/ is_interior(h, n) THEN h.next[n] ELSE NULL
list_prev(h, n) == IF is_interior(h, n) \/ is_tail(h, n) THEN h.prev[n] ELSE NULL

list_insert(h, before, elem) ==
  LET p  == h.prev[before]
      h1 == SetNext(SetPrev(h, elem, p), elem, before)
  IN  SetPrev(SetNext(h1, p, elem), before, elem)

(* Mutant: the list the range came from keeps its link back into it.       *)
list_splice_link(h, before, first, last) ==
  IF first = last THEN h
  ELSE LET to == list_prev(h, last)
           h1 == SetNext(h, h.prev[first], h.next[to])
           h3 == SetNext(SetPrev(h1, first, h1.prev[before]), to, before)
       IN  SetPrev(SetNext(h3, h1.prev[before], first), before, to)

list_splice(h, before, first, last) ==
  IF first = last THEN h
  ELSE LET to == list_prev(h, last)
           h1 == SetNext(h, h.prev[first], h.next[to])
           h2 == SetPrev(h1, h1.next[to], h1.prev[first])
           h3 == SetNext(SetPrev(h2, first, h2.prev[before]), to, before)
           \* before.prev has not changed since h2
       IN  SetPrev(SetNext(h3, h2.prev[before], first), before, to)

list_remove(h, elem) ==
  LET h1 == SetNext(h, h.prev[elem], h.next[elem])
  IN  SetPrev(h1, h1.next[elem], h1.prev[elem])

list_push_front(h, l, elem) == list_insert(h, list_begin(h, l), elem)
list_push_back(h, l, elem) == list_insert(h, list_end(l), elem)
list_empty(h, l) == list_begin(h, l) = list_end(l)
list_front(h, l) == h.next[HeadOf(l)]
list_back(h, l) == h.prev[TailOf(l)]

(* The nodes from a up to b, by next pointers, with list_next()'s check:   *)
(* the shape of most loops of list.c.                                      *)
RECURSIVE NodesFrom(_, _, _)
NodesFrom(h, a, b) ==
  IF a = b \/ a = NULL THEN << >> ELSE <<a>> \o NodesFrom(h, list_next(h, a), b)

list_size(h, l) == Len(NodesFrom(h, list_begin(h, l), list_end(l)))

swap(h, n) == [h EXCEPT !.next[n] = h.prev[n], !.prev[n] = h.next[n]]

RECURSIVE SwapAll(_, _, _)
SwapAll(h, e, end) == IF e = end THEN h ELSE SwapAll(swap(h, e), swap(h, e).prev[e], end)

(* The first element's prev and the last one's next are put right last.    *)
list_reverse(h, l) ==
  IF list_empty(h, l) THEN h
  ELSE LET h1 == SwapAll(h, list_begin(h, l), list_end(l))
           h2 == [h1 EXCEPT !.next[HeadOf(l)] = h1.prev[TailOf(l)],
                            !.prev[TailOf(l)] = h1.next[HeadOf(l)]]
           f  == h2.next[HeadOf(l)]
           b  == h2.prev[TailOf(l)]
       IN  [h2 EXCEPT !.prev[f] = h2.next[b], !.next[b] = h2.prev[f]]

less(a, b) == val[a[2]] < val[b[2]]

RECURSIVE find_end_of_run(_, _, _)
find_end_of_run(h, a, b) ==
  LET n == list_next(h, a)
  IN  IF n # b /\ ~less(n, list_prev(h, n)) THEN find_end_of_run(h, n, b) ELSE n

TakesSecond(a1b0, a0) == less(a1b0, a0)

RECURSIVE inplace_merge(_, _, _, _)
inplace_merge(h, a0, a1b0, b1) ==
  IF a0 = a1b0 \/ a1b0 = b1 THEN h
  ELSE IF ~TakesSecond(a1b0, a0) THEN inplace_merge(h, list_next(h, a0), a1b0, b1)
  ELSE LET n == list_next(h, a1b0)
       IN  inplace_merge(list_splice(h, a0, list_prev(h, n), n), a0, n, b1)

(* One pass of list_sort() from a0 on: the heap, and the runs it put out.  *)
RECURSIVE MergePass(_, _, _, _)
MergePass(h, l, a0, runs) ==
  IF a0 = list_end(l) THEN [h |-> h, runs |-> runs]
  ELSE LET a1b0 == find_end_of_run(h, a0, list_end(l))
       IN  IF a1b0 = list_end(l) THEN [h |-> h, runs |-> runs + 1]
           ELSE LET b1 == find_end_of_run(h, a1b0, list_end(l))
                IN  MergePass(inplace_merge(h, a0, a1b0, b1), l, b1, runs + 1)

RECURSIVE list_sort(_, _)
list_sort(h, l) ==
  LET pass == MergePass(h, l, list_begin(h, l), 0)
  IN  IF pass.runs > 1 THEN list_sort(pass.h, l) ELSE pass.h

RECURSIVE insertion_point(_, _, _, _)
insertion_point(h, e, end, elem) ==
  IF e # end /\ ~less(elem, e) THEN insertion_point(h, list_next(h, e), end, elem) ELSE e

list_insert_ordered(h, l, elem) ==
  list_insert(h, insertion_point(h, list_begin(h, l), list_end(l), elem), elem)

(* list_unique() with the list that takes the duplicates.                  *)
RECURSIVE Unique(_, _, _, _)
Unique(h, l, duplicates, elem) ==
  LET next == list_next(h, elem)
  IN  IF next = list_end(l) THEN h
      ELSE IF ~less(elem, next) /\ ~less(next, elem)
      THEN Unique(list_push_back(list_remove(h, next), duplicates, next), l, duplicates, elem)
      ELSE Unique(h, l, duplicates, next)

list_unique(h, l, duplicates) ==
  IF list_empty(h, l) THEN h ELSE Unique(h, l, duplicates, list_begin(h, l))

(* list_max() and list_min() keep the first of equals.                     *)
Extreme(h, l, Better(_, _)) ==
  LET nodes == NodesFrom(h, list_begin(h, l), list_end(l))
  IN  IF nodes = << >> THEN list_end(l)
      ELSE FoldLeft(LAMBDA best, e : IF Better(best, e) THEN e ELSE best,
                    Head(nodes), Tail(nodes))
list_max(h, l) == Extreme(h, l, LAMBDA best, e : less(best, e))
list_min(h, l) == Extreme(h, l, LAMBDA best, e : less(e, best))

-----------------------------------------------------------------------------
Blank == [next |-> [n \in Node |-> NULL], prev |-> [n \in Node |-> NULL]]

RECURSIVE InitAll(_, _)
InitAll(h, ls) ==
  IF ls = {} THEN h
  ELSE LET l == CHOOSE l \in ls : TRUE IN InitAll(list_init(h, l), ls \ {l})

Init ==
  /\ heap = InitAll(Blank, ListId)
  /\ val \in Val
  /\ seq = [l \in ListId |-> << >>]

OnList(e) == \E l \in ListId : Contains(seq[l], e)

(* A removed element's own pointers are not looked at again.               *)
Forget(h, e) == SetNext(SetPrev(h, El(e), NULL), El(e), NULL)

Push(l, e) ==
  /\ ~OnList(e)
  /\ \/ heap' = list_push_front(heap, l, El(e)) /\ seq' = [seq EXCEPT ![l] = <<e>> \o @]
     \/ heap' = list_push_back(heap, l, El(e)) /\ seq' = [seq EXCEPT ![l] = Append(@, e)]
  /\ UNCHANGED val

Insert(l, k, e) ==
  /\ ~OnList(e) /\ k \in DOMAIN seq[l]
  /\ heap' = list_insert(heap, El(seq[l][k]), El(e))
  /\ seq' = [seq EXCEPT ![l] = InsertAt(@, k, e)]
  /\ UNCHANGED val

RemoveElem(l, k) ==
  /\ k \in DOMAIN seq[l]
  /\ heap' = Forget(list_remove(heap, El(seq[l][k])), seq[l][k])
  /\ seq' = [seq EXCEPT ![l] = RemoveAt(@, k)]
  /\ UNCHANGED val

Pop(l) ==
  /\ ~list_empty(heap, l)
  /\ \/ LET e == list_front(heap, l) IN
        heap' = Forget(list_remove(heap, e), e[2]) /\ seq' = [seq EXCEPT ![l] = Tail(@)]
     \/ LET e == list_back(heap, l) IN
        heap' = Forget(list_remove(heap, e), e[2]) /\ seq' = [seq EXCEPT ![l] = Front(@)]
  /\ UNCHANGED val

(* Moves elements i up to j of list l, exclusive, to before element k of   *)
(* list m, or to its end.                                                  *)
Splice(l, i, j, m, k) ==
  LET at(s, p) == IF p > Len(seq[s]) THEN list_end(s) ELSE El(seq[s][p])
  IN  /\ i \in 1 .. Len(seq[l]) + 1 /\ j \in i .. Len(seq[l]) + 1
      /\ k \in 1 .. Len(seq[m]) + 1
      /\ l = m => k < i \/ k >= j  \* before is not in the range
      /\ heap' = list_splice(heap, at(m, k), at(l, i), at(l, j))
      /\ LET moved == SubSeq(seq[l], i, j - 1)
             cut(s, a, b) == SubSeq(s, a, b)
         IN  seq' = IF l # m
                    THEN [seq EXCEPT
                            ![l] = cut(@, 1, i - 1) \o cut(@, j, Len(@)),
                            ![m] = cut(@, 1, k - 1) \o moved \o cut(@, k, Len(@))]
                    ELSE [seq EXCEPT ![l] =
                            IF k < i
                            THEN cut(@, 1, k - 1) \o moved \o cut(@, k, i - 1) \o cut(@, j, Len(@))
                            ELSE cut(@, 1, i - 1) \o cut(@, j, k - 1) \o moved \o cut(@, k, Len(@))]
      /\ UNCHANGED val

(* What list_sort() should do: order by value, equals in their old order.  *)
StableSort(s) ==
  LET order == SetToSortSeq(DOMAIN s, LAMBDA i, j : val[s[i]] < val[s[j]]
                                                    \/ (val[s[i]] = val[s[j]] /\ i < j))
  IN  [k \in DOMAIN s |-> s[order[k]]]

Sort(l) ==
  /\ heap' = list_sort(heap, l)
  /\ seq' = [seq EXCEPT ![l] = StableSort(@)]
  /\ UNCHANGED val

ReverseList(l) ==
  /\ heap' = list_reverse(heap, l)
  /\ seq' = [seq EXCEPT ![l] = Reverse(@)]
  /\ UNCHANGED val

InsertOrdered(l, e) ==
  /\ ~OnList(e) /\ StableSort(seq[l]) = seq[l]
  /\ heap' = list_insert_ordered(heap, l, El(e))
  /\ seq' = [seq EXCEPT ![l] = StableSort(Append(@, e))]
  /\ UNCHANGED val

UniqueInto(l, m) ==
  LET dup(s, k) == k > 1 /\ val[s[k]] = val[s[k - 1]]
      pick(s, P(_)) == LET ks == SetToSortSeq({k \in DOMAIN s : P(k)}, <)
                       IN  [k \in DOMAIN ks |-> s[ks[k]]]
      s == seq[l]
  IN  /\ l # m
      /\ heap' = list_unique(heap, l, m)
      /\ seq' = [seq EXCEPT ![l] = pick(s, LAMBDA k : ~dup(s, k)),
                            ![m] = @ \o pick(s, LAMBDA k : dup(s, k))]
      /\ UNCHANGED val

Next ==
  \E l, m \in ListId :
    \/ \E e \in Elem : Push(l, e) \/ InsertOrdered(l, e)
    \/ \E e, k \in Elem : Insert(l, k, e)
    \/ \E k \in Elem : RemoveElem(l, k)
    \/ Pop(l) \/ Sort(l) \/ ReverseList(l)
    \/ \E i, j, k \in 1 .. Len(seq[l]) + Len(seq[m]) + 1 : Splice(l, i, j, m, k)
    \/ UniqueInto(l, m)

Spec == Init /\ [][Next]_vars

-----------------------------------------------------------------------------
(* Every list holds the elements that the sequence of calls so far puts    *)
(* there: next pointers from head to tail give them in order, prev         *)
(* pointers from tail to head in reverse, sorting is stable, and list_size,*)
(* list_max and list_min return what they should.  No call on one list     *)
(* damages another, and no assertion of list.c fails on the way.           *)
ListsExact ==
  \A l \in ListId :
    LET nodes == [k \in DOMAIN seq[l] |-> El(seq[l][k])]
        RECURSIVE back(_)
        back(n) == IF n = HeadOf(l) \/ n = NULL THEN << >>
                   ELSE Append(back(list_prev(heap, n)), n)
    IN  /\ NodesFrom(heap, list_begin(heap, l), list_end(l)) = nodes
        /\ back(list_rbegin(heap, l)) = nodes
        /\ is_head(heap, HeadOf(l)) /\ is_tail(heap, TailOf(l))
        /\ list_size(heap, l) = Len(seq[l])
        /\ nodes # << >> =>
             LET max == list_max(heap, l)
                 min == list_min(heap, l)
             IN  \A k \in DOMAIN nodes :
                   /\ val[nodes[k][2]] <= val[max[2]] /\ val[min[2]] <= val[nodes[k][2]]
                   /\ nodes[k] = max => \A j \in 1 .. k - 1 : less(nodes[j], max)
                   /\ nodes[k] = min => \A j \in 1 .. k - 1 : less(min, nodes[j])

=============================================================================
