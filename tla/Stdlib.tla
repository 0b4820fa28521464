------------------------------- MODULE Stdlib -------------------------------
(***************************************************************************)
(* lib/stdlib.c: sort and binary_search on arrays of integers, with the    *)
(* numeric order as the comparison function.                               *)
(***************************************************************************)
EXTENDS Integers, Sequences

do_swap(s, a, b) == [s EXCEPT ![a] = s[b], ![b] = s[a]]

\* The largest of element i and its children among the first cnt.
Largest(s, i, cnt) ==
  LET left == 2 * i  right == 2 * i + 1
      m == IF left <= cnt /\ s[left] > s[i] THEN left ELSE i
  IN  IF right <= cnt /\ s[right] > s[m] THEN right ELSE m

RECURSIVE heapify(_, _, _)
heapify(s, i, cnt) ==
  LET max == Largest(s, i, cnt)
  IN  IF max = i THEN s ELSE heapify(do_swap(s, i, max), max, cnt)

RECURSIVE BuildHeap(_, _)
BuildHeap(s, i) == IF i = 0 THEN s ELSE BuildHeap(heapify(s, i, Len(s)), i - 1)

RECURSIVE SortHeap(_, _)
SortHeap(s, i) ==
  IF i <= 1 THEN s ELSE SortHeap(heapify(do_swap(s, 1, i), 1, i - 1), i - 1)

\* qsort and sort: heap sort.
sort(s) == SortHeap(BuildHeap(s, Len(s) \div 2), Len(s))

RECURSIVE SearchIn(_, _, _, _)
\* binary_search between first and last (exclusive); 0 is a null pointer.
SearchIn(s, key, first, last) ==
  IF first >= last THEN 0
  ELSE LET middle == first + (last - first) \div 2
       IN  IF key < s[middle] THEN SearchIn(s, key, first, middle)
           ELSE IF key > s[middle] THEN SearchIn(s, key, middle + 1, last)
           ELSE middle

\* bsearch and binary_search.
binary_search(s, key) == SearchIn(s, key, 1, Len(s) + 1)
-----------------------------------------------------------------------------
Count(s, x) == Len(SelectSeq(s, LAMBDA y : y = x))

\* sort permutes its array into order, and binary_search on the sorted array
\* finds exactly the keys that are in it.
SortCorrect(s, keys) ==
  LET r == sort(s) IN
  /\ Len(r) = Len(s) /\ \A x \in keys : Count(r, x) = Count(s, x)
  /\ \A i \in 1..Len(r) - 1 : r[i] <= r[i + 1]
  /\ \A x \in keys : LET k == binary_search(r, x)
                     IN  IF k = 0 THEN Count(s, x) = 0 ELSE r[k] = x
=============================================================================
