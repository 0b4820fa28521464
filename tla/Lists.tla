------------------------------- MODULE Lists -------------------------------
(***************************************************************************)
(* The operations of lib/kernel/list.c that the kernel's queues use, as    *)
(* what they do to the sequence of elements that a list holds.  A          *)
(* list_less_func is a Boolean function of one element and another.        *)
(***************************************************************************)
EXTENDS Integers, Sequences, FiniteSetsExt

\* x is linked in front of the element at position k.
list_insert(s, k, x) == SubSeq(s, 1, k - 1) \o <<x>> \o SubSeq(s, k, Len(s))

\* x is unlinked from the list it is on.
list_remove(s, x) ==
  LET k == CHOOSE i \in 1..Len(s) : s[i] = x
  IN  [i \in 1..Len(s) - 1 |-> IF i < k THEN s[i] ELSE s[i + 1]]

\* Variant: list_push_back in place of list_insert_ordered.
insert_last(s, x, less) == list_insert(s, Len(s) + 1, x)

\* Variant: the element goes in front of the elements it equals.
insert_before_equals(s, x, less) ==
  LET after == {i \in 1..Len(s) : ~less[s[i]][x]}
  IN  list_insert(s, IF after = {} THEN Len(s) + 1 ELSE Min(after), x)

\* ELEM goes in front of the first element it is less than, hence behind
\* every element it equals.
list_insert_ordered(s, x, less) ==
  LET after == {i \in 1..Len(s) : less[x][s[i]]}
  IN  list_insert(s, IF after = {} THEN Len(s) + 1 ELSE Min(after), x)

\* The elements at the positions in I, each once, sorted by less, elements
\* that are equal in the order they had.
Arrangements(s, I, less) ==
  LET n == Cardinality(I)
      Before(i, j) == less[s[i]][s[j]] \/ (~less[s[j]][s[i]] /\ i < j)
  IN  { [i \in 1..n |-> s[f[i]]] :
          f \in {g \in [1..n -> I] :
                   /\ \A i, j \in 1..n : i < j => Before(g[i], g[j])
                   /\ \A k \in I : \E i \in 1..n : g[i] = k} }

\* list_sort is stable.  The set has exactly one member.
list_sort(s, less) == Arrangements(s, 1..Len(s), less)

\* list_sort, then a loop that list_removes the elements outside keep.
list_sort_keep(s, keep, less) ==
  Arrangements(s, {i \in 1..Len(s) : s[i] \in keep}, less)

\* No element is linked into the list twice.
NoDuplicates(s) == \A i, j \in 1..Len(s) : s[i] = s[j] => i = j
=============================================================================
