---------------------------- MODULE ListPointers ----------------------------
(***************************************************************************)
(* lib/kernel/list.c at the level of its links.  A heap h has the fields   *)
(* next and prev, functions on list elements.  Two lists share the heap:   *)
(* LIST with header elements HEAD and TAIL, and the list of duplicates     *)
(* that list_unique fills.  less is a relation on elements, [a, b |-> ..]. *)
(***************************************************************************)
EXTENDS Integers, Sequences

HEAD == 0
TAIL == -1
DUP_HEAD == -2
DUP_TAIL == -3
NoElem == -4

\* list_init, for a list with header elements hd and tl.
list_init(h, hd, tl) ==
  [next |-> [h.next EXCEPT ![hd] = tl, ![tl] = NoElem],
   prev |-> [h.prev EXCEPT ![hd] = NoElem, ![tl] = hd]]

\* The second pair of assignments goes through before's old prev.
list_insert(h, before, e) ==
  LET p == h.prev[before] IN
  [next |-> [h.next EXCEPT ![e] = before, ![p] = e],
   prev |-> [h.prev EXCEPT ![e] = p, ![before] = e]]

list_push_front(h, hd, e) == list_insert(h, h.next[hd], e)
list_push_back(h, tl, e) == list_insert(h, tl, e)

list_remove(h, e) ==
  [next |-> [h.next EXCEPT ![h.prev[e]] = h.next[e]],
   prev |-> [h.prev EXCEPT ![h.next[e]] = h.prev[e]]]

\* Variant: the gap that FIRST...LAST leave is not closed backwards.
splice_no_back_link(h, before, first, end) ==
  LET last == h.prev[end]
      nxt == [h.next EXCEPT ![h.prev[first]] = h.next[last]]
      bp == h.prev[before]
  IN  IF first = end THEN h ELSE
      [next |-> [nxt EXCEPT ![last] = before, ![bp] = first],
       prev |-> [h.prev EXCEPT ![first] = bp, ![before] = last]]

\* FIRST up to END (exclusive) are unlinked, then linked in front of BEFORE.
list_splice(h, before, first, end) ==
  LET last == h.prev[end]
      nxt == [h.next EXCEPT ![h.prev[first]] = h.next[last]]
      prv == [h.prev EXCEPT ![h.next[last]] = h.prev[first]]
      bp == prv[before]
  IN  IF first = end THEN h ELSE
      [next |-> [nxt EXCEPT ![last] = before, ![bp] = first],
       prev |-> [prv EXCEPT ![first] = bp, ![before] = last]]

RECURSIVE Elements(_, _, _)
\* The elements from e up to the tail tl, by the next links.
Elements(h, e, tl) == IF e = tl THEN <<>> ELSE <<e>> \o Elements(h, h.next[e], tl)

list_size(h) == Len(Elements(h, h.next[HEAD], TAIL))
list_empty(h) == h.next[HEAD] = TAIL

RECURSIVE SwapLinks(_, _)
\* list_reverse's loop: every element exchanges its links, and e->prev is what
\* was its next.
SwapLinks(h, e) ==
  IF e = TAIL THEN h
  ELSE LET s == [next |-> [h.next EXCEPT ![e] = h.prev[e]],
                 prev |-> [h.prev EXCEPT ![e] = h.next[e]]]
       IN  SwapLinks(s, s.prev[e])

\* After the loop the headers exchange their ends, and the ends their links to
\* the headers.
list_reverse(h) ==
  IF list_empty(h) THEN h ELSE
  LET s == SwapLinks(h, h.next[HEAD])
      first == s.prev[TAIL]
      last == s.next[HEAD]
  IN  [next |-> [s.next EXCEPT ![HEAD] = first, ![last] = s.prev[first]],
       prev |-> [s.prev EXCEPT ![TAIL] = last, ![first] = s.next[last]]]

RECURSIVE is_sorted(_, _, _, _)
is_sorted(h, a, b, less) ==
  IF a = b \/ h.next[a] = b THEN TRUE
  ELSE ~less[h.next[a], a] /\ is_sorted(h, h.next[a], b, less)

RECURSIVE find_end_of_run(_, _, _, _)
\* The end of the nondecreasing run that starts at a, not after b.
find_end_of_run(h, a, b, less) ==
  LET n == h.next[a]
  IN  IF n = b \/ less[n, a] THEN n ELSE find_end_of_run(h, n, b, less)

\* inplace_merge's test: the front of the second run goes in front of a.
GoesFirst(less, b, a) == less[b, a]

RECURSIVE inplace_merge(_, _, _, _, _)
inplace_merge(h, a0, a1b0, b1, less) ==
  IF a0 = a1b0 \/ a1b0 = b1 THEN h
  ELSE IF ~GoesFirst(less, a1b0, a0)
       THEN inplace_merge(h, h.next[a0], a1b0, b1, less)
       ELSE LET n == h.next[a1b0]
            IN  inplace_merge(list_splice(h, a0, a1b0, n), a0, n, b1, less)

RECURSIVE MergePass(_, _, _, _)
\* One pass of list_sort from a0, after runs output runs: the heap and the
\* number of runs.
MergePass(h, a0, runs, less) ==
  IF a0 = TAIL THEN [heap |-> h, runs |-> runs]
  ELSE LET a1b0 == find_end_of_run(h, a0, TAIL, less) IN
       IF a1b0 = TAIL THEN [heap |-> h, runs |-> runs + 1]
       ELSE LET b1 == find_end_of_run(h, a1b0, TAIL, less)
            IN  MergePass(inplace_merge(h, a0, a1b0, b1, less), b1, runs + 1, less)

RECURSIVE list_sort(_, _)
list_sort(h, less) ==
  LET pass == MergePass(h, h.next[HEAD], 0, less)
  IN  IF pass.runs > 1 THEN list_sort(pass.heap, less) ELSE pass.heap

RECURSIVE Unique(_, _, _)
\* list_unique from elem on; removed elements go to the duplicates' list.
Unique(h, e, less) ==
  LET n == h.next[e] IN
  IF n = TAIL THEN h
  ELSE IF ~less[e, n] /\ ~less[n, e]
       THEN Unique(list_push_back(list_remove(h, n), DUP_TAIL, n), e, less)
       ELSE Unique(h, n, less)

list_unique(h, less) == IF list_empty(h) THEN h ELSE Unique(h, h.next[HEAD], less)

RECURSIVE Best(_, _, _, _)
\* The loop of list_max and list_min: e replaces the best element so far when
\* better[best, e].
Best(h, best, e, better) ==
  IF e = TAIL THEN best
  ELSE Best(h, IF better[best, e] THEN e ELSE best, h.next[e], better)

list_max(h, less) ==
  IF list_empty(h) THEN TAIL ELSE Best(h, h.next[HEAD], h.next[h.next[HEAD]], less)

list_min(h, less) ==
  LET more == [p \in DOMAIN less |-> less[p[2], p[1]]]
  IN  IF list_empty(h) THEN TAIL
      ELSE Best(h, h.next[HEAD], h.next[h.next[HEAD]], more)
-----------------------------------------------------------------------------
(* What the algorithms are checked against, for a list whose elements      *)
(* 1..n have the given keys.                                               *)

RECURSIVE PushBacks(_, _)
PushBacks(h, n) == IF n = 0 THEN h ELSE list_push_back(PushBacks(h, n - 1), TAIL, n)

RECURSIVE PushFronts(_, _)
PushFronts(h, n) == IF n = 0 THEN h ELSE list_push_front(PushFronts(h, n - 1), HEAD, n)

NoElements(n) ==
  LET none == [e \in DUP_TAIL..n |-> NoElem]
      h == [next |-> none, prev |-> none]
  IN  list_init(list_init(h, HEAD, TAIL), DUP_HEAD, DUP_TAIL)

ListOf(n) == PushBacks(NoElements(n), n)

ByKey(keys) == [a, b \in DOMAIN keys |-> keys[a] < keys[b]]

LinksAgree(h) == \A e \in DOMAIN h.next : h.next[e] # NoElem => h.prev[h.next[e]] = e

\* The order of elements a stable sort gives.
Earlier(keys, a, b) == keys[a] < keys[b] \/ (keys[a] = keys[b] /\ a < b)

\* list_sort ends with a well-linked list of all the elements, sorted, equal
\* elements in their old order.
ListSortCorrect(keys) ==
  LET n == Len(keys)
      h == list_sort(ListOf(n), ByKey(keys))
      s == Elements(h, h.next[HEAD], TAIL)
  IN  /\ LinksAgree(h) /\ is_sorted(h, h.next[HEAD], TAIL, ByKey(keys))
      /\ Len(s) = n /\ {s[i] : i \in 1..n} = 1..n
      /\ \A i, j \in 1..n : i < j => Earlier(keys, s[i], s[j])

\* list_reverse leaves the links of a list that was built from the front;
\* list_unique, list_max and list_min: the links of both lists stay consistent,
\* the first of equal neighbours stays, ties go to the first.
ListScansCorrect(keys) ==
  LET n == Len(keys)
      less == ByKey(keys)
      r == list_reverse(ListOf(n))
      u == list_unique(ListOf(n), less)
      kept == Elements(u, u.next[HEAD], TAIL)
      dups == Elements(u, u.next[DUP_HEAD], DUP_TAIL)
      First(e) == e = 1 \/ keys[e] # keys[e - 1]
      max == list_max(ListOf(n), less)
      min == list_min(ListOf(n), less)
      OnList(e) == e \in 1..n
  IN  /\ LinksAgree(u)
      /\ r = PushFronts(NoElements(n), n)
      /\ kept = SelectSeq([i \in 1..n |-> i], First)
      /\ \A i \in 1..n : ~First(i) <=> \E j \in 1..Len(dups) : dups[j] = i
      /\ list_size(u) + Len(dups) = n
      /\ IF n = 0 THEN max = TAIL /\ min = TAIL
         ELSE /\ OnList(max) /\ \A e \in 1..n : keys[e] <= keys[max] /\ (e < max => keys[e] # keys[max])
              /\ OnList(min) /\ \A e \in 1..n : keys[e] >= keys[min] /\ (e < min => keys[e] # keys[min])
=============================================================================
