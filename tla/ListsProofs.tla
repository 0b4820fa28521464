---------------------------- MODULE ListsProofs ----------------------------
(***************************************************************************)
(* What the list operations of module Lists do to the elements of a list,  *)
(* for lists of any length over any set: the facts the queues' invariants  *)
(* rest on.                                                                *)
(***************************************************************************)
EXTENDS Lists, SequenceTheorems, WellFoundedInduction, FiniteSetTheorems, TLAPS

\* A nonempty set of natural numbers has a least element, which Min returns.
LEMMA MinIsLeast ==
  ASSUME NEW S \in SUBSET Nat, S # {}
  PROVE  Min(S) \in S /\ \A y \in S : Min(S) <= y
<1> SUFFICES \E x \in S : \A y \in S : x <= y
  BY DEF Min
<1>1. PICK x \in S : \A y \in S : ~(<<y, x>> \in OpToRel(<, Nat))
  BY NatLessThanWellFounded, WFMin
<1>2. ASSUME NEW y \in S PROVE x <= y
  <2>1. ~(<<y, x>> \in {ss \in Nat \X Nat : ss[1] < ss[2]})
    BY <1>1 DEF OpToRel
  <2> QED BY <2>1
<1> QED BY <1>2

\* Membership in a list, by position.
LEMMA InRange ==
  ASSUME NEW T, NEW s \in Seq(T), NEW y
  PROVE  y \in Range(s) <=> \E i \in 1..Len(s) : y = s[i]
<1>1. DOMAIN s = 1..Len(s)
  OBVIOUS
<1> QED BY <1>1, Zenon DEF Range

\* list_insert puts the new element at position k and shifts the rest by one.
LEMMA InsertElements ==
  ASSUME NEW T, NEW s \in Seq(T), NEW x \in T, NEW k \in 1..Len(s) + 1
  PROVE  /\ list_insert(s, k, x) \in Seq(T)
         /\ Len(list_insert(s, k, x)) = Len(s) + 1
         /\ \A i \in 1..Len(s) + 1 :
              list_insert(s, k, x)[i] = IF i < k THEN s[i]
                                     ELSE IF i = k THEN x ELSE s[i - 1]
<1> DEFINE a == SubSeq(s, 1, k - 1)
           b == SubSeq(s, k, Len(s))
           c == a \o <<x>>
<1>0. Len(s) \in Nat /\ \A i \in 1..Len(s) : s[i] \in T
  OBVIOUS
<1>1. a \in Seq(T) /\ Len(a) = k - 1 /\ \A i \in 1..k - 1 : a[i] = s[i]
  BY <1>0, SubSeqProperties
<1>2. /\ b \in Seq(T) /\ Len(b) = Len(s) - k + 1
      /\ \A i \in 1..Len(s) - k + 1 : b[i] = s[k + i - 1]
  BY <1>0, SubSeqProperties
<1> HIDE DEF a, b
<1>3. c \in Seq(T) /\ Len(c) = k /\ \A i \in 1..k : c[i] = IF i < k THEN s[i] ELSE x
  BY <1>1, ConcatProperties
<1> HIDE DEF c
<1>4. /\ c \o b \in Seq(T)
      /\ Len(c \o b) = Len(c) + Len(b)
      /\ \A i \in 1..Len(c) + Len(b) :
           (c \o b)[i] = IF i <= Len(c) THEN c[i] ELSE b[i - Len(c)]
  BY <1>2, <1>3, ConcatProperties
<1>5. \A i \in 1..Len(s) + 1 :
        (c \o b)[i] = IF i < k THEN s[i] ELSE IF i = k THEN x ELSE s[i - 1]
  BY <1>0, <1>2, <1>3, <1>4
<1>6. Len(c \o b) = Len(s) + 1
  BY <1>0, <1>2, <1>3, <1>4
<1>7. list_insert(s, k, x) = c \o b
  BY DEF list_insert, a, b, c
<1> QED BY <1>4, <1>5, <1>6, <1>7

\* list_insert_ordered adds exactly its element, and links it once, whatever
\* the comparison and whether or not the list is sorted by it.
LEMMA InsertOrderedElements ==
  ASSUME NEW T, NEW s \in Seq(T), NEW x \in T, NEW less
  PROVE  /\ list_insert_ordered(s, x, less) \in Seq(T)
         /\ Range(list_insert_ordered(s, x, less)) = Range(s) \cup {x}
         /\ NoDuplicates(s) /\ x \notin Range(s)
              => NoDuplicates(list_insert_ordered(s, x, less))
<1> DEFINE after == {i \in 1..Len(s) : less[x][s[i]]}
           k == IF after = {} THEN Len(s) + 1 ELSE Min(after)
           r == list_insert(s, k, x)
<1>0. Len(s) \in Nat /\ DOMAIN s = 1..Len(s)
  OBVIOUS
<1>1. k \in 1..Len(s) + 1
  <2>1. after \subseteq 1..Len(s)
    BY Zenon
  <2> HIDE DEF after
  <2>2. CASE after = {}
    BY <2>2, <1>0
  <2>3. CASE after # {}
    <3>1. Min(after) \in after
      BY <2>1, <2>3, <1>0, MinIsLeast
    <3>2. Min(after) \in 1..Len(s)
      BY <3>1, <2>1
    <3>3. k = Min(after)
      BY <2>3
    <3> QED BY <3>2, <3>3, <1>0
  <2> QED BY <2>2, <2>3
<1> HIDE DEF after, k
<1>2. /\ r \in Seq(T) /\ Len(r) = Len(s) + 1 /\ DOMAIN r = 1..Len(s) + 1
      /\ \A i \in 1..Len(s) + 1 :
           r[i] = IF i < k THEN s[i] ELSE IF i = k THEN x ELSE s[i - 1]
  BY <1>1, InsertElements
<1> HIDE DEF r
<1>3. Range(r) = Range(s) \cup {x}
  <2>1. ASSUME NEW y \in Range(r) PROVE y \in Range(s) \cup {x}
    <3>1. PICK i \in 1..Len(s) + 1 : y = r[i]
      BY <1>2, InRange
    <3>2. CASE i = k
      BY <3>1, <3>2, <1>2
    <3>3. CASE i # k
      <4>1. \E j \in 1..Len(s) : y = s[j]
        BY <3>1, <3>3, <1>0, <1>1, <1>2
      <4> QED BY <4>1, InRange
    <3> QED BY <3>2, <3>3
  <2>2. ASSUME NEW y \in Range(s) PROVE y \in Range(r)
    <3>1. PICK i \in 1..Len(s) : y = s[i]
      BY InRange
    <3>a. CASE i < k
      <4>1. i \in 1..Len(s) + 1 /\ r[i] = s[i]
        BY <3>a, <1>0, <1>1, <1>2
      <4> QED BY <4>1, <3>1, <1>2, InRange
    <3>b. CASE ~(i < k)
      <4>1. i + 1 \in 1..Len(s) + 1 /\ r[i + 1] = s[i]
        BY <3>b, <1>0, <1>1, <1>2
      <4> QED BY <4>1, <3>1, <1>2, InRange
    <3> QED BY <3>a, <3>b
  <2>3. x \in Range(r)
    <3>1. \E j \in 1..Len(r) : x = r[j]
      BY <1>0, <1>1, <1>2
    <3> QED BY <3>1, <1>2, InRange
  <2> QED BY <2>1, <2>2, <2>3
<1>4. NoDuplicates(s) /\ x \notin Range(s) => NoDuplicates(r)
  <2> SUFFICES ASSUME NoDuplicates(s), x \notin Range(s),
                      NEW i \in 1..Len(r), NEW j \in 1..Len(r), r[i] = r[j]
               PROVE  i = j
    BY DEF NoDuplicates
  <2>1. \A h \in 1..Len(s) : s[h] # x
    BY InRange
  <2>2. \A g, h \in 1..Len(s) : s[g] = s[h] => g = h
    BY DEF NoDuplicates
  <2> QED BY <2>1, <2>2, <1>0, <1>1, <1>2
<1>5. list_insert_ordered(s, x, less) = r
  BY DEF list_insert_ordered, after, k, r
<1> QED BY <1>2, <1>3, <1>4, <1>5

\* The keys along list s do not decrease.
SortedBy(s, key) == \A i, j \in 1..Len(s) : i < j => key[s[i]] <= key[s[j]]

\* list_insert_ordered keeps a list sorted when its comparison is by the keys.
LEMMA InsertOrderedSorted ==
  ASSUME NEW T, NEW s \in Seq(T), NEW x \in T, NEW key \in [T -> Int], SortedBy(s, key),
         NEW less, \A a, b \in T : less[a][b] <=> key[a] < key[b]
  PROVE  SortedBy(list_insert_ordered(s, x, less), key)
<1> DEFINE after == {i \in 1..Len(s) : less[x][s[i]]}
           k == IF after = {} THEN Len(s) + 1 ELSE Min(after)
           r == list_insert(s, k, x)
<1>0. Len(s) \in Nat /\ \A i \in 1..Len(s) : s[i] \in T /\ key[s[i]] \in Int
  OBVIOUS
<1>1. \A i \in 1..Len(s) : less[x][s[i]] <=> key[x] < key[s[i]]
  BY <1>0
<1>2. after = {i \in 1..Len(s) : key[x] < key[s[i]]}
  BY <1>1
<1>3. /\ k \in 1..Len(s) + 1
      /\ \A i \in 1..Len(s) : i < k => key[s[i]] <= key[x]
      /\ \A i \in 1..Len(s) : i >= k => key[x] <= key[s[i]]
  <2> HIDE DEF after
  <2>2. CASE after = {}
    BY <2>2, <1>0, <1>2
  <2>3. CASE after # {}
    <3>0. after \in SUBSET Nat
      BY <1>2
    <3>1. Min(after) \in after /\ \A y \in after : Min(after) <= y
      BY <3>0, <2>3, MinIsLeast
    <3>2. k = Min(after)
      BY <2>3
    <3> HIDE DEF k
    <3>3. k \in 1..Len(s) /\ key[x] < key[s[k]]
      BY <3>1, <3>2, <1>2
    <3>4. ASSUME NEW i \in 1..Len(s), i < k PROVE key[s[i]] <= key[x]
      BY <3>1, <3>2, <3>3, <3>4, <1>0, <1>2
    <3>5. ASSUME NEW i \in 1..Len(s), i >= k PROVE key[x] <= key[s[i]]
      <4>1. key[s[k]] <= key[s[i]]
        BY <3>3, <3>5, <1>0 DEF SortedBy
      <4> QED BY <4>1, <3>3, <1>0
    <3> QED BY <3>3, <3>4, <3>5, <1>0
  <2> QED BY <2>2, <2>3
<1> HIDE DEF after, k
<1>4. /\ Len(r) = Len(s) + 1
      /\ \A i \in 1..Len(s) + 1 :
           r[i] = IF i < k THEN s[i] ELSE IF i = k THEN x ELSE s[i - 1]
  BY <1>3, InsertElements
<1> HIDE DEF r
<1>5. SortedBy(r, key)
  <2> SUFFICES ASSUME NEW i \in 1..Len(s) + 1, NEW j \in 1..Len(s) + 1, i < j
               PROVE  key[r[i]] <= key[r[j]]
    BY <1>4 DEF SortedBy
  <2>0. \A g, h \in 1..Len(s) : g < h => key[s[g]] <= key[s[h]]
    BY DEF SortedBy
  <2>1. CASE j < k
    <3>1. i \in 1..Len(s) /\ j \in 1..Len(s) /\ r[i] = s[i] /\ r[j] = s[j]
      BY <2>1, <1>0, <1>3, <1>4
    <3> QED BY <3>1, <2>0
  <2>2. CASE j = k
    BY <2>2, <1>0, <1>3, <1>4
  <2>3. CASE j > k /\ i < k
    <3>1. i \in 1..Len(s) /\ j - 1 \in 1..Len(s) /\ r[i] = s[i] /\ r[j] = s[j - 1]
      BY <2>3, <1>0, <1>3, <1>4
    <3>2. key[s[i]] <= key[x] /\ key[x] <= key[s[j - 1]]
      BY <2>3, <3>1, <1>3
    <3> QED BY <3>1, <3>2, <1>0
  <2>4. CASE j > k /\ i = k
    BY <2>4, <1>0, <1>3, <1>4
  <2>5. CASE i > k
    <3>1. /\ i - 1 \in 1..Len(s) /\ j - 1 \in 1..Len(s) /\ i - 1 < j - 1
          /\ r[i] = s[i - 1] /\ r[j] = s[j - 1]
      BY <2>5, <1>0, <1>3, <1>4
    <3> QED BY <3>1, <2>0
  <2> QED BY <2>1, <2>2, <2>3, <2>4, <2>5, <1>0, <1>3
<1>6. list_insert_ordered(s, x, less) = r
  BY DEF list_insert_ordered, after, k, r
<1> QED BY <1>5, <1>6

\* Appending links the element once, at the end.
LEMMA AppendElements ==
  ASSUME NEW T, NEW s \in Seq(T), NEW x \in T
  PROVE  /\ Append(s, x) \in Seq(T)
         /\ Range(Append(s, x)) = Range(s) \cup {x}
         /\ NoDuplicates(s) /\ x \notin Range(s) => NoDuplicates(Append(s, x))
<1> DEFINE r == Append(s, x)
<1>1. /\ r \in Seq(T) /\ Len(r) = Len(s) + 1 /\ Len(s) \in Nat
      /\ \A i \in 1..Len(s) : r[i] = s[i]
      /\ r[Len(s) + 1] = x
  BY AppendProperties
<1> HIDE DEF r
<1>2. \A y : y \in Range(r) <=> \E i \in 1..Len(r) : y = r[i]
  BY <1>1, InRange
<1>3. \A y : y \in Range(s) <=> \E i \in 1..Len(s) : y = s[i]
  BY InRange
<1>4. Range(r) = Range(s) \cup {x}
  BY <1>1, <1>2, <1>3
<1>5. NoDuplicates(s) /\ x \notin Range(s) => NoDuplicates(r)
  BY <1>1, <1>3 DEF NoDuplicates
<1> QED BY <1>1, <1>4, <1>5 DEF r

\* Popping the front of a list without duplicates removes that element.
LEMMA TailElements ==
  ASSUME NEW T, NEW s \in Seq(T), s # <<>>, NoDuplicates(s)
  PROVE  /\ Head(s) \in T /\ Head(s) \in Range(s)
         /\ Tail(s) \in Seq(T)
         /\ Range(Tail(s)) = Range(s) \ {Head(s)}
         /\ NoDuplicates(Tail(s))
<1> DEFINE r == Tail(s)
<1>1. /\ r \in Seq(T) /\ Len(s) \in Nat \ {0} /\ Len(r) = Len(s) - 1
      /\ \A i \in 1..Len(s) - 1 : r[i] = s[i + 1]
      /\ Head(s) = s[1] /\ s[1] \in T
  OBVIOUS
<1> HIDE DEF r
<1>2. \A y : y \in Range(r) <=> \E i \in 1..Len(r) : y = r[i]
  BY <1>1, InRange
<1>3. \A y : y \in Range(s) <=> \E i \in 1..Len(s) : y = s[i]
  BY InRange
<1>4. \A i, j \in 1..Len(s) : s[i] = s[j] => i = j
  BY DEF NoDuplicates
<1>5. ASSUME NEW y \in Range(r) PROVE y \in Range(s) /\ y # s[1]
  <2>1. PICK i \in 1..Len(r) : y = r[i]
    BY <1>2
  <2>2. i + 1 \in 1..Len(s) /\ y = s[i + 1] /\ 1 \in 1..Len(s)
    BY <2>1, <1>1
  <2> QED BY <2>2, <1>3, <1>4
<1>6. ASSUME NEW y \in Range(s), y # s[1] PROVE y \in Range(r)
  <2>1. PICK i \in 1..Len(s) : y = s[i]
    BY <1>3
  <2>2. i - 1 \in 1..Len(r) /\ y = r[i - 1]
    BY <2>1, <1>1, <1>6
  <2> QED BY <2>2, <1>2
<1>7. NoDuplicates(r)
  BY <1>1, <1>4 DEF NoDuplicates
<1>8. s[1] \in Range(s)
  BY <1>1, <1>3
<1> QED BY <1>1, <1>5, <1>6, <1>7, <1>8 DEF r

\* An arrangement of the positions I links exactly the elements at them, and
\* none twice that the list has once.
LEMMA ArrangementElements ==
  ASSUME NEW T, NEW s \in Seq(T), NEW I \in SUBSET (1..Len(s)), NEW less,
         NEW r \in Arrangements(s, I, less)
  PROVE  /\ r \in Seq(T)
         /\ \A y : y \in Range(r) <=> \E i \in I : y = s[i]
         /\ NoDuplicates(s) => NoDuplicates(r)
<1> DEFINE n == Cardinality(I)
<1>0. Len(s) \in Nat /\ \A i \in 1..Len(s) : s[i] \in T
  OBVIOUS
<1>1. IsFiniteSet(I) /\ n \in Nat
  <2>1. IsFiniteSet(1..Len(s))
    BY <1>0, FS_Interval
  <2>2. IsFiniteSet(I)
    BY <2>1, FS_Subset
  <2> QED BY <2>2, FS_CardinalityType
<1>2. PICK f \in [1..n -> I] :
        /\ r = [i \in 1..n |-> s[f[i]]]
        /\ \A k \in I : \E i \in 1..n : f[i] = k
  BY Zenon DEF Arrangements
<1> HIDE DEF n
<1>3. \A i \in 1..n : f[i] \in I /\ f[i] \in 1..Len(s) /\ r[i] = s[f[i]] /\ r[i] \in T
  BY <1>0, <1>2
<1>4. r \in [1..n -> T]
  BY <1>2, <1>3
<1>5. r \in Seq(T) /\ Len(r) = n
  BY <1>1, <1>4
<1>6. \A y : y \in Range(r) <=> \E i \in 1..n : y = r[i]
  BY <1>5, InRange
<1>7. \A y : y \in Range(r) <=> \E i \in I : y = s[i]
  BY <1>2, <1>3, <1>6
<1>8. f \in Injection(1..n, I)
  <2>1. f \in Surjection(1..n, I)
    BY <1>2 DEF Surjection
  <2>2. IsFiniteSet(1..n) /\ Cardinality(1..n) = n
    BY <1>1, FS_Interval
  <2> QED BY <2>1, <2>2, FS_SurjSameCardinalityImpliesInj DEF n
<1>9. \A i, j \in 1..n : f[i] = f[j] => i = j
  BY <1>8, <1>2 DEF Injection, IsInjective
<1>10. NoDuplicates(s) => NoDuplicates(r)
  BY <1>3, <1>5, <1>9 DEF NoDuplicates
<1> QED BY <1>5, <1>7, <1>10

\* list_sort keeps the elements of a list.
LEMMA SortElements ==
  ASSUME NEW T, NEW s \in Seq(T), NEW less, NEW r \in list_sort(s, less)
  PROVE  /\ r \in Seq(T) /\ Range(r) = Range(s)
         /\ NoDuplicates(s) => NoDuplicates(r)
         /\ s # <<>> => r # <<>>
<1>1. /\ r \in Seq(T)
      /\ \A y : y \in Range(r) <=> \E i \in 1..Len(s) : y = s[i]
      /\ NoDuplicates(s) => NoDuplicates(r)
  BY ArrangementElements DEF list_sort
<1>2. Range(r) = Range(s)
  <2>1. \A y : y \in Range(s) <=> \E i \in 1..Len(s) : y = s[i]
    BY InRange
  <2> QED BY <1>1, <2>1
<1>3. ASSUME s # <<>> PROVE r # <<>>
  <2>1. 1 \in 1..Len(s)
    BY <1>3
  <2>2. s[1] \in Range(r)
    BY <1>1, <2>1
  <2>3. \E i \in 1..Len(r) : s[1] = r[i]
    BY <1>1, <2>2, InRange
  <2> QED BY <2>3
<1> QED BY <1>1, <1>2, <1>3

\* list_sort followed by the removals leaves exactly the elements to keep.
LEMMA SortKeepElements ==
  ASSUME NEW T, NEW s \in Seq(T), NEW keep, NEW less,
         NEW r \in list_sort_keep(s, keep, less)
  PROVE  /\ r \in Seq(T)
         /\ Range(r) = Range(s) \cap keep
         /\ NoDuplicates(s) => NoDuplicates(r)
<1> DEFINE I == {i \in 1..Len(s) : s[i] \in keep}
<1>1. I \in SUBSET (1..Len(s))
  BY Zenon
<1>2. /\ r \in Seq(T)
      /\ \A y : y \in Range(r) <=> \E i \in I : y = s[i]
      /\ NoDuplicates(s) => NoDuplicates(r)
  BY <1>1, ArrangementElements DEF list_sort_keep
<1>3. \A y : y \in Range(s) <=> \E i \in 1..Len(s) : y = s[i]
  BY InRange
<1> QED BY <1>2, <1>3
=============================================================================
