----------------------------- MODULE HashTable ------------------------------
(***************************************************************************)
(* lib/kernel/hash.c: chained buckets whose number follows the number of   *)
(* elements.  A bucket is the sequence of its elements; the list           *)
(* operations are those of ListPointers.  An element is its key, which the *)
(* hash and less functions read, and a tag that tells equal elements apart.*)
(***************************************************************************)
EXTENDS Integers, Sequences, SequencesExt

CONSTANTS
  Key, Tag,
  HashOf,                  \* HashOf[k]: the table's hash function
  MIN_BUCKETS,             \* 4 in hash_init and rehash
  BEST_ELEMS_PER_BUCKET,
  None

VARIABLES
  buckets,    \* function from 0..bucket_cnt - 1 to sequences of elements
  elem_cnt,
  found       \* what the last operation returned

hash_vars == <<buckets, elem_cnt, found>>

Element == [key : Key, tag : Tag]
Power(x) == \E i \in 0..x : x = 2^i

find_bucket(b, e) == HashOf[e.key] % Cardinality(DOMAIN b)

\* The elements of a bucket equal to e, the first in the bucket first.
find_elem(b, i, e) ==
  LET same == SelectSeq(b[i], LAMBDA x : x.key = e.key)
  IN  IF same = <<>> THEN None ELSE same[1]

insert_elem(b, i, e) == [b EXCEPT ![i] = <<e>> \o @]
remove_elem(b, e) == [i \in DOMAIN b |-> SelectSeq(b[i], LAMBDA x : x # e)]

\* Clearing the lowest bit until one is left keeps the highest.
new_bucket_cnt(cnt) ==
  LET want == Max({MIN_BUCKETS, cnt \div BEST_ELEMS_PER_BUCKET})
  IN  Max({2^i : i \in {j \in 0..want : 2^j <= want}})

EmptyBuckets(n) == [i \in 0..n - 1 |-> <<>>]

RECURSIVE iterate(_, _)
\* The elements in the order in which hash_first, hash_next and hash_apply
\* meet them, from bucket i on.
iterate(b, i) == IF i \notin DOMAIN b THEN <<>> ELSE b[i] \o iterate(b, i + 1)

\* Every element, moved in that order to the front of its new bucket.
move_elements(b, n) ==
  FoldLeft(LAMBDA nb, e : insert_elem(nb, find_bucket(nb, e), e), EmptyBuckets(n), iterate(b, 0))

\* malloc may fail, and then the table stays as it is.
rehash(b, cnt) ==
  LET n == new_bucket_cnt(cnt)
  IN  \/ n = Cardinality(DOMAIN b) /\ buckets' = b
      \/ n # Cardinality(DOMAIN b) /\ buckets' \in {b, move_elements(b, n)}

hash_insert(e) ==
  LET i == find_bucket(buckets, e)
      old == find_elem(buckets, i, e)
      b == IF old = None THEN insert_elem(buckets, i, e) ELSE buckets
  IN  /\ found' = old
      /\ elem_cnt' = IF old = None THEN elem_cnt + 1 ELSE elem_cnt
      /\ rehash(b, elem_cnt')

\* Variant: the element that was put in is returned.
replace_returns_new(e) ==
  LET i == find_bucket(buckets, e)
      old == find_elem(buckets, i, e)
      b == IF old = None THEN buckets ELSE remove_elem(buckets, old)
  IN  /\ found' = e
      /\ elem_cnt' = IF old = None THEN elem_cnt + 1 ELSE elem_cnt
      /\ rehash(insert_elem(b, i, e), elem_cnt')

hash_replace(e) ==
  LET i == find_bucket(buckets, e)
      old == find_elem(buckets, i, e)
      b == IF old = None THEN buckets ELSE remove_elem(buckets, old)
  IN  /\ found' = old
      /\ elem_cnt' = IF old = None THEN elem_cnt + 1 ELSE elem_cnt
      /\ rehash(insert_elem(b, i, e), elem_cnt')

hash_find(e) ==
  /\ found' = find_elem(buckets, find_bucket(buckets, e), e)
  /\ UNCHANGED <<buckets, elem_cnt>>

hash_delete(e) ==
  LET old == find_elem(buckets, find_bucket(buckets, e), e)
  IN  /\ found' = old
      /\ \/ old = None /\ UNCHANGED <<buckets, elem_cnt>>
         \/ /\ old # None
            /\ elem_cnt' = elem_cnt - 1
            /\ rehash(remove_elem(buckets, old), elem_cnt - 1)

\* The number of buckets stays.
hash_clear ==
  /\ buckets' = EmptyBuckets(Cardinality(DOMAIN buckets))
  /\ elem_cnt' = 0
  /\ found' = None

HashInit == buckets = EmptyBuckets(MIN_BUCKETS) /\ elem_cnt = 0 /\ found = None

HashNext ==
  \/ \E e \in Element : hash_insert(e) \/ hash_replace(e)
  \/ \E k \in Key : LET e == [key |-> k, tag |-> CHOOSE g \in Tag : TRUE]
                    IN  hash_find(e) \/ hash_delete(e)
  \/ hash_clear
-----------------------------------------------------------------------------
HashElements == {iterate(buckets, 0)[i] : i \in 1..Len(iterate(buckets, 0))}
Content == [k \in {e.key : e \in HashElements} |-> (CHOOSE e \in HashElements : e.key = k).tag]

\* An iteration meets every element once and each is in the bucket where it
\* will be looked for; hash_size is the number of elements, and the number of
\* buckets is a power of 2, as find_bucket's mask needs.
HashPlaced ==
  /\ \A i \in DOMAIN buckets : \A j \in 1..Len(buckets[i]) :
       find_bucket(buckets, buckets[i][j]) = i
  /\ Cardinality(HashElements) = Len(iterate(buckets, 0))
  /\ elem_cnt = Len(iterate(buckets, 0))
  /\ Power(Cardinality(DOMAIN buckets))

\* What the table promises its users, whatever the allocations do: a set of
\* elements with distinct keys, each where it will be looked for.
Promise == INSTANCE KeyedSet WITH content <- Content
HashIsKeyedSet == Promise!Spec /\ []HashPlaced
=============================================================================
