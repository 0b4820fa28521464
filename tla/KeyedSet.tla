------------------------------ MODULE KeyedSet ------------------------------
(***************************************************************************)
(* What lib/kernel/hash.h promises: a set of elements of which no two are  *)
(* equal, each insertion or removal returning the equal element it met.    *)
(***************************************************************************)
CONSTANTS Key, Tag, None

VARIABLES
  content,   \* a function from the keys present to the tags of their elements
  found      \* the element that the last operation returned, or None

Elem(k) == IF k \in DOMAIN content THEN [key |-> k, tag |-> content[k]] ELSE None

With(k, tag) == [j \in DOMAIN content \cup {k} |-> IF j = k THEN tag ELSE content[j]]

Init == content = <<>> /\ found = None

Insert(k, tag) ==
  /\ found' = Elem(k)
  /\ content' = IF k \in DOMAIN content THEN content ELSE With(k, tag)

Replace(k, tag) == found' = Elem(k) /\ content' = With(k, tag)

Find(k) == found' = Elem(k) /\ UNCHANGED content

Delete(k) ==
  /\ found' = Elem(k)
  /\ content' = [j \in DOMAIN content \ {k} |-> content[j]]

Clear == content' = <<>> /\ found' = None

Next ==
  \/ \E k \in Key, tag \in Tag : Insert(k, tag) \/ Replace(k, tag)
  \/ \E k \in Key : Find(k) \/ Delete(k)
  \/ Clear

Spec == Init /\ [][Next]_<<content, found>>
=============================================================================
