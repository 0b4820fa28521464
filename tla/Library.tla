------------------------------ MODULE Library -------------------------------
(***************************************************************************)
(* The kernel's library and its memory.  A behaviour is one call of a pure *)
(* function with an input from a small set, a life of a hash table, or the *)
(* calls of threads that share the allocators: call says which.            *)
(***************************************************************************)
EXTENDS ListPointers, Strings, Stdlib, Arithmetic, Printf, HashTable, Malloc

CONSTANTS
  ListLen, ArrayLen, MemLen,   \* bounds on the inputs' lengths
  Keys,                        \* list keys, array items and string bytes
  Delims,                      \* strtok_r's delimiters
  Directives                   \* directives of format strings

VARIABLE call

SeqsUpTo(n) == UNION {[1..k -> Keys] : k \in 0..n}

Calls ==
  [op : {"list"}, arg : SeqsUpTo(ListLen)] \cup [op : {"array"}, arg : SeqsUpTo(ArrayLen)]
    \cup [op : {"string"}, arg : {m \in [0..MemLen -> Keys] : m[MemLen] = NUL}]
    \cup [op : {"divide"}, arg : 0..B * B - 1]
    \cup [op : {"printf"}, arg : -HalfRange..HalfRange - 1]
    \cup [op : {"hash", "memory"}, arg : {0}]

Init == call \in Calls /\ HashInit /\ MallocInit

\* A pure function has returned.
Returned ==
  /\ call.op \notin {"hash", "memory"}
  /\ UNCHANGED <<hash_vars, malloc_vars>>

Next ==
  /\ \/ Returned
     \/ call.op = "hash" /\ HashNext /\ UNCHANGED malloc_vars
     \/ call.op = "memory" /\ MallocNext /\ UNCHANGED hash_vars
  /\ UNCHANGED call

Spec == Init /\ [][Next]_<<call, hash_vars, malloc_vars>>
-----------------------------------------------------------------------------
\* list_sort is a stable sort of the list it is given and leaves its links in
\* order, list_reverse, list_splice and list_remove do too, and list_unique,
\* list_max and list_min choose the elements they document; sort orders an
\* array and binary_search finds what is in it.
SortsRight ==
  /\ call.op = "list" => ListSortCorrect(call.arg) /\ ListScansCorrect(call.arg)
  /\ call.op = "array" => SortCorrect(call.arg, Keys)

\* memmove is right for ranges that overlap either way, strtok_r splits a
\* string into its tokens, strlcpy and strlcat truncate within the size and
\* terminate, and the comparing and searching functions agree.
StringsRight ==
  call.op = "string" =>
    /\ MemmoveCorrect(call.arg) /\ StrtokCorrect(call.arg, Delims)
    /\ StrlCorrect(call.arg) /\ SearchesAgree(call.arg)

\* The 64-bit division built from 32-bit ones gives the quotient, and the
\* remainder's low half.
Divides == call.op = "divide" => DivisionCorrect(call.arg)

\* atoi reads what printf writes, an integer conversion stays within its
\* buffer, and it is as wide as its directive asks.
PrintfRight ==
  call.op = "printf" =>
    /\ RoundTrip(call.arg, Directives) /\ BufferFits(call.arg, Directives)
    /\ FieldFilled(call.arg, Directives)
=============================================================================
