------------------------------ MODULE Strings ------------------------------
(***************************************************************************)
(* lib/string.c.  Memory is a function mem from addresses 0..n to bytes; a *)
(* string is its address, and ends at the first byte NUL.  The functions   *)
(* return addresses, or NoAddr for a null pointer, and, when they write,   *)
(* the memory after the call.                                              *)
(***************************************************************************)
EXTENDS Integers, Sequences, FiniteSetsExt

NUL == 0
NoAddr == -1

\* The first address from a on that satisfies P, NoAddr if there is none.
FirstAt(mem, a, P(_)) ==
  LET found == {i \in DOMAIN mem : i >= a /\ P(i)}
  IN  IF found = {} THEN NoAddr ELSE Min(found)

EndOf(mem, a) == FirstAt(mem, a, LAMBDA i : mem[i] = NUL)
strlen(mem, a) == EndOf(mem, a) - a
strnlen(mem, a, maxlen) == Min({strlen(mem, a), maxlen})

RECURSIVE memcpy(_, _, _, _)
\* memcpy, and memmove when the destination comes first: from the first byte.
memcpy(mem, dst, src, size) ==
  IF size = 0 THEN mem
  ELSE memcpy([mem EXCEPT ![dst] = mem[src]], dst + 1, src + 1, size - 1)

RECURSIVE CopyBack(_, _, _, _)
CopyBack(mem, dst, src, size) ==
  IF size = 0 THEN mem
  ELSE CopyBack([mem EXCEPT ![dst + size - 1] = mem[src + size - 1]], dst, src, size - 1)

memmove(mem, dst, src, size) ==
  IF dst < src THEN memcpy(mem, dst, src, size) ELSE CopyBack(mem, dst, src, size)

memset(mem, dst, value, size) ==
  [i \in DOMAIN mem |-> IF i \in dst..dst + size - 1 THEN value ELSE mem[i]]

\* The comparison at the first byte that differs, 0 without one.
CompareAt(mem, a, b, k) ==
  IF mem[a + k] = mem[b + k] THEN 0 ELSE IF mem[a + k] > mem[b + k] THEN 1 ELSE -1

memcmp(mem, a, b, size) ==
  LET differ == {k \in 0..size - 1 : mem[a + k] # mem[b + k]}
  IN  IF differ = {} THEN 0 ELSE CompareAt(mem, a, b, Min(differ))

\* The loop stops at a's end or at a difference, hence not after b's end.
strcmp(mem, a, b) ==
  LET n == Min({strlen(mem, a), strlen(mem, b)})
      stop == {k \in 0..n : mem[a + k] = NUL \/ mem[a + k] # mem[b + k]}
  IN  CompareAt(mem, a, b, Min(stop))

memchr(mem, block, ch, size) ==
  LET a == FirstAt(mem, block, LAMBDA i : mem[i] = ch)
  IN  IF a < block + size THEN a ELSE NoAddr

\* NUL is found at the string's end.
strchr(mem, a, c) ==
  LET p == FirstAt(mem, a, LAMBDA i : mem[i] = c)
  IN  IF p > EndOf(mem, a) THEN NoAddr ELSE p

strrchr(mem, a, c) ==
  LET at == {i \in a..EndOf(mem, a) - 1 : mem[i] = c}
  IN  IF at = {} THEN NoAddr ELSE Max(at)

\* strcspn and strspn with the set of characters of their second argument;
\* the end of the string always stops them.
strcspn(mem, a, stop) == FirstAt(mem, a, LAMBDA i : mem[i] \in stop \cup {NUL}) - a
strspn(mem, a, skip) == FirstAt(mem, a, LAMBDA i : mem[i] \notin skip \ {NUL}) - a

strpbrk(mem, a, stop) ==
  LET p == a + strcspn(mem, a, stop) IN IF mem[p] = NUL THEN NoAddr ELSE p

\* The last offset at which a needle of n characters can be.
LastStart(haystack_len, n) == haystack_len - n

strstr(mem, haystack, needle) ==
  LET n == strlen(mem, needle)
      at == {i \in 0..LastStart(strlen(mem, haystack), n) : memcmp(mem, haystack + i, needle, n) = 0}
  IN  IF at = {} THEN NoAddr ELSE haystack + Min(at)

\* Variant: the saved position is the delimiter, not the byte after it.
save_at_delimiter(mem, e) == e

\* Where strtok_r goes on after a token that ends at e.
SaveAfter(mem, e) == IF mem[e] # NUL THEN e + 1 ELSE e

\* strtok_r with the set of delimiters.  strchr finds NUL in every string, so
\* the first loop also ends at the string's end.
strtok_r(mem, s, delims) ==
  LET token == s + strspn(mem, s, delims)
      e == token + strcspn(mem, token, delims)
  IN  IF mem[token] = NUL
      THEN [mem |-> mem, save |-> token, token |-> NoAddr]
      ELSE [mem |-> [mem EXCEPT ![e] = NUL], save |-> SaveAfter(mem, e), token |-> token]

\* Characters that fit in a buffer of size bytes with the terminator.
Room(size, len) == Min({size - 1, len})

\* strlcpy and strlcat return the length they would have liked.
strlcpy(mem, dst, src, size) ==
  LET n == Room(size, strlen(mem, src))
  IN  [mem |-> IF size = 0 THEN mem
               ELSE [memcpy(mem, dst, src, n) EXCEPT ![dst + n] = NUL],
       ret |-> strlen(mem, src)]

strlcat(mem, dst, src, size) ==
  LET d == strlen(mem, dst)
      n == Room(size - d, strlen(mem, src))
  IN  [mem |-> IF size = 0 \/ d >= size THEN mem
               ELSE [memcpy(mem, dst + d, src, n) EXCEPT ![dst + d + n] = NUL],
       ret |-> strlen(mem, src) + d]
-----------------------------------------------------------------------------
(* What the functions are checked against.                                 *)

Chars(mem, a) == [i \in 1..strlen(mem, a) |-> mem[a + i - 1]]

\* memmove copies what was at the source, however the two ranges overlap; memory
\* that memset has filled moves onto itself.
MemmoveCorrect(mem) ==
  \A dst, src \in DOMAIN mem : \A size \in 0..Cardinality(DOMAIN mem) - Max({dst, src}) :
    /\ memmove(mem, dst, src, size) =
         [i \in DOMAIN mem |-> IF i \in dst..dst + size - 1 THEN mem[src + i - dst] ELSE mem[i]]
    /\ LET filled == memset(mem, src, NUL, size)
       IN  size > 0 => memmove(filled, src, src + 1, size - 1) = filled

RECURSIVE Tokens(_, _, _)
\* The tokens a loop over strtok_r sees, each as it reads when it is returned.
Tokens(mem, s, delims) ==
  LET r == strtok_r(mem, s, delims)
  IN  IF r.token = NoAddr THEN <<>>
      ELSE <<<<r.token, Chars(r.mem, r.token)>>>> \o Tokens(r.mem, r.save, delims)

\* A loop over strtok_r returns exactly the maximal runs of characters that are
\* not delimiters, in order, none empty.
StrtokCorrect(mem, delims) ==
  LET end == EndOf(mem, 0)
      Plain(i) == i \in 0..end - 1 /\ mem[i] \notin delims
      Starts(i) == Plain(i) /\ ~Plain(i - 1)
      starts == SelectSeq([i \in 1..end |-> i - 1], Starts)
      Stop(i) == Min({j \in i..end : ~Plain(j)})
  IN  Tokens(mem, 0, delims) =
        [k \in 1..Len(starts) |->
           <<starts[k], [i \in 1..Stop(starts[k]) - starts[k] |-> mem[starts[k] + i - 1]]>>]

\* strlcpy and strlcat stay within size bytes, leave a terminated string that is
\* the start of the whole one, and return the whole one's length.
StrlCorrect(mem) ==
  \A dst, src \in DOMAIN mem : \A size \in 0..src - dst :
    LET cpy == strlcpy(mem, dst, src, size)
        cat == strlcat(mem, dst, src, size)
        Start(s) == SubSeq(s, 1, Min({size - 1, Len(s)}))
        Outside(m) == \A i \in DOMAIN mem : i \notin dst..dst + size - 1 => m[i] = mem[i]
    IN  /\ Outside(cpy.mem) /\ cpy.ret = strlen(mem, src)
        /\ size > 0 => Chars(cpy.mem, dst) = Start(Chars(mem, src))
        /\ Outside(cat.mem) /\ cat.ret = strlen(mem, dst) + strlen(mem, src)
        /\ strlen(mem, dst) < size
             => Chars(cat.mem, dst) = Start(Chars(mem, dst) \o Chars(mem, src))

\* The searches agree with each other: strcmp orders strings like memcmp over
\* the shorter one's terminator, strchr and strrchr find the ends of the same
\* set, strstr finds the first place where the needle is a prefix.
SearchesAgree(mem) ==
  \A a, b \in DOMAIN mem :
    /\ \A n \in 0..b : memchr(mem, a, NUL, n) = NoAddr <=> strnlen(mem, a, n) = n
    /\ strcmp(mem, a, b) = memcmp(mem, a, b, Min({strlen(mem, a), strlen(mem, b)}) + 1)
    /\ strcmp(mem, a, b) = -strcmp(mem, b, a)
    /\ LET p == strstr(mem, a, b)
           Here(i) == i + strlen(mem, b) <= EndOf(mem, a)
                      /\ \A k \in 0..strlen(mem, b) - 1 : mem[i + k] = mem[b + k]
       IN  IF p = NoAddr THEN \A i \in a..EndOf(mem, a) : ~Here(i)
           ELSE Here(p) /\ \A i \in a..p - 1 : ~Here(i)
    /\ \A c \in {mem[i] : i \in DOMAIN mem} \ {NUL} :
         LET first == strchr(mem, a, c)  last == strrchr(mem, a, c)
         IN  /\ (first = NoAddr) <=> (last = NoAddr)
             /\ first <= last
             /\ first = strpbrk(mem, a, {c})
             /\ first # NoAddr => memchr(mem, a, c, strlen(mem, a)) = first
=============================================================================
