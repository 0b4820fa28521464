------------------------------ MODULE Malloc -------------------------------
(***************************************************************************)
(* The block allocator, threads/malloc.c, on the page allocator of module  *)
(* Palloc, called by threads that preempt each other.  A block is its      *)
(* arena's page and its index; a big block has index 0.  What happens      *)
(* under a descriptor's lock without a call is one step.  Contents are     *)
(* left out, but not the lengths that are copied or cleared.               *)
(***************************************************************************)
EXTENDS Palloc, Sequences

CONSTANTS
  MinBlock,      \* bytes in the smallest block
  SizeofArena,   \* bytes in an arena header
  SIZE_BITS,     \* width of size_t
  Sizes,         \* arguments of malloc, calloc and realloc
  PageCounts,    \* arguments of palloc_get_multiple
  MaxHeld        \* bound: blocks and page groups a thread has at a time

ASSUME MallocAssumption ==
  /\ MinBlock \in Nat \ {0} /\ SizeofArena \in Nat /\ SIZE_BITS \in Nat
  /\ Sizes \subseteq Nat /\ PageCounts \subseteq Nat /\ MaxHeld \in Nat

VARIABLES
  arena,         \* per page: the header while the page holds one, else NULL
  free_list, desc_lock,   \* per descriptor
  req,           \* per thread: size and descriptor of the request, realloc's block
  blocks         \* per thread: the blocks it has, with the size it asked for

heap == <<arena, free_list, desc_lock, req, blocks>>
malloc_vars == <<used_map, pool_lock, pc, ret, get, pages, panicked, heap>>

\* malloc_init: powers of two from MinBlock to below half a page.
Desc == {d \in 0..9 : MinBlock * 2^d < PGSIZE \div 2}
DescSize(d) == MinBlock * 2^d
blocks_per_arena(d) == (PGSIZE - SizeofArena) \div DescSize(d)

Request == [size |-> 0, desc |-> NULL, old |-> NULL]

MallocInit ==
  /\ PallocInit
  /\ arena = [g \in 0..FreePages - 1 |-> NULL]
  /\ free_list = [d \in Desc |-> <<>>]
  /\ desc_lock = [d \in Desc |-> NULL]
  /\ req = [t \in Thread |-> Request]
  /\ blocks = [t \in Thread |-> {}]

\* The smallest descriptor whose blocks hold size bytes, NULL for a big block.
FindDesc(size) ==
  LET fits == {d \in Desc : DescSize(d) >= size}
  IN  IF fits = {} THEN NULL ELSE Min(fits)

\* block_size: the bytes that can be used in block b.
block_size(b) ==
  LET a == arena[b.page]
  IN  IF a.desc # NULL THEN DescSize(a.desc) ELSE PGSIZE * a.free_cnt - SizeofArena

\* Pages of a big block with its header.
BigPages(size) == DIV_ROUND_UP(size + SizeofArena, PGSIZE)

NewHeader(d) == [desc |-> d, free_cnt |-> blocks_per_arena(d)]
ArenaBlocks(page, d) == [i \in 1..blocks_per_arena(d) |-> [page |-> page, idx |-> i - 1]]

Held(t) == Cardinality(blocks[t]) + Cardinality(pages[t])
-----------------------------------------------------------------------------
(* malloc.                                                                 *)

\* The call, up to its first lock; old is realloc's block or NULL.
malloc(t, size, old) ==
  /\ size > 0
  /\ req' = [req EXCEPT ![t] = [size |-> size, desc |-> FindDesc(size), old |-> old]]
  /\ IF FindDesc(size) = NULL
     THEN CallGet(t, "kernel", BigPages(size), "big")
     ELSE Goto(t, "desc") /\ UNCHANGED <<ret, get>>

\* malloc returns; realloc goes on to free its old block.
MallocReturns(t, got) ==
  IF req[t].old = NULL \/ ~got
  THEN Goto(t, "idle") /\ req' = [req EXCEPT ![t] = Request]
  ELSE Goto(t, "copy") /\ UNCHANGED req

BigBlock(t) ==
  LET g == get[t] IN
  /\ pc[t] = "big"
  /\ IF g.i = BITMAP_ERROR
     THEN UNCHANGED <<arena, blocks>>
     ELSE /\ arena' = [arena EXCEPT ![g.i] = [desc |-> NULL, free_cnt |-> g.cnt]]
          /\ blocks' = [blocks EXCEPT ![t] =
                          @ \cup {[page |-> g.i, idx |-> 0, size |-> req[t].size]}]
  /\ MallocReturns(t, g.i # BITMAP_ERROR)
  /\ PageCallOver(t)
  /\ UNCHANGED <<pool_vars, pages, panicked, free_list, desc_lock>>

DescAcquire(t) ==
  LET d == req[t].desc IN
  /\ pc[t] = "desc"
  /\ desc_lock[d] = NULL
  /\ desc_lock' = [desc_lock EXCEPT ![d] = t]
  /\ IF free_list[d] = <<>>
     THEN CallGet(t, "kernel", 1, "arena")
     ELSE Goto(t, "pop") /\ UNCHANGED <<ret, get>>
  /\ UNCHANGED <<pool_vars, pages, panicked, arena, free_list, req, blocks>>

NewArena(t) ==
  LET d == req[t].desc  page == get[t].i IN
  /\ pc[t] = "arena"
  /\ IF page = BITMAP_ERROR
     THEN /\ desc_lock' = [desc_lock EXCEPT ![d] = NULL]
          /\ MallocReturns(t, FALSE)
          /\ UNCHANGED <<arena, free_list>>
     ELSE /\ arena' = [arena EXCEPT ![page] = NewHeader(d)]
          /\ free_list' = [free_list EXCEPT ![d] = @ \o ArenaBlocks(page, d)]
          /\ Goto(t, "pop")
          /\ UNCHANGED <<desc_lock, req>>
  /\ PageCallOver(t)
  /\ UNCHANGED <<pool_vars, pages, panicked, blocks>>

\* Variant: the arena's count of free blocks is not lowered.
pop_uncounted(t) ==
  LET d == req[t].desc  b == Head(free_list[d]) IN
  /\ pc[t] = "pop"
  /\ free_list' = [free_list EXCEPT ![d] = Tail(@)]
  /\ blocks' = [blocks EXCEPT ![t] =
                  @ \cup {[page |-> b.page, idx |-> b.idx, size |-> req[t].size]}]
  /\ desc_lock' = [desc_lock EXCEPT ![d] = NULL]
  /\ MallocReturns(t, TRUE)
  /\ UNCHANGED <<pool_vars, ret, get, pages, panicked, arena>>

PopBlock(t) ==
  LET d == req[t].desc  b == Head(free_list[d]) IN
  /\ pc[t] = "pop"
  /\ free_list' = [free_list EXCEPT ![d] = Tail(@)]
  /\ arena' = [arena EXCEPT ![b.page].free_cnt = @ - 1]
  /\ blocks' = [blocks EXCEPT ![t] =
                  @ \cup {[page |-> b.page, idx |-> b.idx, size |-> req[t].size]}]
  /\ desc_lock' = [desc_lock EXCEPT ![d] = NULL]
  /\ MallocReturns(t, TRUE)
  /\ UNCHANGED <<pool_vars, ret, get, pages, panicked>>
-----------------------------------------------------------------------------
(* free.                                                                   *)

\* The call, up to the descriptor's lock: a->desc is read without it.
free(t, b) ==
  /\ blocks' = [blocks EXCEPT ![t] = @ \ {b}]
  /\ IF arena[b.page].desc = NULL
     THEN /\ CallFree(t, b.page, arena[b.page].free_cnt, "idle")
          /\ arena' = [arena EXCEPT ![b.page] = NULL]
          /\ req' = [req EXCEPT ![t] = Request]
     ELSE /\ Goto(t, "push")
          /\ req' = [req EXCEPT ![t] = [size |-> 0, desc |-> arena[b.page].desc,
                                       old |-> [page |-> b.page, idx |-> b.idx]]]
          /\ UNCHANGED <<arena, ret, get>>

\* The block goes to the front of the free list; an arena without a block in
\* use leaves the list and goes back to the page allocator, under the lock.
PushBlock(t) ==
  LET d == req[t].desc  b == req[t].old
      cnt == arena[b.page].free_cnt + 1
      list == <<b>> \o free_list[d]
      Elsewhere(f) == f.page # b.page
  IN
  /\ pc[t] = "push"
  /\ desc_lock[d] = NULL
  /\ IF cnt >= blocks_per_arena(d)
     THEN /\ free_list' = [free_list EXCEPT ![d] = SelectSeq(list, Elsewhere)]
          /\ arena' = [arena EXCEPT ![b.page] = NULL]
          /\ CallFree(t, b.page, 1, "release")
          /\ desc_lock' = [desc_lock EXCEPT ![d] = t]
          /\ UNCHANGED req
     ELSE /\ free_list' = [free_list EXCEPT ![d] = list]
          /\ arena' = [arena EXCEPT ![b.page].free_cnt = cnt]
          /\ req' = [req EXCEPT ![t] = Request]
          /\ Goto(t, "idle")
          /\ UNCHANGED <<desc_lock, ret, get>>
  /\ UNCHANGED <<pool_vars, pages, panicked, blocks>>

FreeRelease(t) ==
  /\ pc[t] = "release"
  /\ desc_lock' = [desc_lock EXCEPT ![req[t].desc] = NULL]
  /\ req' = [req EXCEPT ![t] = Request]
  /\ Goto(t, "idle")
  /\ UNCHANGED <<pool_vars, ret, get, pages, panicked, arena, free_list, blocks>>
-----------------------------------------------------------------------------
(* The calls a thread makes.                                               *)

Malloc(t, size) ==
  /\ pc[t] = "idle" /\ Held(t) < MaxHeld
  /\ malloc(t, size, NULL)
  /\ UNCHANGED <<pool_vars, pages, panicked, arena, free_list, desc_lock, blocks>>

\* calloc multiplies modulo the width of size_t and tests the product.
Calloc(t, a, b) ==
  LET size == (a * b) % 2^SIZE_BITS IN
  /\ pc[t] = "idle" /\ Held(t) < MaxHeld
  /\ size >= a /\ size >= b
  /\ malloc(t, size, NULL)
  /\ UNCHANGED <<pool_vars, pages, panicked, arena, free_list, desc_lock, blocks>>

Free(t, b) ==
  /\ pc[t] = "idle"
  /\ free(t, b)
  /\ UNCHANGED <<pool_vars, pages, panicked, free_list, desc_lock>>

\* realloc to a new size; a zero size is Free.
Realloc(t, b, size) ==
  /\ pc[t] = "idle" /\ Held(t) <= MaxHeld
  /\ malloc(t, size, b)
  /\ UNCHANGED <<pool_vars, pages, panicked, arena, free_list, desc_lock, blocks>>

\* realloc has its new block: it copies, then frees the old one.
ReallocCopy(t) ==
  /\ pc[t] = "copy"
  /\ free(t, req[t].old)
  /\ UNCHANGED <<pool_vars, pages, panicked, free_list, desc_lock>>

PallocGet(t, p, n) ==
  /\ pc[t] = "idle" /\ Held(t) < MaxHeld
  /\ n > 0
  /\ CallGet(t, p, n, "pages")
  /\ UNCHANGED <<pool_vars, pages, panicked, heap>>

PallocGot(t) ==
  /\ pc[t] = "pages"
  /\ pages' = IF get[t].i = BITMAP_ERROR THEN pages
              ELSE [pages EXCEPT ![t] = @ \cup {[page |-> get[t].i, cnt |-> get[t].cnt]}]
  /\ Goto(t, "idle")
  /\ PageCallOver(t)
  /\ UNCHANGED <<pool_vars, panicked, heap>>

PallocFree(t, g) ==
  /\ pc[t] = "idle"
  /\ pages' = [pages EXCEPT ![t] = @ \ {g}]
  /\ CallFree(t, g.page, g.cnt, "idle")
  /\ UNCHANGED <<pool_vars, panicked, heap>>

ThreadStep(t) ==
  \/ \E size \in Sizes : Malloc(t, size)
  \/ \E a, b \in Sizes : Calloc(t, a, b)
  \/ \E b \in blocks[t] : Free(t, b) \/ \E size \in Sizes : Realloc(t, b, size)
  \/ \E p \in Pool, n \in PageCounts : PallocGet(t, p, n)
  \/ \E g \in pages[t] : PallocFree(t, g)
  \/ PallocStep(t) /\ UNCHANGED heap
  \/ PallocGot(t) \/ BigBlock(t) \/ DescAcquire(t) \/ NewArena(t) \/ PopBlock(t)
  \/ PushBlock(t) \/ FreeRelease(t) \/ ReallocCopy(t)

MallocNext == ~panicked /\ \E t \in Thread : ThreadStep(t)
-----------------------------------------------------------------------------
(* Properties.                                                             *)

\* The pages that thread t is between having and not having: found and partly
\* marked, handed over, or partly cleared.
InFlight(t) ==
  LET g == get[t] IN
  CASE pc[t] = "flip" -> {base(g.pool) + g.i + k : k \in 0..g.j - 1}
    [] pc[t] = "free" -> {base(g.pool) + g.i + k : k \in g.j..g.cnt - 1}
    [] pc[t] \in {"got", "big", "arena", "pages"} /\ g.i # BITMAP_ERROR ->
         g.i..g.i + g.cnt - 1
    [] OTHER -> {}

ArenaPages(a) ==
  IF arena[a] = NULL THEN {}
  ELSE IF arena[a].desc = NULL THEN a..a + arena[a].free_cnt - 1 ELSE {a}

\* Everything that page g belongs to.
Owners(g) ==
  {<<"arena", a>> : a \in {a \in DOMAIN arena : g \in ArenaPages(a)}}
    \cup {<<"call", t>> : t \in {t \in Thread : g \in InFlight(t)}}
    \cup {<<"group", x>> : x \in {x \in UNION {pages[t] : t \in Thread} :
                                   g \in x.page..x.page + x.cnt - 1}}

\* No page is handed out twice and none is lost: a page has one owner when its
\* bit is set and none when it is clear, although bits are cleared without
\* the lock under which they are searched; and no page is freed twice.
PagesOwnedOnce ==
  /\ ~panicked
  /\ \A p \in Pool : \A k \in DOMAIN used_map[p] :
       Cardinality(Owners(base(p) + k)) = (IF used_map[p][k] THEN 1 ELSE 0)

\* The blocks of an arena that threads have, or are about to put back.
InUse(a) ==
  UNION {{b.idx : b \in {b \in blocks[t] : b.page = a}} : t \in Thread}
    \cup {req[t].old.idx : t \in {t \in Thread : pc[t] = "push" /\ req[t].old.page = a}}

\* Every block of an arena is either in use or on its descriptor's free list,
\* once, the arena's count is the number of those on the list, and an arena is
\* without a block in use only while malloc is about to take one.  A block has
\* room for the bytes malloc was asked for, big blocks with their header
\* included; so realloc copies within both of its blocks.
BlocksAccounted ==
  /\ \A t \in Thread : \A b \in blocks[t] : b.size <= block_size(b)
  /\ \A d \in Desc :
       LET fl == free_list[d]
           mine == {a \in DOMAIN arena : arena[a] # NULL /\ arena[a].desc = d}
       IN  /\ \A i \in 1..Len(fl) : fl[i].page \in mine
           /\ \A i, j \in 1..Len(fl) : fl[i] = fl[j] => i = j
           /\ \A a \in mine :
                LET idle == {fl[i].idx : i \in {i \in 1..Len(fl) : fl[i].page = a}}
                IN  /\ idle \cap InUse(a) = {}
                    /\ idle \cup InUse(a) = 0..blocks_per_arena(d) - 1
                    /\ arena[a].free_cnt = Cardinality(idle)
                    /\ InUse(a) = {} => \E t \in Thread : pc[t] = "pop" /\ req[t].desc = d
=============================================================================
