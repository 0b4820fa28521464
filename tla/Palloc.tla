------------------------------ MODULE Palloc -------------------------------
(***************************************************************************)
(* The page allocator, threads/palloc.c, under preemption.  A pool's lock  *)
(* is held while palloc_get_multiple searches, but palloc_free_multiple    *)
(* clears its bits without the lock, so the search tests and sets one bit  *)
(* per step.  Locks are the ones of module Synch, reduced to their holder. *)
(* A call stores in ret where its thread goes on when the call returns.    *)
(***************************************************************************)
EXTENDS Bitmap

CONSTANTS
  Thread,
  PGSIZE,           \* bytes in a page
  FreePages,        \* pages between the kernel's end and the end of memory
  user_page_limit,
  NULL

ASSUME PallocAssumption ==
  /\ PGSIZE \in Nat \ {0} /\ FreePages \in Nat /\ user_page_limit \in Nat
  /\ NULL \notin Thread

VARIABLES
  used_map, pool_lock,  \* per pool
  pc, ret,              \* per thread: place in the code, place to return to
  get,                  \* arguments, loop indices and result of the page call
  pages,                \* page groups a thread has from the page allocator
  panicked

pool_vars == <<used_map, pool_lock>>

Pool == {"kernel", "user"}

\* palloc_init: half of memory for each pool, the user's within its limit.
PoolPages ==
  LET user == Min({FreePages \div 2, user_page_limit})
  IN  [kernel |-> FreePages - user, user |-> user]

\* init_pool: the bitmap is at the pool's base.
bm_pages(p) == DIV_ROUND_UP(bitmap_buf_size(PoolPages[p]), PGSIZE)
base(p) == bm_pages(p) + (IF p = "user" THEN PoolPages["kernel"] ELSE 0)

NoCall == [pool |-> "kernel", cnt |-> 0, i |-> 0, j |-> 0]

PallocInit ==
  /\ used_map = [p \in Pool |-> bitmap_create(PoolPages[p] - bm_pages(p))]
  /\ pool_lock = [p \in Pool |-> NULL]
  /\ pc = [t \in Thread |-> "idle"]
  /\ ret = [t \in Thread |-> "idle"]
  /\ get = [t \in Thread |-> NoCall]
  /\ pages = [t \in Thread |-> {}]
  /\ panicked = FALSE

page_from_pool(p, page) == page >= base(p) /\ page < base(p) + bitmap_size(used_map[p])

Goto(t, l) == pc' = [pc EXCEPT ![t] = l]

\* The result of the page call has been used.
PageCallOver(t) ==
  /\ get' = [get EXCEPT ![t] = NoCall]
  /\ ret' = [ret EXCEPT ![t] = "idle"]
-----------------------------------------------------------------------------
(* palloc_get_multiple.                                                    *)

\* Thread t calls it and goes on at r.
CallGet(t, p, n, r) ==
  /\ get' = [get EXCEPT ![t] = [pool |-> p, cnt |-> n, i |-> 0, j |-> 0]]
  /\ ret' = [ret EXCEPT ![t] = r]
  /\ Goto(t, "get")

\* Variant: the search does not take the lock.
GetUnlocked(t) ==
  /\ pc[t] = "get"
  /\ UNCHANGED pool_lock
  /\ Goto(t, "scan")
  /\ UNCHANGED <<used_map, ret, get, pages, panicked>>

GetAcquire(t) ==
  /\ pc[t] = "get"
  /\ pool_lock[get[t].pool] = NULL
  /\ pool_lock' = [pool_lock EXCEPT ![get[t].pool] = t]
  /\ Goto(t, "scan")
  /\ UNCHANGED <<used_map, ret, get, pages, panicked>>

\* bitmap_scan for cleared bits, one bit tested per step.
GetScan(t) ==
  LET g == get[t]  b == used_map[g.pool] IN
  /\ pc[t] = "scan"
  /\ IF g.i > bitmap_size(b) - g.cnt
     THEN get' = [get EXCEPT ![t].i = BITMAP_ERROR] /\ Goto(t, "got")
     ELSE IF b[g.i + g.j]
     THEN get' = [get EXCEPT ![t].i = @ + 1, ![t].j = 0] /\ UNCHANGED pc
     ELSE IF g.j + 1 < g.cnt
     THEN get' = [get EXCEPT ![t].j = @ + 1] /\ UNCHANGED pc
     ELSE get' = [get EXCEPT ![t].j = 0] /\ Goto(t, "flip")
  /\ UNCHANGED <<used_map, pool_lock, ret, pages, panicked>>

\* bitmap_set_multiple, one bit set per step.
GetFlip(t) ==
  LET g == get[t] IN
  /\ pc[t] = "flip"
  /\ used_map' = [used_map EXCEPT ![g.pool] = bitmap_set(@, g.i + g.j, TRUE)]
  /\ IF g.j + 1 < g.cnt
     THEN get' = [get EXCEPT ![t].j = @ + 1] /\ UNCHANGED pc
     ELSE get' = [get EXCEPT ![t].i = base(g.pool) + @] /\ Goto(t, "got")
  /\ UNCHANGED <<pool_lock, ret, pages, panicked>>

\* The lock is released; get[t].i is the first page, or BITMAP_ERROR.
GetRelease(t) ==
  /\ pc[t] = "got"
  /\ pool_lock' = [pool_lock EXCEPT ![get[t].pool] = NULL]
  /\ Goto(t, ret[t])
  /\ UNCHANGED <<used_map, ret, get, pages, panicked>>
-----------------------------------------------------------------------------
(* palloc_free_multiple.                                                   *)

\* Thread t calls it for n > 0 pages, finds their pool, and goes on at r.
CallFree(t, page, n, r) ==
  /\ \E p \in Pool :
       /\ page_from_pool(p, page)
       /\ get' = [get EXCEPT ![t] = [pool |-> p, cnt |-> n, i |-> page - base(p), j |-> 0]]
  /\ ret' = [ret EXCEPT ![t] = r]
  /\ Goto(t, "free")

\* ASSERT (bitmap_all (...)), then one bit cleared per step.
FreeBit(t) ==
  LET g == get[t] IN
  /\ pc[t] = "free"
  /\ IF g.j = 0 /\ ~bitmap_all(used_map[g.pool], g.i, g.cnt)
     THEN panicked' = TRUE /\ UNCHANGED <<used_map, get, pc, ret>>
     ELSE /\ used_map' = [used_map EXCEPT ![g.pool] = bitmap_set(@, g.i + g.j, FALSE)]
          /\ IF g.j + 1 < g.cnt
             THEN get' = [get EXCEPT ![t].j = @ + 1] /\ UNCHANGED <<pc, ret>>
             ELSE PageCallOver(t) /\ Goto(t, ret[t])
          /\ UNCHANGED panicked
  /\ UNCHANGED <<pool_lock, pages>>

PallocStep(t) ==
  GetAcquire(t) \/ GetScan(t) \/ GetFlip(t) \/ GetRelease(t) \/ FreeBit(t)
=============================================================================
