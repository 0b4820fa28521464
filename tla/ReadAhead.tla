----------------------------- MODULE ReadAhead -----------------------------
(***************************************************************************)
(* The buffer cache as inode_read_at and inode_write_at use it, with the   *)
(* read-ahead thread.  These callers, cache_read_ahead and the thread call *)
(* find_cache without cache_lock: a traversal and its move to the back     *)
(* interleave with what the holder of the lock does to the list.           *)
(***************************************************************************)
EXTENDS Cache

CONSTANT MaxAhead    \* bound on the requests in read_ahead_list

VARIABLES
  current,           \* current[t]: the sector t looks for outside cache_lock
  read_ahead_list,
  read_ahead_lock    \* the holder

ahead == <<current, read_ahead_list, read_ahead_lock>>
core == <<disk, cache_list, entry, cache_lock, request, read_buffer, panicked>>

ReadAheadInit ==
  /\ CacheInit
  /\ current = [t \in User \cup {ra} |-> NULL]
  /\ read_ahead_list = <<>>
  /\ read_ahead_lock = NULL

\* A cache_read or cache_write of inode_read_at or inode_write_at; reading
\* decides where the caller goes on.
InodeAccess(u, r) ==
  /\ CacheCall(u, r)
  /\ current' = [current EXCEPT ![u] = r.sector]
  /\ UNCHANGED <<read_ahead_list, read_ahead_lock>>

InodeStep(u) ==
  /\ request[u] # NULL
  /\ UserStep(u, IF request[u].call = "read" THEN "read done" ELSE "write done")
  /\ UNCHANGED ahead

\* find_cache is called without the lock.
BeginFind(t, from, to, s) ==
  /\ Goto(t, from, to, list_begin)
  /\ current' = [current EXCEPT ![t] = s]
  /\ UNCHANGED <<core, read_ahead_list, read_ahead_lock>>

Find(t, from, found, missing) ==
  /\ FindCache(t, from, current[t], found, missing)
  /\ UNCHANGED ahead

\* The traversal stands on a block that was freed: the kernel faults.
FindFault(t) ==
  /\ pc[t] \in {"read check", "write check", "peek", "look"}
  /\ elem[t] \notin Range(cache_list) \cup {NULL}
  /\ panicked' = TRUE
  /\ UNCHANGED <<disk, cache_list, entry, cache_lock, pc, elem, request, read_buffer, ahead>>

\* There is no next sector to read ahead.
EndOfFile(u) ==
  /\ Goto(u, "next", "run", NULL)
  /\ UNCHANGED <<core, ahead>>

\* cache_read_ahead after its lookup.  The thread, if it waits, is signalled.
CacheReadAhead(u) ==
  /\ read_ahead_lock = NULL
  /\ pc[u] = "push" /\ Len(read_ahead_list) < MaxAhead
  /\ read_ahead_list' = Append(read_ahead_list, current[u])
  /\ pc' = [pc EXCEPT ![u] = "run", ![ra] = IF @ = "wait" THEN "woken" ELSE @]
  /\ UNCHANGED <<core, elem, current, read_ahead_lock>>

InodeCaller(u) ==
  \/ \E r \in Store!Request : InodeAccess(u, r)
  \/ InodeStep(u)
  \/ BeginFind(u, "read done", "read check", current[u])
  \/ BeginFind(u, "write done", "write check", current[u])
  \/ Find(u, "read check", "next", "assert")
  \/ Find(u, "write check", "run", "assert")
  \/ EndOfFile(u)
  \/ \E s \in Sector : BeginFind(u, "next", "peek", s)
  \/ Find(u, "peek", "run", "push")
  \/ CacheReadAhead(u)
-----------------------------------------------------------------------------
\* lock_acquire and the first half of cond_wait, which gives the lock up.
ManagerWaits ==
  /\ read_ahead_lock = NULL
  /\ Goto(ra, "manager", "wait", NULL)
  /\ UNCHANGED <<core, ahead>>

\* cond_wait returns with the lock; the first request is looked up.
ManagerWakes ==
  /\ read_ahead_lock = NULL
  /\ read_ahead_lock' = ra
  /\ Goto(ra, "woken", "look", list_begin)
  /\ current' = [current EXCEPT ![ra] = Head(read_ahead_list)]
  /\ UNCHANGED <<core, read_ahead_list>>

\* The request leaves the list once it is looked up.  If the sector is cached
\* the thread returns, with read_ahead_lock held.
ManagerPops ==
  /\ \/ Goto(ra, "found", "exited", NULL)
     \/ Goto(ra, "missing", "acquire", NULL)
  /\ read_ahead_list' = Tail(read_ahead_list)
  /\ UNCHANGED <<core, current, read_ahead_lock>>

\* The sector is not looked up again under cache_lock.
ManagerFills ==
  /\ \/ Acquire(ra, "acquire", "make")
     \/ EvictCache(ra)
     \/ MakeCache(ra, current[ra], FALSE, "load")
     \/ Load(ra)
  /\ UNCHANGED ahead

\* Variant: the lock is released before the sector is read.
returns_unfilled ==
  /\ Goto(ra, "load", "exited", NULL)
  /\ cache_lock' = NULL
  /\ UNCHANGED <<disk, cache_list, entry, request, read_buffer, panicked, ahead>>

\* cache_lock_release; the thread returns, with read_ahead_lock held.
ManagerReturns ==
  /\ Goto(ra, "copy", "exited", NULL)
  /\ cache_lock' = NULL
  /\ UNCHANGED <<disk, cache_list, entry, request, read_buffer, panicked, ahead>>

Manager ==
  \/ ManagerWaits \/ ManagerWakes
  \/ Find(ra, "look", "found", "missing")
  \/ ManagerPops \/ ManagerFills \/ ManagerReturns

ReadAheadNext ==
  /\ ~panicked
  /\ \/ Manager
     \/ WriteBehind /\ UNCHANGED ahead
     \/ \E u \in User : InodeCaller(u)
     \/ \E t \in User \cup {ra} : FindFault(t)

ReadAheadSpec == ReadAheadInit /\ [][ReadAheadNext]_<<vars, ahead>>
-----------------------------------------------------------------------------
\* An entry is on the list before its sector is read from the disk, and
\* lookups happen without the lock: still no cache_read copies out of a
\* buffer that has not been filled, and the list keeps its limit.
ReadsAreFilled ==
  /\ \A u \in User : Garbage \notin Range(read_buffer[u])
  /\ Len(cache_list) <= CACHE_MAX_SECTOR_NO

\* inode_read_at's ASSERT (read_cache != NULL) holds, and inode_write_at
\* does not dereference NULL: the entry a call used is found again.
EntryStillCached == \A u \in User : pc[u] # "assert"
=============================================================================
