------------------------------- MODULE Cache -------------------------------
(***************************************************************************)
(* The buffer cache of filesys/cache.c: callers of cache_read and          *)
(* cache_write, the write-behind thread and the shutdown, all of which     *)
(* work on cache_list with cache_lock held.                                *)
(*                                                                         *)
(* A task's step ends where it may lose the CPU with the list in a state   *)
(* that others could see: at the lock, at every element of a traversal and *)
(* at the disk.  An entry is a block that malloc returned; NULL stands for *)
(* the tail of the list.                                                   *)
(***************************************************************************)
EXTENDS Lists

CONSTANTS
  User,      \* the threads that call cache_read and cache_write
  wb,        \* the thread of thread_function_wb_frequently
  ra,        \* the thread of read_ahead_manager, for module ReadAhead
  Sector,
  Byte,      \* the offsets in a sector
  Value,     \* what a byte can hold
  Garbage,   \* what a byte of a block holds that nobody has written
  Entry,     \* the blocks malloc can return for a struct cache
  CACHE_MAX_SECTOR_NO,
  NULL

Task == User \cup {wb, ra}

ASSUME CacheAssumption ==
  /\ wb \notin User /\ ra \notin User \cup {wb}
  /\ NULL \notin Task \cup Entry
  /\ Garbage \notin Value
  /\ CACHE_MAX_SECTOR_NO \in Nat \ {0}

VARIABLES
  disk,
  cache_list, entry,   \* entry[e]: the fields of block e
  cache_lock,          \* the holder
  pc, elem,            \* elem[t]: the entry that t's local variable points to
  request,             \* the arguments of the call that a user is in
  read_buffer,
  panicked

vars == <<disk, cache_list, entry, cache_lock, pc, elem, request, read_buffer, panicked>>

\* What the file system takes the sectors to hold: the entry for a sector,
\* unless it is still being filled, and else the disk.
Contents ==
  [s \in Sector |->
     LET found == {e \in Range(cache_list) :
                     /\ entry[e].sector = s
                     /\ \A u \in User : elem[u] = e => pc[u] \notin {"load", "fill"}}
     IN  IF found = {} THEN disk[s] ELSE entry[CHOOSE e \in found : TRUE].buffer]

Store == INSTANCE SectorStore WITH NoRequest <- NULL, store <- Contents

\* A block that is not in use: free fills it.
Blank == [sector |-> NULL, dirty |-> FALSE, buffer |-> [b \in Byte |-> Garbage]]

CacheInit ==
  /\ disk \in [Sector -> [Byte -> Value]]
  /\ cache_list = <<>>
  /\ entry = [e \in Entry |-> Blank]
  /\ cache_lock = NULL
  /\ pc = [t \in Task |-> CASE t = wb -> "sleep" [] t = ra -> "manager" [] OTHER -> "run"]
  /\ elem = [t \in Task |-> NULL]
  /\ request = [u \in User |-> NULL]
  /\ read_buffer = [u \in User |-> <<>>]
  /\ panicked = FALSE
-----------------------------------------------------------------------------
Goto(t, from, to, e) ==
  /\ pc[t] = from
  /\ pc' = [pc EXCEPT ![t] = to]
  /\ elem' = [elem EXCEPT ![t] = e]

list_begin == IF cache_list = <<>> THEN NULL ELSE Head(cache_list)

list_next(e) ==
  LET i == CHOOSE i \in DOMAIN cache_list : cache_list[i] = e
  IN  IF i = Len(cache_list) THEN NULL ELSE cache_list[i + 1]

Full == Len(cache_list) >= CACHE_MAX_SECTOR_NO

\* The disk after write_behind.
WrittenBehind(e) ==
  IF entry[e].dirty THEN [disk EXCEPT ![entry[e].sector] = entry[e].buffer] ELSE disk

write_behind(e) ==
  /\ disk' = WrittenBehind(e)
  /\ entry' = [entry EXCEPT ![e].dirty = FALSE]

CacheCall(u, r) ==
  /\ Goto(u, "run", "acquire", NULL)
  /\ request' = [request EXCEPT ![u] = r]
  /\ read_buffer' = [read_buffer EXCEPT ![u] = <<>>]
  /\ UNCHANGED <<disk, cache_list, entry, cache_lock, panicked>>

\* cache_lock_acquire, then the start of a traversal.  A task that has the
\* lock already fails the ASSERT in lock_acquire.
Acquire(t, from, to) ==
  /\ cache_lock \in {NULL, t}
  /\ cache_lock' = t
  /\ panicked' = (cache_lock = t)
  /\ Goto(t, from, to, list_begin)
  /\ UNCHANGED <<disk, cache_list, entry, request, read_buffer>>

\* Variant: only the first entry is compared.
find_front_only(t, from, s, found, missing) ==
  /\ IF elem[t] # NULL /\ entry[elem[t]].sector = s
     THEN /\ Goto(t, from, found, elem[t])
          /\ cache_list' = Append(list_remove(cache_list, elem[t]), elem[t])
     ELSE Goto(t, from, missing, NULL) /\ UNCHANGED cache_list
  /\ UNCHANGED <<disk, entry, cache_lock, request, read_buffer, panicked>>

\* One turn of the loop in find_cache.  The entry found goes to the back.
FindCache(t, from, s, found, missing) ==
  LET e == elem[t]
  IN  /\ \/ /\ e = NULL
            /\ Goto(t, from, missing, NULL)
            /\ UNCHANGED cache_list
         \/ /\ e \in Range(cache_list) /\ entry[e].sector = s
            /\ Goto(t, from, found, e)
            /\ cache_list' = Append(list_remove(cache_list, e), e)
         \/ /\ e \in Range(cache_list) /\ entry[e].sector # s
            /\ Goto(t, from, from, list_next(e))
            /\ UNCHANGED cache_list
      /\ UNCHANGED <<disk, entry, cache_lock, request, read_buffer, panicked>>

\* evict_cache up to the end of write_behind: the front of the list is chosen.
EvictCache(t) ==
  /\ Full
  /\ Goto(t, "make", "evict", list_begin)
  /\ write_behind(list_begin)
  /\ UNCHANGED <<cache_list, cache_lock, request, read_buffer, panicked>>

\* The rest of evict_cache, if there was one, and of make_cache.
MakeCache(t, s, dirty, next) ==
  LET kept == IF pc[t] = "evict" THEN list_remove(cache_list, elem[t]) ELSE cache_list
  IN  /\ pc[t] = "make" => ~Full
      /\ \E e \in Entry \ Range(kept) :
           /\ Goto(t, IF pc[t] = "evict" THEN "evict" ELSE "make", next, e)
           /\ cache_list' = Append(kept, e)
           /\ entry' = [f \in Entry |-> IF f = e THEN [Blank EXCEPT !.sector = s, !.dirty = dirty]
                                       ELSE IF f \in Range(kept) THEN entry[f] ELSE Blank]
      /\ UNCHANGED <<disk, cache_lock, request, read_buffer, panicked>>

\* Variant: a partial write does not read the rest of the sector.
load_reads_only(r) == r.call = "read"

\* A sector is read from the disk unless all of it is about to be written.
NeedsLoad(r) == r.call = "read" \/ r.bytes # Byte

Load(t) ==
  /\ Goto(t, "load", "copy", elem[t])
  /\ entry' = [entry EXCEPT ![elem[t]].buffer = disk[entry[elem[t]].sector]]
  /\ UNCHANGED <<disk, cache_list, cache_lock, request, read_buffer, panicked>>

\* The memcpy at the end of cache_read and cache_write, and the release.
CacheCopy(u, next) ==
  LET r == request[u]
      e == elem[u]
  IN  /\ pc[u] \in {"copy", "fill"} /\ Goto(u, pc[u], next, NULL)
      /\ \/ /\ r.call = "read"
            /\ read_buffer' = [read_buffer EXCEPT ![u] =
                                 [b \in r.bytes |-> entry[e].buffer[b]]]
            /\ UNCHANGED entry
         \/ /\ r.call = "write"
            /\ entry' = [entry EXCEPT ![e].dirty = TRUE,
                 ![e].buffer = [b \in Byte |-> IF b \in r.bytes THEN r.data ELSE @[b]]]
            /\ UNCHANGED read_buffer
      /\ request' = [request EXCEPT ![u] = NULL]
      /\ cache_lock' = NULL
      /\ UNCHANGED <<disk, cache_list, panicked>>
-----------------------------------------------------------------------------
\* timer_sleep (500) returns; no release comes before the next one.
WriteBehindWakes ==
  /\ Goto(wb, "sleep", "acquire", NULL)
  /\ UNCHANGED <<disk, cache_list, entry, cache_lock, request, read_buffer, panicked>>

\* One turn of the traversal in thread_function_wb_frequently.
WriteBehindStep ==
  /\ \/ /\ elem[wb] = NULL
        /\ Goto(wb, "scan", "sleep", NULL)
        /\ UNCHANGED <<disk, entry>>
     \/ /\ elem[wb] # NULL
        /\ Goto(wb, "scan", "scan", list_next(elem[wb]))
        /\ write_behind(elem[wb])
  /\ UNCHANGED <<cache_list, cache_lock, request, read_buffer, panicked>>

\* filesys_done calls destroy_cache_list, whose loop empties the list.
FilesysDone(u) ==
  /\ Goto(u, "run", "shutdown", NULL)
  /\ UNCHANGED <<disk, cache_list, entry, cache_lock, request, read_buffer, panicked>>

DestroyStep(u) ==
  /\ \/ /\ cache_list = <<>>
        /\ Goto(u, "destroy", "off", NULL)
        /\ cache_lock' = NULL
        /\ UNCHANGED <<disk, cache_list, entry>>
     \/ /\ cache_list # <<>>
        /\ Goto(u, "destroy", "destroy", list_next(elem[u]))
        /\ disk' = WrittenBehind(elem[u])
        /\ entry' = [entry EXCEPT ![elem[u]] = Blank]
        /\ cache_list' = list_remove(cache_list, elem[u])
        /\ UNCHANGED cache_lock
  /\ UNCHANGED <<request, read_buffer, panicked>>
-----------------------------------------------------------------------------
\* The steps of cache_read and cache_write; the caller goes on at next.
UserStep(u, next) ==
  LET r == request[u]
  IN  \/ Acquire(u, "acquire", "find")
      \/ FindCache(u, "find", r.sector, "copy", "make")
      \/ EvictCache(u)
      \/ MakeCache(u, r.sector, r.call = "write", IF NeedsLoad(r) THEN "load" ELSE "fill")
      \/ Load(u)
      \/ CacheCopy(u, next)

WriteBehind == WriteBehindWakes \/ Acquire(wb, "acquire", "scan") \/ WriteBehindStep

Shutdown(u) == FilesysDone(u) \/ Acquire(u, "shutdown", "destroy") \/ DestroyStep(u)

Next ==
  /\ ~panicked
  /\ \/ WriteBehind
     \/ \E u \in User : \/ \E r \in Store!Request : CacheCall(u, r)
                        \/ request[u] # NULL /\ UserStep(u, "run")
                        \/ Shutdown(u)

Spec == CacheInit /\ [][Next]_vars
-----------------------------------------------------------------------------
\* find_cache finds what is cached: there is one entry for a sector, however
\* lookups, evictions and the shutdown follow each other.  With two, a write
\* to one of them is lost.  The list never outgrows its limit.
OneEntryPerSector ==
  /\ Len(cache_list) <= CACHE_MAX_SECTOR_NO
  /\ NoDuplicates(cache_list)
  /\ \A e, f \in Range(cache_list) : entry[e].sector = entry[f].sector => e = f

\* cache_read returns what cache_write wrote last, through evictions, partial
\* writes, write-behind and the shutdown: the cache is a store of sectors.
IsSectorStore == Store!StoreSpec

\* lock_acquire's ASSERT that the caller does not hold the lock never fails.
NoSelfAcquire == ~panicked
=============================================================================
