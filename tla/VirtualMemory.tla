--------------------------- MODULE VirtualMemory ----------------------------
(***************************************************************************)
(* Demand paging: vm/frame.c, vm/swap.c and vm/page.c, page_fault of       *)
(* userprog/exception.c, the user pages of userprog/pagedir.c, the calls   *)
(* SYS_MMAP and SYS_MUNMAP, and what load, SYS_READ and process_exit do to *)
(* pages and locks.  Processes run between any two actions: who holds the  *)
(* frame lock goes on step by step while the others use their pages.  A    *)
(* page holds the number of times it was written, and whose it is.         *)
(***************************************************************************)
EXTENDS Integers, Sequences, SequencesExt, FiniteSetsExt

CONSTANTS
  Proc, nobody,
  Page, Kind,    \* user pages; per process, "data", "stack" or "map" for each
  top,           \* the stack page that setup_stack makes
  Buffer,        \* pages that SYS_READ reads into
  Frames, Slots, \* numbers of user frames and of swap slots
  MaxWrites      \* bound on the writes to a page of each kind

ASSUME VirtualMemoryAssumption ==
  /\ Kind \in [Proc -> [Page -> {"data", "stack", "map"}]]
  /\ \A p \in Proc : Kind[p][top] = "stack"
  /\ Buffer \subseteq Page
  /\ nobody \notin Proc /\ {Frames, Slots} \subseteq Nat \ {0}
  /\ MaxWrites \in [{"data", "stack", "map"} -> Nat]

VARIABLES
  frame_holder, file_holder,  \* of frame_table_lock and file_lock
  pc, inside,    \* where a process is; which call it touches pages in
  upage,         \* the page it faults on or stores to
  sup_page_table,\* per process: page -> [swapped, loaded, swap_index]
  pagedir,       \* per process: page -> [kpage, dirty], for pages present
  frame_table,   \* sequence of [origin_thread, upage, kpage]
  free_frames, memory,      \* the user pool, and what frames hold
  swap_table, swap_disk,    \* slots in use, and what these hold
  file,          \* per process and page: what the file behind it holds
  expected,      \* per process and page: what was last written
  lost,          \* pages whose contents an eviction did not keep
  stopped        \* a failed assertion stopped the kernel

vm_vars == <<frame_holder, file_holder, pc, inside, upage, sup_page_table, pagedir, frame_table,
             free_frames, memory, swap_table, swap_disk, file, expected, lost, stopped>>

Frame == 1..Frames
Slot == 1..Slots
NO_SLOT == 0
NO_PAGE == 0
Content(p, u, n) == <<p, u, n>>
Nothing == <<>>     \* what a frame or slot that is free holds

VirtualMemoryInit ==
  /\ frame_holder = nobody /\ file_holder = nobody
  /\ pc = [p \in Proc |-> "new"] /\ inside = [p \in Proc |-> "load"]
  /\ upage = [p \in Proc |-> top]
  /\ sup_page_table = [p \in Proc |-> <<>>] /\ pagedir = [p \in Proc |-> <<>>]
  /\ frame_table = <<>> /\ free_frames = Frame /\ memory = [f \in Frame |-> Nothing]
  /\ swap_table = {} /\ swap_disk = [s \in Slot |-> Nothing]
  /\ file = [p \in Proc |-> [u \in Page |-> Content(p, u, 0)]] /\ expected = file
  /\ lost = {} /\ stopped = FALSE

At(p, place) == ~stopped /\ pc[p] = place
GoOn(p, place) == pc' = [pc EXCEPT ![p] = place]
Put(f, x, v) == [y \in DOMAIN f \cup {x} |-> IF y = x THEN v ELSE f[y]]
Drop(f, x) == [y \in DOMAIN f \ {x} |-> f[y]]

\* The process goes on with what it was doing when it had to wait.
Resume(p) == GoOn(p, IF inside[p] = "user" THEN "user" ELSE "store")

Locks == <<frame_holder, file_holder>>
Memory == <<frame_table, free_frames, memory>>
Swap == <<swap_table, swap_disk>>
History == <<expected, lost>>
-----------------------------------------------------------------------------
(* Page tables.                                                            *)

Present(p, u) == u \in DOMAIN pagedir[p]                           \* pagedir_get_page
pagedir_is_dirty(p, u) == Present(p, u) /\ pagedir[p][u].dirty
pagedir_set_page(p, u, kpage, dirty) ==
  pagedir' = [pagedir EXCEPT ![p] = Put(@, u, [kpage |-> kpage, dirty |-> dirty])]

\* Variant: the page stays where the process finds it.
clear_nothing(p, u) == UNCHANGED pagedir

pagedir_clear_page(p, u) == pagedir' = [pagedir EXCEPT ![p] = Drop(@, u)]

get_sup_pte(p, u) == sup_page_table[p][u]
HasEntry(p, u) == u \in DOMAIN sup_page_table[p]
SetEntry(p, u, e) == sup_page_table' = [sup_page_table EXCEPT ![p] = Put(@, u, e)]
NewEntry(loaded) == [swapped |-> FALSE, loaded |-> loaded, swap_index |-> NO_SLOT]
-----------------------------------------------------------------------------
(* Programs.  A page that is present is read and written directly.         *)

\* Who is being evicted: the first frame, from the look at its dirty bit on.
Evicts(q) == pc[q] \in {"swap_out", "write_back", "clear"}
Victim(p, u) ==
  /\ \E q \in Proc : Evicts(q)
  /\ Head(frame_table).origin_thread = p /\ Head(frame_table).upage = u

\* A store to a page that is being evicted may come too late for it.
Written(p, u) ==
  /\ expected[p][u][3] < MaxWrites[Kind[p][u]]
  /\ LET v == Content(p, u, expected[p][u][3] + 1)
     IN  /\ memory' = [memory EXCEPT ![pagedir[p][u].kpage] = v]
         /\ expected' = [expected EXCEPT ![p][u] = v]
  /\ pagedir' = [pagedir EXCEPT ![p][u].dirty = TRUE]
  /\ lost' = IF Victim(p, u) THEN lost \cup {<<p, u>>} ELSE lost

UserWrite(p, u) ==
  /\ At(p, "user") /\ Present(p, u)
  /\ Written(p, u)
  /\ UNCHANGED <<Locks, pc, inside, upage, sup_page_table, frame_table, free_frames, Swap, file, stopped>>

Fault(p, u) ==
  /\ At(p, "user") /\ ~Present(p, u)
  /\ upage' = [upage EXCEPT ![p] = u]
  /\ GoOn(p, "fault")
  /\ UNCHANGED <<Locks, inside, sup_page_table, pagedir, Memory, Swap, file, History, stopped>>

\* SYS_READ: the buffer starts in a page that is present, and reaches page u.  It
\* is filled, and may be faulted in, with the lock held.
sys_read(p, u) ==
  /\ At(p, "user") /\ u \in Buffer /\ DOMAIN pagedir[p] # {} /\ expected[p][u][3] < MaxWrites[Kind[p][u]]
  /\ file_holder = nobody /\ file_holder' = p
  /\ inside' = [inside EXCEPT ![p] = "read"] /\ upage' = [upage EXCEPT ![p] = u]
  /\ GoOn(p, "store")
  /\ UNCHANGED <<frame_holder, sup_page_table, pagedir, Memory, Swap, file, History, stopped>>

\* The store of SYS_READ, or of setup_stack, which ends the call.
Store(p) ==
  /\ At(p, "store")
  /\ IF Present(p, upage[p])
     THEN /\ Written(p, upage[p])
          /\ file_holder' = nobody
          /\ inside' = [inside EXCEPT ![p] = "user"] /\ upage' = [upage EXCEPT ![p] = NO_PAGE]
          /\ GoOn(p, "user")
     ELSE GoOn(p, "fault") /\ UNCHANGED <<file_holder, inside, upage, memory, pagedir, History>>
  /\ UNCHANGED <<frame_holder, sup_page_table, frame_table, free_frames, Swap, file, stopped>>

\* load takes the file lock, and load_segment and setup_stack the frame lock.
load(p) ==
  /\ At(p, "new")
  /\ file_holder = nobody /\ file_holder' = p
  /\ GoOn(p, "segment")
  /\ UNCHANGED <<frame_holder, inside, upage, sup_page_table, pagedir, Memory, Swap, file, History, stopped>>

LazySegment(p) ==
  /\ At(p, "segment")
  /\ frame_holder = nobody
  /\ sup_page_table' = [sup_page_table EXCEPT ![p] = [u \in {v \in Page : Kind[p][v] = "data"} |-> NewEntry(FALSE)]]
  /\ GoOn(p, "fault")
  /\ UNCHANGED <<Locks, inside, upage, pagedir, Memory, Swap, file, History, stopped>>
-----------------------------------------------------------------------------
(* page_fault, and setup_stack, which gets its frame in the same way.      *)

acquire_frame_lock(p) == frame_holder = nobody /\ frame_holder' = p

\* Variant: the lock is not released.
keep_frame_lock == UNCHANGED frame_holder

release_frame_lock == frame_holder' = nobody

\* What the page needs: a frame, nothing because it is no page of the process,
\* or what the code asserts not to happen: a stack page that was evicted while
\* clean has no file to be loaded from.
Needs(p, u) ==
  CASE ~HasEntry(p, u) -> IF Kind[p][u] = "stack" THEN "frame" ELSE "exit"
    [] HasEntry(p, u) /\ get_sup_pte(p, u).loaded -> "frame"
    [] OTHER -> IF Kind[p][u] = "stack" THEN "assert" ELSE "frame"

page_fault(p) ==
  /\ At(p, "fault")
  /\ LET needs == Needs(p, upage[p]) IN
     \/ /\ needs = "frame"
        /\ acquire_frame_lock(p) /\ GoOn(p, "alloc") /\ UNCHANGED <<upage, stopped>>
     \/ /\ needs = "exit" /\ frame_holder = nobody
        /\ upage' = [upage EXCEPT ![p] = NO_PAGE]
        /\ GoOn(p, "exit") /\ UNCHANGED <<frame_holder, stopped>>
     \/ /\ needs = "assert" /\ frame_holder = nobody
        /\ stopped' = TRUE /\ UNCHANGED <<frame_holder, pc, upage>>
  /\ UNCHANGED <<file_holder, inside, sup_page_table, pagedir, Memory, Swap, file, History>>

\* palloc_free_page, which overwrites the frames.
Freed(kpages) ==
  /\ free_frames' = free_frames \cup kpages
  /\ memory' = [f \in Frame |-> IF f \in kpages THEN Nothing ELSE memory[f]]

\* A free frame is taken, and entered in the frame table.
frame_alloc(p) ==
  /\ At(p, "alloc") /\ free_frames # {}
  /\ LET f == Min(free_frames)
     IN  /\ free_frames' = free_frames \ {f}
         /\ frame_table' = Append(frame_table, [origin_thread |-> p, upage |-> upage[p], kpage |-> f])
  /\ GoOn(p, "fill")
  /\ UNCHANGED <<Locks, inside, upage, sup_page_table, pagedir, memory, Swap, file, History, stopped>>

\* frame_evict: the first frame; what is done with it depends on a look at its
\* dirty bit.  A full swap disk and a file lock that the process has already
\* are asserted against.
frame_evict(p) ==
  /\ At(p, "alloc") /\ free_frames = {}
  /\ LET q == Head(frame_table).origin_thread
         u == Head(frame_table).upage
         e == get_sup_pte(q, u)
     IN  \/ /\ Kind[q][u] # "map" /\ pagedir_is_dirty(q, u) /\ swap_table # Slot
            /\ SetEntry(q, u, [e EXCEPT !.swapped = TRUE, !.swap_index = Min(Slot \ swap_table)])
            /\ swap_table' = swap_table \cup {Min(Slot \ swap_table)}
            /\ GoOn(p, "swap_out") /\ UNCHANGED stopped
         \/ /\ ~pagedir_is_dirty(q, u)
            /\ SetEntry(q, u, [e EXCEPT !.loaded = FALSE])
            /\ GoOn(p, "clear") /\ UNCHANGED <<swap_table, stopped>>
         \/ /\ Kind[q][u] = "map" /\ pagedir_is_dirty(q, u) /\ file_holder # p
            /\ GoOn(p, "write_back") /\ UNCHANGED <<sup_page_table, swap_table, stopped>>
         \/ /\ pagedir_is_dirty(q, u)
            /\ IF Kind[q][u] = "map" THEN file_holder = p ELSE swap_table = Slot
            /\ stopped' = TRUE /\ UNCHANGED <<sup_page_table, swap_table, pc>>
  /\ UNCHANGED <<Locks, inside, upage, pagedir, Memory, swap_disk, file, History>>

swap_out(p) ==
  /\ At(p, "swap_out")
  /\ LET v == Head(frame_table)
     IN  swap_disk' = [swap_disk EXCEPT ![get_sup_pte(v.origin_thread, v.upage).swap_index] = memory[v.kpage]]
  /\ GoOn(p, "clear")
  /\ UNCHANGED <<Locks, inside, upage, sup_page_table, pagedir, Memory, swap_table, file, History, stopped>>

\* file_write_at is given the user address of the page, which is one of the
\* process that evicts: what is written may be that process's page, and if it
\* has none there, the fault asks for the frame lock again.
write_back(p) ==
  /\ At(p, "write_back")
  /\ file_holder = nobody
  /\ LET q == Head(frame_table).origin_thread
         u == Head(frame_table).upage
     IN  IF Present(p, u)
         THEN /\ file' = [file EXCEPT ![q][u] = memory[pagedir[p][u].kpage]]
              /\ lost' = IF p = q THEN lost ELSE lost \cup {<<q, u>>}
              /\ SetEntry(q, u, [get_sup_pte(q, u) EXCEPT !.loaded = FALSE])
              /\ GoOn(p, "clear") /\ UNCHANGED stopped
         ELSE stopped' = TRUE /\ UNCHANGED <<file, lost, sup_page_table, pc>>
  /\ UNCHANGED <<Locks, inside, upage, pagedir, Memory, Swap, expected>>

\* The end of frame_evict: the page is not present any more, its frame is free,
\* and frame_alloc takes a frame.
Clear(p) ==
  /\ At(p, "clear")
  /\ LET v == Head(frame_table)
     IN  /\ pagedir_clear_page(v.origin_thread, v.upage)
         /\ Freed({v.kpage})
  /\ frame_table' = Tail(frame_table)
  /\ GoOn(p, "alloc")
  /\ UNCHANGED <<Locks, inside, upage, sup_page_table, Swap, file, History, stopped>>

SlotsFreed(slots) ==
  /\ swap_table' = swap_table \ slots
  /\ swap_disk' = [s \in Slot |-> IF s \in slots THEN Nothing ELSE swap_disk[s]]

NewFrame(p) == Last(frame_table).kpage

\* Variant: the page is not marked as one that its slot no longer holds.
swapped_in_clean == FALSE

DirtyAfterSwapIn == TRUE

\* swap_in, the lazy load or the zeroed page; the page is present, and the
\* frame lock is released.
Fill(p) ==
  /\ At(p, "fill")
  /\ LET u == upage[p]
         e == IF HasEntry(p, u) THEN get_sup_pte(p, u) ELSE NewEntry(TRUE)
         source == CASE ~HasEntry(p, u) -> Content(p, u, 0)
                     [] e.swapped -> swap_disk[e.swap_index]
                     [] OTHER -> file[p][u]
     IN  /\ memory' = [memory EXCEPT ![NewFrame(p)] = source]
         /\ pagedir_set_page(p, u, NewFrame(p), e.swapped /\ DirtyAfterSwapIn)
         /\ SetEntry(p, u, NewEntry(TRUE))
         /\ SlotsFreed(IF e.swapped THEN {e.swap_index} ELSE {})
  /\ release_frame_lock
  /\ Resume(p)
  /\ upage' = IF inside[p] = "user" THEN [upage EXCEPT ![p] = NO_PAGE] ELSE upage
  /\ UNCHANGED <<file_holder, inside, frame_table, free_frames, file, History, stopped>>
-----------------------------------------------------------------------------
(* Mapped files.                                                           *)

\* The page is entered, and not loaded; an address in use is refused.
sys_mmap(p, u) ==
  /\ At(p, "user") /\ Kind[p][u] = "map" /\ ~HasEntry(p, u)
  /\ frame_holder = nobody
  /\ SetEntry(p, u, NewEntry(FALSE))
  /\ UNCHANGED <<Locks, pc, inside, upage, pagedir, Memory, Swap, file, History, stopped>>

\* frame_free, by the frame's address.
frame_free(table, kpage) == SelectSeq(table, LAMBDA v : v.kpage # kpage)

\* A page that is not dirty, or not present, goes at once.
Unmapped(p, u) ==
  /\ sup_page_table' = [sup_page_table EXCEPT ![p] = Drop(@, u)]
  /\ IF Present(p, u)
     THEN /\ frame_table' = frame_free(frame_table, pagedir[p][u].kpage)
          /\ Freed({pagedir[p][u].kpage})
     ELSE UNCHANGED Memory
  /\ pagedir' = [pagedir EXCEPT ![p] = Drop(@, u)]

sys_munmap(p, u) ==
  /\ At(p, "user") /\ Kind[p][u] = "map" /\ HasEntry(p, u)
  /\ IF pagedir_is_dirty(p, u)
     THEN /\ acquire_frame_lock(p)
          /\ upage' = [upage EXCEPT ![p] = u]
          /\ GoOn(p, "unmap") /\ UNCHANGED <<sup_page_table, pagedir, Memory>>
     ELSE /\ frame_holder = nobody
          /\ Unmapped(p, u) /\ UNCHANGED <<frame_holder, pc, upage>>
  /\ UNCHANGED <<file_holder, inside, Swap, file, History, stopped>>

\* Without any mapped page the front of mmap_list is asserted to exist.
MunmapNothing(p) ==
  /\ At(p, "user") /\ \A u \in Page : Kind[p][u] = "map" => ~HasEntry(p, u)
  /\ frame_holder = nobody
  /\ stopped' = TRUE
  /\ UNCHANGED <<Locks, pc, inside, upage, sup_page_table, pagedir, Memory, Swap, file, History>>

\* With the frame lock held it waits for the file lock.
MunmapWrite(p) ==
  /\ At(p, "unmap")
  /\ file_holder = nobody
  /\ file' = [file EXCEPT ![p][upage[p]] = memory[pagedir[p][upage[p]].kpage]]
  /\ Unmapped(p, upage[p])
  /\ upage' = [upage EXCEPT ![p] = NO_PAGE]
  /\ release_frame_lock
  /\ GoOn(p, "user")
  /\ UNCHANGED <<file_holder, inside, Swap, History, stopped>>
-----------------------------------------------------------------------------
(* process_exit.                                                           *)

Exit(p) ==
  /\ At(p, "user")
  /\ GoOn(p, "exit")
  /\ UNCHANGED <<Locks, inside, upage, sup_page_table, pagedir, Memory, Swap, file, History, stopped>>

\* The file lock is taken for the open files; one who has it already stops.
ExitFiles(p) ==
  /\ At(p, "exit")
  /\ \/ file_holder = nobody /\ GoOn(p, "exit_pages") /\ UNCHANGED stopped
     \/ file_holder = p /\ stopped' = TRUE /\ UNCHANGED pc
  /\ UNCHANGED <<Locks, inside, upage, sup_page_table, pagedir, Memory, Swap, file, History>>

SlotsOf(p) == {get_sup_pte(p, u).swap_index : u \in {v \in DOMAIN sup_page_table[p] : get_sup_pte(p, v).swapped}}

\* page_table_remove: dirty pages of mapped files are written, all frames and
\* slots are freed.  What the other pages held is of no interest any more.
ExitPages(p) ==
  /\ At(p, "exit_pages")
  /\ frame_holder = nobody
  /\ file' = [file EXCEPT ![p] = [u \in Page |->
                IF Kind[p][u] = "map" /\ pagedir_is_dirty(p, u) THEN memory[pagedir[p][u].kpage] ELSE @[u]]]
  /\ frame_table' = SelectSeq(frame_table, LAMBDA v : v.origin_thread # p)
  /\ Freed({pagedir[p][u].kpage : u \in DOMAIN pagedir[p]})
  /\ SlotsFreed(SlotsOf(p))
  /\ pagedir' = [pagedir EXCEPT ![p] = <<>>] /\ sup_page_table' = [sup_page_table EXCEPT ![p] = <<>>]
  /\ GoOn(p, "dead")
  /\ expected' = [expected EXCEPT ![p] = [u \in Page |-> IF Kind[p][u] = "map" THEN @[u] ELSE Content(p, u, 0)]]
  /\ lost' = {x \in lost : x[1] = p => Kind[p][x[2]] = "map"}
  /\ UNCHANGED <<Locks, inside, upage, stopped>>

\* The steps of what has begun in the kernel.
KernelGoesOn(p) ==
  \/ Store(p) \/ LazySegment(p) \/ page_fault(p) \/ frame_alloc(p) \/ frame_evict(p) \/ swap_out(p)
  \/ write_back(p) \/ Clear(p) \/ Fill(p) \/ MunmapWrite(p) \/ ExitFiles(p) \/ ExitPages(p)

VirtualMemoryNext ==
  \E p \in Proc :
    \/ load(p) \/ MunmapNothing(p) \/ Exit(p) \/ KernelGoesOn(p)
    \/ \E u \in Page : UserWrite(p, u) \/ Fault(p, u) \/ sys_read(p, u) \/ sys_mmap(p, u) \/ sys_munmap(p, u)

-----------------------------------------------------------------------------
InTable(p, u) == \E i \in DOMAIN frame_table : frame_table[i].origin_thread = p /\ frame_table[i].upage = u

\* Every frame is free or in the frame table once, for one page; each page that
\* is present has that frame, and only a page that the holder of the frame lock
\* is about to fill has a frame and is not present: no page is seen by two
\* processes, and no frame is lost, whatever is evicted, unmapped or exits.
FramesOwnedOnce ==
  /\ \A i, j \in DOMAIN frame_table : i # j => frame_table[i].kpage # frame_table[j].kpage
  /\ {frame_table[i].kpage : i \in DOMAIN frame_table} = Frame \ free_frames
  /\ \A p \in Proc : \A u \in DOMAIN pagedir[p] : InTable(p, u)
  /\ \A i \in DOMAIN frame_table :
       LET v == frame_table[i]
       IN  IF Present(v.origin_thread, v.upage) THEN pagedir[v.origin_thread][v.upage].kpage = v.kpage
           ELSE frame_holder = v.origin_thread /\ upage[frame_holder] = v.upage

Swapped == {<<p, u>> \in Proc \X Page : HasEntry(p, u) /\ get_sup_pte(p, u).swapped}

\* A swap slot is in use exactly if it is the slot of a page that is swapped
\* out, and of one only: slots are neither shared nor leaked.
SlotsOwnedOnce ==
  /\ swap_table = {get_sup_pte(x[1], x[2]).swap_index : x \in Swapped}
  /\ Cardinality(Swapped) = Cardinality(swap_table)

\* Neither memory nor swap space is shared by two pages or lost.
StorageOwnedOnce == FramesOwnedOnce /\ SlotsOwnedOnce

\* What the next access to a page finds, or the file, if it is not a page.
Found(p, u) ==
  IF Present(p, u) THEN memory[pagedir[p][u].kpage]
  ELSE IF HasEntry(p, u) /\ get_sup_pte(p, u).swapped THEN swap_disk[get_sup_pte(p, u).swap_index]
  ELSE file[p][u]

\* A page holds what was last written to it, wherever it is: in a frame, on the
\* swap disk or in its file.  The exceptions are the pages in lost: written by
\* its process between the look at the dirty bit and the end of the eviction,
\* or a page of a mapped file that another process evicted.
ContentsKept ==
  \A p \in Proc, u \in Page :
    \/ <<p, u>> \in lost
    \/ Kind[p][u] = "stack" /\ ~(HasEntry(p, u) /\ get_sup_pte(p, u).loaded)
    \/ Found(p, u) = expected[p][u]

\* One holds the frame lock and waits for the file lock, another the reverse.
Crossed ==
  \E p, q \in Proc :
    /\ frame_holder = p /\ pc[p] \in {"write_back", "unmap"}
    /\ file_holder = q /\ pc[q] \in {"segment", "fault"}

\* What the holder of one lock waits for comes free: the locks are taken in both
\* orders, and the wait only lasts if two processes really cross.
LocksComeFree ==
  (frame_holder # nobody /\ file_holder # nobody)
    ~> (frame_holder = nobody \/ file_holder = nobody \/ stopped \/ Crossed)
=============================================================================
