----------------------------- MODULE FileCalls ------------------------------
(***************************************************************************)
(* The system calls on files: the cases of syscall_handler in              *)
(* userprog/syscall.c with the file lock, load and process_exit of         *)
(* userprog/process.c, filesys/file.c, and the search for an open inode in *)
(* filesys/inode.c, which may be interrupted.  A file is the sector of its *)
(* inode, and what it holds is the number of writes to it.                 *)
(***************************************************************************)
EXTENDS OpenInodes, Sequences, FiniteSetsExt

CONSTANTS
  Caller,      \* processes
  Target,      \* files
  nobody,      \* the holder of a lock that is free
  MaxFd, MaxVersion   \* bounds on descriptors and writes

ASSUME FileCallsAssumption ==
  MaxFd \in Nat /\ MaxVersion \in Nat /\ nobody \notin Caller /\ Target \subseteq Nat \ {0}

VARIABLES
  holder,      \* of file_lock
  where, op,   \* per process: its place in a call, and the call
  file_list, fd_count,  \* per process: [fd, file] for the open files, and the next fd
  load,        \* per process: its program's file, which denies writes
  work_dir,    \* per process: the inode of its directory, NIL for one that is no Target
  left_open,   \* per file, structures that were dropped without file_close
  open_list,   \* file -> [open_cnt, deny_write_cnt] for open inodes
  version,     \* per file, the number of writes
  loaded_version, \* per process, what its program held when it was loaded
  overlapped,  \* chdir and another call both found that an inode is not open
  duplicated,  \* a second inode was made for a sector
  halted       \* a fault with the lock held, or a pointer to freed memory was used

call_vars == <<holder, where, op, file_list, fd_count, load, work_dir, left_open, open_list, version,
               loaded_version, overlapped, duplicated, halted>>

NIL == 0
UNSET == -1   \* the directory of a child before its parent has set it

\* "transfer" is SYS_READ or SYS_WRITE, "query" SYS_FILESIZE, SYS_SEEK or SYS_TELL.
Call == [call : {"open", "exec"}, target : Target] \cup [call : {"close", "transfer", "query"}, fd : 2..MaxFd]
NoCall == [call |-> "none"]

\* The first process is the kernel's, and has no program.
FileCallsInit(first) ==
  /\ holder = nobody
  /\ where = [p \in Caller |-> IF p = first THEN "user" ELSE "none"]
  /\ op = [p \in Caller |-> NoCall]
  /\ file_list = [p \in Caller |-> {}] /\ fd_count = [p \in Caller |-> 2]
  /\ load = [p \in Caller |-> NIL] /\ work_dir = [p \in Caller |-> NIL]
  /\ left_open = [t \in Target |-> 0] /\ open_list = <<>>
  /\ version = [t \in Target |-> 0] /\ loaded_version = [p \in Caller |-> 0]
  /\ overlapped = FALSE /\ duplicated = FALSE /\ halted = FALSE

\* Once two inodes may be made for a sector the counts mean nothing, and what
\* follows is not modelled.
At(p, place) == ~halted /\ ~overlapped /\ ~duplicated /\ where[p] = place
MoveTo(p, place) == where' = [where EXCEPT ![p] = place]

Descriptors(p, fd) == {e \in file_list[p] : e.fd = fd}
get_file_by_fd(p, fd) == (CHOOSE e \in Descriptors(p, fd) : TRUE).file
-----------------------------------------------------------------------------
(* The counts of inode.c and file.c, on a table of open inodes.            *)

dir_reopen(list, s) == IF s = NIL THEN list ELSE inode_reopen(list, s)
dir_close(list, s) == IF s = NIL THEN list ELSE inode_close(list, s)

inode_deny_write(list, s) == [list EXCEPT ![s].deny_write_cnt = @ + 1]
inode_allow_write(list, s) == [list EXCEPT ![s].deny_write_cnt = @ - 1]

file_close(list, s, deny_write) ==
  inode_close(IF deny_write THEN inode_allow_write(list, s) ELSE list, s)

\* Variant: whether a program that runs denies writes is not looked at.
write_always(s) == TRUE

MayWrite(s) == open_list[s].deny_write_cnt = 0
-----------------------------------------------------------------------------
(* Entering a call, and the lock.                                          *)

\* Variant: exec does not take the lock.
exec_unlocked(p, c) == IF c.call = "exec" THEN UNCHANGED holder ELSE holder = nobody /\ holder' = p

acquire_file_lock(p, c) == holder = nobody /\ holder' = p

\* Variant: load keeps the lock.
keep_while_loading(p) == IF op[p].call = "load" THEN UNCHANGED holder ELSE holder' = nobody

release_file_lock(p) == holder' = nobody

Enter(p, c) ==
  /\ op' = [op EXCEPT ![p] = c]
  /\ MoveTo(p, IF c.call \in {"open", "exec", "load", "chdir"} THEN "search" ELSE "body")

\* The call returns to the program.
Return(p) == MoveTo(p, "user") /\ op' = [op EXCEPT ![p] = NoCall]

\* A call that takes the lock at once.  SYS_READ and SYS_WRITE look the
\* descriptor up before that, and return when there is none.
BeginCall(p) ==
  /\ At(p, "user")
  /\ \E c \in Call :
       /\ c.call = "transfer" => Descriptors(p, c.fd) # {}
       /\ c.call = "open" => fd_count[p] <= MaxFd
       /\ c.call = "exec" => \E q \in Caller : where[q] = "none"
       /\ acquire_file_lock(p, c)
       /\ Enter(p, c)
  /\ UNCHANGED <<file_list, fd_count, load, work_dir, left_open, open_list, version, loaded_version,
                 overlapped, duplicated, halted>>

\* SYS_CHDIR does not take the lock.
BeginChdir(p) ==
  /\ At(p, "user")
  /\ \E t \in Target : Enter(p, [call |-> "chdir", target |-> t])
  /\ UNCHANGED <<holder, file_list, fd_count, load, work_dir, left_open, open_list, version,
                 loaded_version, overlapped, duplicated, halted>>

\* thread_exit closes the directory, and then takes the lock.  If the program
\* was not loaded, process_exit starts again with exit_process, and the
\* directory is closed a second time: what follows is not modelled.
BeginExit(p) ==
  /\ At(p, "user") \/ At(p, "not_loaded")
  /\ halted' = (where[p] = "not_loaded" /\ work_dir[p] # NIL)
  /\ open_list' = dir_close(open_list, work_dir[p])
  /\ work_dir' = [work_dir EXCEPT ![p] = NIL]
  /\ MoveTo(p, "acquire") /\ op' = [op EXCEPT ![p] = [call |-> "exit"]]
  /\ UNCHANGED <<holder, file_list, fd_count, load, left_open, version, loaded_version, overlapped,
                 duplicated>>

\* A process that was started, or exits, waits for the lock.
WaitForLock(p) ==
  /\ At(p, "acquire")
  /\ acquire_file_lock(p, op[p])
  /\ Enter(p, op[p])
  /\ UNCHANGED <<file_list, fd_count, load, work_dir, left_open, open_list, version, loaded_version,
                 overlapped, duplicated, halted>>
-----------------------------------------------------------------------------
(* inode_open: the search, and the allocation and insertion after it.      *)

Inserts(q, s) == where[q] = "insert" /\ op[q].target = s

InodeSearch(p) ==
  /\ At(p, "search") /\ work_dir[p] # UNSET
  /\ LET s == op[p].target IN
     \/ /\ s \in DOMAIN open_list
        /\ open_list' = inode_reopen(open_list, s)
        /\ MoveTo(p, "opened")
        /\ UNCHANGED overlapped
     \/ /\ s \notin DOMAIN open_list
        /\ MoveTo(p, "insert")
        /\ overlapped' = \E q \in Caller : Inserts(q, s) /\ "chdir" \in {op[p].call, op[q].call}
        /\ UNCHANGED open_list
  /\ UNCHANGED <<holder, op, file_list, fd_count, load, work_dir, left_open, version, loaded_version,
                 duplicated, halted>>

InodeInsert(p) ==
  /\ At(p, "insert")
  /\ LET s == op[p].target IN
     /\ duplicated' = (s \in DOMAIN open_list)
     /\ open_list' = [t \in DOMAIN open_list \cup {s} |->
                        IF t = s THEN [open_cnt |-> 1, deny_write_cnt |-> 0] ELSE open_list[t]]
  /\ MoveTo(p, "opened")
  /\ UNCHANGED <<holder, op, file_list, fd_count, load, work_dir, left_open, version, loaded_version,
                 overlapped, halted>>
-----------------------------------------------------------------------------
(* The calls that open a file.                                             *)

\* SYS_OPEN: the descriptor is given out after the lock is released.
Open(p) ==
  /\ At(p, "opened") /\ op[p].call = "open"
  /\ file_list' = [file_list EXCEPT ![p] = @ \cup {[fd |-> fd_count[p], file |-> op[p].target]}]
  /\ fd_count' = [fd_count EXCEPT ![p] = @ + 1]
  /\ release_file_lock(p) /\ Return(p)
  /\ UNCHANGED <<load, work_dir, left_open, open_list, version, loaded_version, overlapped, duplicated,
                 halted>>

\* SYS_EXEC: the file could be opened, and a child starts.
Exec(p) ==
  /\ At(p, "opened") /\ op[p].call = "exec"
  /\ \E q \in Caller :
       /\ where[q] = "none"
       /\ where' = [where EXCEPT ![p] = "share_dir", ![q] = "acquire"]
       /\ op' = [op EXCEPT ![p] = [call |-> "exec", child |-> q],
                           ![q] = [call |-> "load", target |-> op[p].target]]
       /\ work_dir' = [work_dir EXCEPT ![q] = UNSET]
  /\ open_list' = file_close(open_list, op[p].target, FALSE)
  /\ release_file_lock(p)
  /\ UNCHANGED <<file_list, fd_count, load, left_open, version, loaded_version, overlapped, duplicated,
                 halted>>

\* thread_create gives the child its parent's directory when the child is ready
\* to run already.  (That the parent then waits is the subject of Process.)
ShareDir(p) ==
  /\ At(p, "share_dir")
  /\ work_dir' = [work_dir EXCEPT ![op[p].child] = work_dir[p]]
  /\ open_list' = dir_reopen(open_list, work_dir[p])
  /\ Return(p)
  /\ UNCHANGED <<holder, file_list, fd_count, load, left_open, version, loaded_version, overlapped,
                 duplicated, halted>>

\* A child that runs first has no directory to look for its program in: it
\* follows a null pointer with the lock held.
NoDirectory(p) ==
  /\ At(p, "search") /\ work_dir[p] = UNSET
  /\ halted' = TRUE
  /\ UNCHANGED <<holder, where, op, file_list, fd_count, load, work_dir, left_open, open_list, version,
                 loaded_version, overlapped, duplicated>>

\* load: writes are denied at its end.
Load(p) ==
  /\ At(p, "opened") /\ op[p].call = "load"
  /\ open_list' = inode_deny_write(open_list, op[p].target)
  /\ load' = [load EXCEPT ![p] = op[p].target]
  /\ loaded_version' = [loaded_version EXCEPT ![p] = version[op[p].target]]
  /\ release_file_lock(p) /\ Return(p)
  /\ UNCHANGED <<file_list, fd_count, work_dir, left_open, version, overlapped, duplicated, halted>>

\* A program that cannot be loaded leaves its file open.
LoadFails(p) ==
  /\ At(p, "opened") /\ op[p].call = "load"
  /\ left_open' = [left_open EXCEPT ![op[p].target] = @ + 1]
  /\ MoveTo(p, "not_loaded") /\ op' = [op EXCEPT ![p] = NoCall]
  /\ release_file_lock(p)
  /\ UNCHANGED <<file_list, fd_count, load, work_dir, open_list, version, loaded_version, overlapped,
                 duplicated, halted>>

\* SYS_CHDIR.
Chdir(p) ==
  /\ At(p, "opened") /\ op[p].call = "chdir"
  /\ open_list' = dir_close(open_list, work_dir[p])
  /\ work_dir' = [work_dir EXCEPT ![p] = op[p].target]
  /\ Return(p)
  /\ UNCHANGED <<holder, file_list, fd_count, load, left_open, version, loaded_version, overlapped,
                 duplicated, halted>>
-----------------------------------------------------------------------------
(* The calls on a descriptor, and exit.                                    *)

\* SYS_CLOSE: nothing happens if there is no such descriptor.
Close(p) ==
  /\ At(p, "body") /\ op[p].call = "close"
  /\ LET found == Descriptors(p, op[p].fd)
     IN  /\ file_list' = [file_list EXCEPT ![p] = @ \ found]
         /\ open_list' = IF found = {} THEN open_list
                         ELSE file_close(open_list, get_file_by_fd(p, op[p].fd), FALSE)
  /\ release_file_lock(p) /\ Return(p)
  /\ UNCHANGED <<fd_count, load, work_dir, left_open, version, loaded_version, overlapped, duplicated,
                 halted>>

\* SYS_READ and SYS_WRITE.
ReadWrite(p) ==
  /\ At(p, "body") /\ op[p].call = "transfer"
  /\ LET s == get_file_by_fd(p, op[p].fd)
     IN  \/ UNCHANGED version
         \/ MayWrite(s) /\ version[s] < MaxVersion /\ version' = [version EXCEPT ![s] = @ + 1]
  /\ release_file_lock(p) /\ Return(p)
  /\ UNCHANGED <<file_list, fd_count, load, work_dir, left_open, open_list, loaded_version, overlapped,
                 duplicated, halted>>

\* A buffer of which only the start is in memory: the page fault ends the
\* process, which asks for the lock that it holds, and that is asserted against.
Fault(p) ==
  /\ At(p, "body") /\ op[p].call = "transfer"
  /\ halted' = TRUE
  /\ UNCHANGED <<holder, where, op, file_list, fd_count, load, work_dir, left_open, open_list, version,
                 loaded_version, overlapped, duplicated>>

\* SYS_FILESIZE, SYS_SEEK, SYS_TELL: a descriptor that is not there is followed.
Query(p) ==
  /\ At(p, "body") /\ op[p].call = "query"
  /\ IF Descriptors(p, op[p].fd) = {}
     THEN halted' = TRUE /\ UNCHANGED <<holder, where, op>>
     ELSE release_file_lock(p) /\ Return(p) /\ UNCHANGED halted
  /\ UNCHANGED <<file_list, fd_count, load, work_dir, left_open, open_list, version, loaded_version,
                 overlapped, duplicated>>

DescriptorsOf(p, s) == Cardinality({e \in file_list[p] : e.file = s})

\* The program's file is closed; close_all_filelist frees the
\* descriptors and leaves their files open.
process_exit(p) ==
  /\ At(p, "body") /\ op[p].call = "exit"
  /\ open_list' = IF load[p] = NIL THEN open_list ELSE file_close(open_list, load[p], TRUE)
  /\ left_open' = [s \in Target |-> left_open[s] + DescriptorsOf(p, s)]
  /\ file_list' = [file_list EXCEPT ![p] = {}] /\ fd_count' = [fd_count EXCEPT ![p] = 2]
  /\ load' = [load EXCEPT ![p] = NIL] /\ loaded_version' = [loaded_version EXCEPT ![p] = 0]
  /\ MoveTo(p, "dead") /\ op' = [op EXCEPT ![p] = NoCall]
  /\ release_file_lock(p)
  /\ UNCHANGED <<work_dir, version, overlapped, duplicated, halted>>

CallGoesOn(p) ==
  \/ WaitForLock(p) \/ InodeSearch(p) \/ InodeInsert(p)
  \/ Open(p) \/ Exec(p) \/ ShareDir(p) \/ NoDirectory(p) \/ Load(p) \/ LoadFails(p) \/ Chdir(p)
  \/ Close(p) \/ ReadWrite(p) \/ Query(p) \/ process_exit(p)

FileCallsNext ==
  \E p \in Caller : BeginCall(p) \/ BeginChdir(p) \/ BeginExit(p) \/ CallGoesOn(p) \/ Fault(p)
-----------------------------------------------------------------------------
\* The structures that refer to an inode: files, directories, and the calls
\* that have just opened it.
Openers(s) ==
  left_open[s] + MapThenSumSet(LAMBDA p : DescriptorsOf(p, s), Caller)
    + Cardinality({p \in Caller : load[p] = s}) + Cardinality({p \in Caller : work_dir[p] = s})
    + Cardinality({p \in Caller : where[p] = "opened" /\ op[p].target = s})

\* An inode in memory has one opener for each structure that refers to it, and a
\* second one is never made for the same sector: between a search and the
\* insertion after it no other call looks for the inode, but for chdir, which
\* does not take the file lock.
OneInodePerSector ==
  /\ ~duplicated
  /\ \A s \in Target : (IF s \in DOMAIN open_list THEN open_list[s].open_cnt ELSE 0) = Openers(s)

\* While a program runs nobody changes the file it was loaded from, and the
\* file can be written again when no such program runs; so the denials never
\* outnumber the openers, which inode.c asserts.
ProgramNotWritten ==
  /\ \A p \in Caller : load[p] # NIL => version[load[p]] = loaded_version[p]
  /\ \A s \in DOMAIN open_list :
       open_list[s].deny_write_cnt = Cardinality({p \in Caller : load[p] = s})

\* The file lock is released again, unless the call that holds it faults, or
\* chdir comes between.
LockIsReleased == (holder # nobody) ~> (holder = nobody \/ halted \/ overlapped)
=============================================================================
