-------------------------------- MODULE Files -------------------------------
(***************************************************************************)
(* The file system above the buffer cache.  A behaviour is about one part: *)
(* where the bytes of growing files are (Inode), names and open inodes     *)
(* (Directory), or the system calls of several processes, step by step     *)
(* (FileCalls).                                                            *)
(***************************************************************************)
EXTENDS Inode, Directory, FileCalls

CONSTANT first   \* the process that runs first, of the callers

VARIABLE part

vars == <<inode_vars, dir_vars, call_vars, part>>

Init == part \in {"growth", "names", "calls"} /\ InodeInit /\ DirectoryInit /\ FileCallsInit(first)

Growth == part = "growth" /\ InodeNext /\ UNCHANGED <<dir_vars, call_vars, part>>
Naming == part = "names" /\ DirectoryNext /\ UNCHANGED <<inode_vars, call_vars, part>>
Calls(A) == part = "calls" /\ A /\ UNCHANGED <<inode_vars, dir_vars, part>>

Next == Growth \/ Naming \/ Calls(FileCallsNext)

\* A call that has begun goes on: no step of it waits for anything but the lock.
FairSpec == Init /\ [][Next]_vars /\ \A p \in Caller : WF_vars(Calls(CallGoesOn(p)))
=============================================================================
