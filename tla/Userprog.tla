------------------------------ MODULE Userprog ------------------------------
(***************************************************************************)
(* Processes and their memory.  A behaviour is about one part: the calls   *)
(* of a family of processes, demand paging, or what load does with one     *)
(* program header or one command line.                                     *)
(***************************************************************************)
EXTENDS Process, Loader, VirtualMemory

CONSTANTS
  MaxFile,       \* length of the executable
  ArgLengths     \* lengths of command line arguments

VARIABLES part, input

vars == <<proc_vars, vm_vars, part, input>>

\* A header is judged for every offset and size in the file.
Header(vaddr, memsz) ==
  [offset : 0..MaxFile + 1, filesz : 0..MaxFile + 1, vaddr : {vaddr}, memsz : {memsz}]

\* Command lines of up to three arguments; argument i is made of the letter i.
Arguments ==
  UNION {{[i \in 1..n |-> [j \in 1..len[i] |-> i]] : len \in [1..n -> ArgLengths]} : n \in 1..3}

Init ==
  /\ ProcessInit /\ VirtualMemoryInit
  /\ \/ part \in {"family", "paging"} /\ input = <<>>
     \/ part = "segment" /\ input \in {<<vaddr, memsz>> : vaddr \in 0..2^W - 1, memsz \in 0..2^W - 1}
     \/ part = "stack" /\ input \in Arguments

Family(A) == part = "family" /\ ~crashed /\ A /\ UNCHANGED <<vm_vars, part, input>>
Paging(A) == part = "paging" /\ A /\ UNCHANGED <<proc_vars, part, input>>

Next == Family(ProcessNext) \/ Paging(VirtualMemoryNext)

\* A call, or a process in the kernel, goes on whenever it can: the scheduler
\* runs every thread, all at the same priority.  Nothing is assumed of the
\* order in which waiters get a lock.
FairSpec ==
  /\ Init /\ [][Next]_vars
  /\ \A p \in Pid : WF_vars(Family(ProcessGoesOn(p)))
  /\ \A p \in Proc : WF_vars(Paging(KernelGoesOn(p)))
-----------------------------------------------------------------------------
\* A segment that validate_segment accepts is mapped where its header says,
\* and setup_stack leaves the arguments for main where it looks for them.
ProgramsLaidOut ==
  /\ part = "segment" =>
       \A ph \in Header(input[1], input[2]) : SegmentMapped(ph, MaxFile)
  /\ part = "stack" => StackLaidOut(input)
=============================================================================
