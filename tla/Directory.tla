----------------------------- MODULE Directory ------------------------------
(***************************************************************************)
(* Names, open inodes and working directories: filesys/directory.c,        *)
(* filesys/filesys.c, and the part of filesys/inode.c that counts openers. *)
(* A call of a process is one step: it runs under the file lock, chdir     *)
(* excepted (the steps of its searches are in FileCalls).  A path is the   *)
(* components between its slashes; one that starts with a slash is         *)
(* absolute, one that ends in a slash has the last component "".           *)
(* Nothing here tells a directory from another file: the calls read and    *)
(* extend any inode as a directory.                                        *)
(***************************************************************************)
EXTENDS OpenInodes, Sequences, SequencesExt, FiniteSetsExt

CONSTANTS
  Name, Path,  \* names of files, and the paths that are used
  MaxSector,   \* the sectors for inodes are 1..MaxSector
  Proc,        \* processes; main is the one that boots
  main,
  MaxBoots, MaxOpen   \* bounds on restarts, and on open files of a process

ASSUME DirectoryAssumption ==
  /\ Path \subseteq [absolute : BOOLEAN, dirs : Seq(Name \cup {".", "..", ""}), last : Name \cup {".", "..", ""}]
  /\ \A path \in Path : path.absolute \/ path.dirs # <<>> \/ path.last # ""
  /\ main \in Proc /\ MaxSector \in Nat \ {0}

VARIABLES
  inodes,      \* on disk: sector -> [parent, slots, boot], boot when it was made
  open_inodes, \* in memory: sector -> [open_cnt, removed]
  cwd,         \* per process, the inode of its directory; NONE before it is started
  opened,      \* per process, the inodes of its open files, one per descriptor
  boots,       \* times the system was started
  stopped      \* a failed assertion stopped the kernel

dir_vars == <<inodes, open_inodes, cwd, opened, boots, stopped>>

ROOT == 1
NONE == 0   \* no inode: sector 0 is the free map's, which no directory names
GONE == -1  \* the directory of a process that has exited
InodeSector == 1..MaxSector

DirInode(parent) == [parent |-> parent, slots |-> <<>>, boot |-> boots]

\* The openers of an inode, and its inode in memory when they change.
Cnt(opens, s) == IF s \in DOMAIN opens THEN opens[s].open_cnt ELSE 0
Removed(opens, s) == s \in DOMAIN opens /\ opens[s].removed
inode_open(opens, s) ==
  IF s \in DOMAIN opens THEN inode_reopen(opens, s)
  ELSE (s :> [open_cnt |-> 1, removed |-> FALSE]) @@ opens

\* Freeing the blocks of a removed inode reads the sector whose number is the
\* address of a variable, which fails an assertion in the disk driver.
ClosesRemoved(opens, s) == Cnt(opens, s) = 1 /\ Removed(opens, s)

\* filesys_init: the first process, in the root directory.
Boot(opens) == opens = (ROOT :> [open_cnt |-> 1, removed |-> FALSE])

DirectoryInit ==
  /\ boots = 1
  /\ inodes = (ROOT :> [parent |-> ROOT, slots |-> <<>>, boot |-> 0])
  /\ Boot(open_inodes)
  /\ cwd = [p \in Proc |-> IF p = main THEN ROOT ELSE NONE]
  /\ opened = [p \in Proc |-> <<>>]
  /\ stopped = FALSE
-----------------------------------------------------------------------------
(* Directories.                                                            *)

\* lookup: the first slot in use with the name, or 0.
Matches(s, n) == {i \in DOMAIN inodes[s].slots : inodes[s].slots[i].in_use /\ inodes[s].slots[i].name = n}
lookup(s, n) == IF Matches(s, n) = {} THEN 0 ELSE Min(Matches(s, n))

dir_lookup(s, n) ==
  CASE n = "." -> s
    [] n = ".." -> inodes[s].parent
    [] OTHER -> IF lookup(s, n) = 0 THEN NONE ELSE inodes[s].slots[lookup(s, n)].inode_sector

\* Where a walk starts.  The callers in filesys.c cut a path off before its last
\* slash: of "/a" that leaves nothing, and "a" is looked up where p works.
Start(p, path) == IF path.absolute /\ path.dirs # <<>> THEN ROOT ELSE cwd[p]

\* path_parsing: the directory that a path of process p leads to, or NONE.
path_parsing(p, path) ==
  FoldLeft(LAMBDA s, n : IF s = NONE THEN NONE ELSE dir_lookup(s, n),
           Start(p, path), SelectSeq(path.dirs, LAMBDA n : n # ""))

MayAdd(dir, n) == n # "" /\ lookup(dir, n) = 0

\* The first free slot, or the end of the directory.
FreeSlot(slots) == Min({i \in DOMAIN slots : ~slots[i].in_use} \cup {Len(slots) + 1})

dir_add(dir, n, s) ==
  LET slots == inodes[dir].slots
      ofs == FreeSlot(slots)
      e == [in_use |-> TRUE, name |-> n, inode_sector |-> s]
  IN  IF ofs > Len(slots) THEN Append(slots, e) ELSE [slots EXCEPT ![ofs] = e]

\* Variant: every entry from the one found on is erased.
erase_to_end(slots, ofs) ==
  [i \in DOMAIN slots |-> IF i >= ofs THEN [slots[i] EXCEPT !.in_use = FALSE] ELSE slots[i]]

Erase(slots, ofs) == [slots EXCEPT ![ofs].in_use = FALSE]
-----------------------------------------------------------------------------
(* The calls of filesys.c by process p.  The ones that find no directory,  *)
(* or a name that exists already, change nothing.                          *)

Runs(p) == ~stopped /\ cwd[p] \notin {NONE, GONE}
Sectors == InodeSector \ DOMAIN inodes

OpenCreated(opens, s) == inode_open(opens, s)

\* The new inode is opened and not closed again.  Its parent is the working
\* directory, which need not be the directory it is added to; a name that
\* dir_add refuses leaves the sector without one.
filesys_create(p, path) ==
  LET dir == path_parsing(p, path)
      s == Min(Sectors)
      new == (s :> DirInode(cwd[p])) @@ inodes
  IN  /\ Runs(p) /\ Sectors # {}
      /\ dir # NONE /\ dir_lookup(dir, path.last) = NONE
      /\ inodes' = IF MayAdd(dir, path.last)
                   THEN [new EXCEPT ![dir].slots = dir_add(dir, path.last, s)] ELSE new
      /\ open_inodes' = OpenCreated(open_inodes, s)
      /\ UNCHANGED <<cwd, opened, boots, stopped>>

filesys_open(p, path) ==
  LET dir == path_parsing(p, path)
      s == IF path.last = "" THEN dir ELSE dir_lookup(dir, path.last)
  IN  /\ Runs(p) /\ Len(opened[p]) < MaxOpen
      /\ dir # NONE /\ s # NONE
      /\ open_inodes' = inode_open(open_inodes, s)
      /\ opened' = [opened EXCEPT ![p] = Append(@, s)]
      /\ UNCHANGED <<inodes, cwd, boots, stopped>>

\* Variant: the sector of a removed file is free at once.
forget_inode(new, s) == [t \in DOMAIN new \ {s} |-> new[t]]

KeepInode(new, s) == new

\* A directory may be removed while it has entries, and while it is another
\* process's working directory.
filesys_remove(p, path) ==
  LET dir == path_parsing(p, path)
      s == dir_lookup(dir, path.last)
  IN  /\ Runs(p)
      /\ dir # NONE /\ lookup(dir, path.last) # 0 /\ s # cwd[p]
      /\ inodes' = KeepInode([inodes EXCEPT ![dir].slots = Erase(@, lookup(dir, path.last))], s)
      /\ stopped' = (s \notin DOMAIN open_inodes)
      /\ open_inodes' = IF s \in DOMAIN open_inodes THEN [open_inodes EXCEPT ![s].removed = TRUE]
                        ELSE open_inodes
      /\ UNCHANGED <<cwd, opened, boots>>

\* SYS_CHDIR: the whole path names the directory.
chdir(p, path) ==
  LET dir == path_parsing(p, [path EXCEPT !.dirs = Append(@, path.last)])
  IN  /\ Runs(p) /\ dir # NONE
      /\ open_inodes' = inode_close(inode_open(open_inodes, dir), cwd[p])
      /\ stopped' = ClosesRemoved(inode_open(open_inodes, dir), cwd[p])
      /\ cwd' = [cwd EXCEPT ![p] = dir]
      /\ UNCHANGED <<inodes, opened, boots>>

CloseFile(p, i) ==
  /\ Runs(p)
  /\ stopped' = ClosesRemoved(open_inodes, opened[p][i])
  /\ open_inodes' = inode_close(open_inodes, opened[p][i])
  /\ opened' = [opened EXCEPT ![p] = RemoveAt(@, i)]
  /\ UNCHANGED <<inodes, cwd, boots>>

\* thread_create: the child starts in its parent's directory.
Spawn(p, q) ==
  /\ Runs(p) /\ cwd[q] = NONE
  /\ cwd' = [cwd EXCEPT ![q] = cwd[p]]
  /\ open_inodes' = inode_open(open_inodes, cwd[p])
  /\ UNCHANGED <<inodes, opened, boots, stopped>>

\* thread_exit: the directory is closed; the files in file_list are not.
thread_exit(p) ==
  /\ Runs(p) /\ p # main
  /\ stopped' = ClosesRemoved(open_inodes, cwd[p])
  /\ open_inodes' = inode_close(open_inodes, cwd[p])
  /\ cwd' = [cwd EXCEPT ![p] = GONE]
  /\ opened' = [opened EXCEPT ![p] = <<>>]
  /\ UNCHANGED <<inodes, boots>>

\* The system is shut down, which writes the disk, and started again.
Restart ==
  /\ ~stopped /\ boots < MaxBoots
  /\ boots' = boots + 1
  /\ Boot(open_inodes')
  /\ cwd' = [p \in Proc |-> IF p = main THEN ROOT ELSE NONE]
  /\ opened' = [p \in Proc |-> <<>>]
  /\ UNCHANGED <<inodes, stopped>>

DirectoryNext ==
  \/ \E p \in Proc, path \in Path :
       \/ filesys_create(p, path) \/ filesys_open(p, path)
       \/ filesys_remove(p, path) \/ chdir(p, path)
  \/ \E p \in Proc : thread_exit(p) \/ (\E i \in DOMAIN opened[p] : CloseFile(p, i)) \/ \E q \in Proc : Spawn(p, q)
  \/ Restart
-----------------------------------------------------------------------------
Entries == {<<s, i>> \in InodeSector \X (1..MaxSector) :
              s \in DOMAIN inodes /\ i \in DOMAIN inodes[s].slots /\ inodes[s].slots[i].in_use}
Slot(e) == inodes[e[1]].slots[e[2]]

\* Every entry names an inode, and of the entries of a directory no two have
\* the same name, nor any two the same inode: the slots that removals leave are
\* used again.
EntriesNameInodes ==
  \A e \in Entries :
    /\ Slot(e).inode_sector \in DOMAIN inodes \ {ROOT}
    /\ \A f \in Entries \ {e} :
         /\ Slot(e).inode_sector # Slot(f).inode_sector
         /\ e[1] = f[1] => Slot(e).name # Slot(f).name

Uses(s) == Cardinality({p \in Proc : cwd[p] = s})
           + Quantify({<<p, i>> \in Proc \X (1..MaxOpen) : i \in DOMAIN opened[p]},
                      LAMBDA u : opened[u[1]][u[2]] = s)

\* What a process has open, or works in, stays an inode in memory with at least
\* as many openers, and stays on disk, whoever removes its name.
UsedStaysOpen ==
  ~stopped => \A s \in InodeSector : Uses(s) > 0 => s \in DOMAIN inodes /\ Cnt(open_inodes, s) >= Uses(s)

\* The last opener of a removed file stops the kernel, but only for a file of an
\* earlier boot: a new one keeps the opener that inode_create forgot.
StopsOnlyOnOldFiles ==
  /\ stopped => \E s \in DOMAIN inodes : inodes[s].boot < boots /\ s # ROOT
  /\ ~stopped => \A s \in DOMAIN inodes : inodes[s].boot = boots => Cnt(open_inodes, s) > Uses(s)

\* Openers are counted well enough: nothing in use goes away, and the kernel
\* stops only in the one way described.
OpenersCounted == UsedStaysOpen /\ StopsOnlyOnOldFiles

NamesOf ==
  [k \in {<<e[1], Slot(e).name>> : e \in Entries} |-> inodes[k[1]].slots[lookup(k[1], k[2])].inode_sector]

\* The directories implement the promise about names, with entries that are
\* all well-formed.
Promise == INSTANCE Namespace WITH Dir <- InodeSector, File <- InodeSector, names <- NamesOf
NamesAreKept == Promise!Spec /\ []EntriesNameInodes
=============================================================================
