------------------------------- MODULE Inode --------------------------------
(***************************************************************************)
(* filesys/inode.c and filesys/free-map.c: how a file grows and where its  *)
(* bytes are.  A call runs under the file lock, and the buffer cache below *)
(* it returns what was last written (SectorStore), so a call is one step.  *)
(* A sector of the disk is a data block, an index block or an inode;       *)
(* data, index and inode_disk hold what was last written to it as such.    *)
(***************************************************************************)
EXTENDS Bitmap, Sequences, SequencesExt

CONSTANTS
  DISK_SIZE,                 \* sectors of the disk
  DISK_SECTOR_SIZE,          \* bytes of a sector
  DIRECT_CNT, INDIRECT_CNT,  \* entries of an inode and of an index block
  InitialSize,               \* sizes of new files
  Offset, Size,              \* of the writes
  MaxFiles, MaxWrites        \* bounds

ASSUME InodeAssumption ==
  /\ {DISK_SIZE, DISK_SECTOR_SIZE, DIRECT_CNT, INDIRECT_CNT} \subseteq Nat \ {0}
  /\ InitialSize \cup Offset \subseteq Nat /\ Size \subseteq Nat \ {0}

VARIABLES
  free_map,    \* TRUE for a sector in use
  inode_disk,  \* sector -> inode, for the files that were created
  index,       \* sector -> its entries, for index blocks
  data,        \* sector -> its bytes, for data blocks
  corrupted,   \* a file was given a block number that was never set
  short_of_space,  \* an expansion ran out of sectors
  beyond_end,  \* an access that starts beyond the end of a file stopped the kernel
  written,     \* per file, offset -> the byte last written there
  write_cnt

inode_vars == <<free_map, inode_disk, index, data, corrupted, short_of_space, beyond_end, written,
                write_cnt>>

Sector == 0..DISK_SIZE - 1
UNSET_SECTOR == -1      \* what no call has stored: zeros[] is not initialised
NO_BYTE == 0            \* a byte that was not written; the others number the writes
MaxLength == Max(InitialSize \cup {o + s : o \in Offset, s \in Size})

EmptyIndex == [i \in 0..INDIRECT_CNT - 1 |-> UNSET_SECTOR]
EmptyBlock == [i \in 0..DISK_SECTOR_SIZE - 1 |-> NO_BYTE]
EmptyInode == [length |-> 0, direct |-> [i \in 0..DIRECT_CNT - 1 |-> UNSET_SECTOR],
             indirect |-> UNSET_SECTOR, doubly_indirect |-> UNSET_SECTOR]

\* After do_format: the free map, the root directory, and a block of each.
InodeInit ==
  /\ free_map = bitmap_set_multiple(bitmap_create(DISK_SIZE), 0, 4, TRUE)
  /\ inode_disk = <<>> /\ index = <<>>
  /\ corrupted = FALSE /\ short_of_space = FALSE /\ beyond_end = FALSE
  /\ data = [s \in Sector |-> EmptyBlock]
  /\ written = <<>> /\ write_cnt = 0

\* free_map_allocate: the sector, or BITMAP_ERROR, and the map after it.
free_map_allocate(map) ==
  [sector |-> bitmap_scan(map, 0, 1, FALSE), map |-> bitmap_scan_and_flip(map, 0, 1, FALSE)]

bytes_to_sectors(size) == IF size <= 0 THEN 0 ELSE DIV_ROUND_UP(size, DISK_SECTOR_SIZE)
-----------------------------------------------------------------------------
(* inode_expand.  x holds what it works on: the map, the index blocks, the *)
(* copy of the inode, and whether it goes on ("ok"), has returned false    *)
(* ("fail") or has stored a block number that was never set ("unset").     *)

\* The pointer at a place, in the inode or in an index block, is set.
SetPointer(x, place, sector) ==
  CASE place[1] = "direct" -> [x EXCEPT !.inode.direct[place[2]] = sector]
    [] place[1] = "indirect" -> [x EXCEPT !.inode.indirect = sector]
    [] place[1] = "doubly_indirect" -> [x EXCEPT !.inode.doubly_indirect = sector]
    [] place[1] = "index" -> [x EXCEPT !.index[place[2]][place[3]] = sector]

\* A block of pointers: the expansion fails when there is no sector for it.
NewIndex(x, place) ==
  LET a == free_map_allocate(x.map)
  IN  IF a.sector = BITMAP_ERROR THEN [x EXCEPT !.status = "fail"]
      ELSE SetPointer([x EXCEPT !.map = a.map, !.index = (a.sector :> EmptyIndex) @@ @], place, a.sector)

\* A data block: what free_map_allocate returns is not looked at.
NewBlock(x, place) ==
  LET a == free_map_allocate(x.map)
  IN  IF x.status # "ok" THEN x
      ELSE IF a.sector = BITMAP_ERROR THEN [x EXCEPT !.status = "unset"]
      ELSE SetPointer([x EXCEPT !.map = a.map], place, a.sector)

Direct(x, curr) == NewBlock(x, <<"direct", curr>>)

Indirect(x, curr) ==
  LET table == IF curr = DIRECT_CNT THEN NewIndex(x, <<"indirect">>) ELSE x
  IN  NewBlock(table, <<"index", table.inode.indirect, curr - DIRECT_CNT>>)

DoublyIndirect(x, curr) ==
  LET double_cnt == curr - DIRECT_CNT - INDIRECT_CNT
      row == double_cnt \div INDIRECT_CNT
      top == IF double_cnt = 0 THEN NewIndex(x, <<"doubly_indirect">>) ELSE x
      table == IF double_cnt % INDIRECT_CNT = 0 /\ top.status = "ok"
               THEN NewIndex(top, <<"index", top.inode.doubly_indirect, row>>) ELSE top
  IN  IF table.status # "ok" THEN table
      ELSE NewBlock(table, <<"index", table.index[table.inode.doubly_indirect][row],
                             double_cnt % INDIRECT_CNT>>)

Expand1(x, curr) ==
  IF x.status # "ok" THEN x
  ELSE IF curr < DIRECT_CNT THEN Direct(x, curr)
  ELSE IF curr < DIRECT_CNT + INDIRECT_CNT THEN Indirect(x, curr)
  ELSE DoublyIndirect(x, curr)

\* Variant: the room left in the last block is not used first.
sectors_for_all(length, extend) == bytes_to_sectors(extend)

NewSectors(length, extend) ==
  bytes_to_sectors(extend - (bytes_to_sectors(length) * DISK_SECTOR_SIZE - length))

\* The inode is only written back, with its new length, at the end.
inode_expand(x, extend) ==
  LET exist == bytes_to_sectors(x.inode.length)
      new == [i \in 1..NewSectors(x.inode.length, extend) |-> exist + i - 1]
      Return(y) == IF y.status = "ok" THEN [y EXCEPT !.inode.length = @ + extend]
                   ELSE [y EXCEPT !.inode = x.inode]
  IN  IF extend <= 0 THEN x ELSE Return(FoldLeft(Expand1, x, new))

Expansion(map, inode) == [map |-> map, index |-> index, inode |-> inode, status |-> "ok"]
-----------------------------------------------------------------------------
(* Reading and writing.                                                    *)

\* Variant: the block is always looked for in the first table.
first_row(double_cnt) == 0

RowOf(double_cnt) == double_cnt \div INDIRECT_CNT

byte_to_sector(inode, idx, pos) ==
  LET sec_cnt == pos \div DISK_SECTOR_SIZE
      double_cnt == sec_cnt - DIRECT_CNT - INDIRECT_CNT
  IN  CASE sec_cnt < DIRECT_CNT -> inode.direct[sec_cnt]
        [] sec_cnt \in DIRECT_CNT..DIRECT_CNT + INDIRECT_CNT - 1 -> idx[inode.indirect][sec_cnt - DIRECT_CNT]
        [] OTHER -> idx[idx[inode.doubly_indirect][RowOf(double_cnt)]][double_cnt % INDIRECT_CNT]

\* An access may start at the end of the file.  Further on there are less than
\* no bytes left, which chunk_size, being unsigned, takes for very many, and
\* byte_to_sector's -1 is no sector: the disk driver's assertion fails.
BeyondEnd(inode, offset) == offset > inode.length

\* A read that does not start beyond the end.
inode_read_at(inode, size, offset) ==
  LET Byte(pos) == data[byte_to_sector(inode, index, pos)][pos % DISK_SECTOR_SIZE]
      n == Max({0, Min({size, inode.length - offset})})
  IN  [i \in 1..n |-> Byte(offset + i - 1)]

\* The end of a call that may have grown file s.  What the file system holds
\* once a block number was never set is undefined, and not followed further.
Grown(s, x) ==
  /\ corrupted' = (x.status = "unset")
  /\ short_of_space' = (short_of_space \/ x.status # "ok")
  /\ free_map' = x.map /\ index' = x.index
  /\ inode_disk' = (s :> x.inode) @@ inode_disk

\* inode_create of a file in a new sector, as filesys_create calls it.
inode_create(length) ==
  /\ ~corrupted /\ ~beyond_end /\ Cardinality(DOMAIN inode_disk) < MaxFiles
  /\ \E a \in {free_map_allocate(free_map)} :
       /\ a.sector # BITMAP_ERROR
       /\ Grown(a.sector, inode_expand(Expansion(a.map, EmptyInode), length))
       /\ written' = (a.sector :> [i \in 0..MaxLength - 1 |-> NO_BYTE]) @@ written
  /\ UNCHANGED <<data, write_cnt, beyond_end>>

ReadBeyondEnd(s, offset) ==
  /\ ~corrupted /\ ~beyond_end /\ BeyondEnd(inode_disk[s], offset)
  /\ beyond_end' = TRUE
  /\ UNCHANGED <<free_map, inode_disk, index, data, corrupted, short_of_space, written, write_cnt>>

\* A write: the file grows first, if it must and can; the loop then stores the
\* bytes that are inside it, or is beyond the end, if the file did not grow.  The
\* bytes of a write carry its number.
inode_write_at(s, size, offset) ==
  /\ ~corrupted /\ ~beyond_end /\ write_cnt < MaxWrites
  /\ write_cnt' = write_cnt + 1
  /\ \E x \in {inode_expand(Expansion(free_map, inode_disk[s]), offset + size - inode_disk[s].length)} :
       /\ Grown(s, x)
       /\ beyond_end' = (BeyondEnd(x.inode, offset) /\ x.status # "unset")
       /\ LET stored == {pos \in offset..offset + size - 1 : pos < x.inode.length /\ x.status # "unset"}
              cells == {<<byte_to_sector(x.inode, x.index, pos), pos % DISK_SECTOR_SIZE>> : pos \in stored}
          IN  /\ data' = [b \in Sector |->
                            [i \in DOMAIN data[b] |-> IF <<b, i>> \in cells THEN write_cnt' ELSE data[b][i]]]
              /\ written' = [written EXCEPT ![s] =
                               [pos \in DOMAIN @ |-> IF pos \in stored THEN write_cnt' ELSE @[pos]]]

InodeNext ==
  \/ \E length \in InitialSize : inode_create(length)
  \/ \E s \in DOMAIN inode_disk, offset \in Offset :
       ReadBeyondEnd(s, offset) \/ \E size \in Size : inode_write_at(s, size, offset)
-----------------------------------------------------------------------------
\* The file as its users see it: reading it from any place gives, at every
\* offset that was ever written, the byte that was written there last.
ReadsWhatWasWritten ==
  ~corrupted =>
  \A s \in DOMAIN inode_disk :
    \A start \in 0..inode_disk[s].length :
      LET bytes == inode_read_at(inode_disk[s], MaxLength, start)
      IN  \A pos \in DOMAIN written[s] :
            pos >= start /\ written[s][pos] # NO_BYTE
              => pos - start < Len(bytes) /\ bytes[pos - start + 1] = written[s][pos]

BlocksOf(inode) == {byte_to_sector(inode, index, pos) : pos \in 0..inode.length - 1}

\* No sector is in two files, or twice in a file, or a block and an inode, and
\* the free map has every sector that a file uses.
BlocksOwnedOnce ==
  ~corrupted =>
  /\ \A s \in DOMAIN inode_disk :
       LET inode == inode_disk[s]
       IN  /\ Cardinality(BlocksOf(inode)) = bytes_to_sectors(inode.length)
           /\ \A b \in BlocksOf(inode) \cup {s} : b \in Sector \ 0..3 /\ free_map[b]
           /\ BlocksOf(inode) \cap (DOMAIN inode_disk \cup DOMAIN index) = {}
  /\ \A s, t \in DOMAIN inode_disk :
       s # t => BlocksOf(inode_disk[s]) \cap BlocksOf(inode_disk[t]) = {}

\* Sectors are owned once, and every sector that the free map has is in use,
\* until an expansion runs out of sectors: it keeps those it has taken, and the
\* inode does not name them.
SectorsAccounted ==
  BlocksOwnedOnce /\
  LET used == 0..3 \cup DOMAIN inode_disk \cup DOMAIN index
                \cup UNION {BlocksOf(inode_disk[s]) : s \in DOMAIN inode_disk}
  IN  ~short_of_space => {s \in Sector : free_map[s]} = used
=============================================================================
