----------------------------- MODULE OpenInodes -----------------------------
(***************************************************************************)
(* The openers of the inodes in memory, as inode_reopen and inode_close of *)
(* filesys/inode.c count them.  A table maps the sector of each open inode *)
(* to a record with its open_cnt.                                          *)
(***************************************************************************)
EXTENDS Integers

inode_reopen(table, s) == [table EXCEPT ![s].open_cnt = @ + 1]

\* The last opener frees the inode.
inode_close(table, s) ==
  IF table[s].open_cnt > 1 THEN [table EXCEPT ![s].open_cnt = @ - 1]
  ELSE [t \in DOMAIN table \ {s} |-> table[t]]
=============================================================================
