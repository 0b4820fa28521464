----------------------------- MODULE Namespace ------------------------------
(***************************************************************************)
(* What filesys/filesys.h and filesys/directory.h promise about names: a   *)
(* name in a directory stands for one file, and a call creates or removes  *)
(* one name, for a file of its own.                                        *)
(***************************************************************************)
EXTENDS Functions

CONSTANTS Dir, Name, File

VARIABLE names   \* a function from pairs of a directory and a name to files

Init == names = <<>>

Create(d, n, f) ==
  /\ <<d, n>> \notin DOMAIN names
  /\ f \notin Range(names)
  /\ names' = [k \in DOMAIN names \cup {<<d, n>>} |-> IF k = <<d, n>> THEN f ELSE names[k]]

Remove(d, n) ==
  /\ <<d, n>> \in DOMAIN names
  /\ names' = [k \in DOMAIN names \ {<<d, n>>} |-> names[k]]

Next == \E d \in Dir, n \in Name : Remove(d, n) \/ \E f \in File : Create(d, n, f)

Spec == Init /\ [][Next]_names
=============================================================================
