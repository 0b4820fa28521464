----------------------------- MODULE MCUserprog -----------------------------
(***************************************************************************)
(* Three processes in the family.  Paging has two, that share two frames   *)
(* and two slots.  Both have a stack page; at the same address one has a   *)
(* mapped page, the other a data page.                                     *)
(***************************************************************************)
EXTENDS Userprog, TLC

CONSTANTS p1, p2

MCKind == p1 :> <<"stack", "map">> @@ p2 :> <<"stack", "data">>
MCMaxWrites == [stack |-> 1, data |-> 1, map |-> 1]
=============================================================================
