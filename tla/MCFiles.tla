------------------------------- MODULE MCFiles -------------------------------
(***************************************************************************)
(* Two processes and two names for Directory, three processes and a file   *)
(* for FileCalls, two files that reach the doubly indirect blocks for      *)
(* Inode.                                                                  *)
(***************************************************************************)
EXTENDS Files

PathOf(absolute, dirs, last) == [absolute |-> absolute, dirs |-> dirs, last |-> last]

\* a, b, /a, //a, a/b, a/, a/.., ../a
MCPath ==
  {PathOf(FALSE, <<>>, "a"), PathOf(FALSE, <<>>, "b"), PathOf(TRUE, <<>>, "a"),
   PathOf(TRUE, <<"">>, "a"),
   PathOf(FALSE, <<"a">>, "b"), PathOf(FALSE, <<"a">>, ""), PathOf(FALSE, <<"a">>, ".."),
   PathOf(FALSE, <<"..">>, "a")}
=============================================================================
