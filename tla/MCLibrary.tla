----------------------------- MODULE MCLibrary ------------------------------
EXTENDS Library, TLC

CONSTANTS t1, t2

ThreadDef == {t1, t2}
SizesDef == {0, 1, 4, 7}
PageCountsDef == {0, 2}
ThreadSymmetry == Permutations(ThreadDef)

BitsDef == [CHAR |-> 4, INT |-> 8]
HashDef == [k \in Key |-> (3 * k) % 5]

DirectivesDef ==
  [conv : {"d"}, flags : SUBSET {"MINUS", "PLUS", "SPACE", "ZERO"}, width : {-4, 0, 5},
   precision : {-1, 0, 9}, type : {"CHAR", "INT"}]
  \cup [conv : {"o", "x"}, flags : SUBSET {"MINUS", "POUND", "ZERO"}, width : {0, 5},
        precision : {-1, 0, 9}, type : {"INT"}]
  \cup [conv : {"u"}, flags : SUBSET {"GROUP", "ZERO"}, width : {0, 5},
        precision : {-1, 2}, type : {"CHAR", "INT"}]
  \cup [conv : {"s"}, flags : SUBSET {"MINUS"}, width : {-4, 0, 5}, precision : {-1, 0, 2},
        type : {"INT"}]
=============================================================================
