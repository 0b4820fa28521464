SPECIFICATION Spec
CONSTANTS
  t1 = t1  t2 = t2
  Thread <- ThreadDef
  NULL = NULL
  PGSIZE = 12  SizeofArena = 8  MinBlock = 2
  FreePages = 6  user_page_limit = 3
  SIZE_BITS = 4
  Sizes <- SizesDef
  PageCounts <- PageCountsDef
  MaxHeld = 2
  H = 4
  Bits <- BitsDef
  BufSize = 5
  Key = {0, 1, 2, 3}
  Tag = {0, 1}
  HashOf <- HashDef
  MIN_BUCKETS = 2
  BEST_ELEMS_PER_BUCKET = 1
  None = None
  ListLen = 5
  ArrayLen = 6
  MemLen = 5
  Keys = {0, 1, 2}
  Delims = {1}
  Directives <- DirectivesDef
SYMMETRY ThreadSymmetry
INVARIANTS SortsRight   PrintfRight PagesOwnedOnce 
PROPERTIES HashIsKeyedSet
