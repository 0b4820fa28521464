------------------------------- MODULE Loader -------------------------------
(***************************************************************************)
(* The layout that userprog/process.c gives a process: the pages of a      *)
(* loadable segment (validate_segment, load, load_segment) and the first   *)
(* stack (setup_stack).  Addresses have W bits; a word is four bytes.      *)
(***************************************************************************)
EXTENDS Integers, Sequences, SequencesExt, FiniteSetsExt

CONSTANTS PGSIZE, PHYS_BASE, W

ASSUME LoaderAssumption ==
  /\ PGSIZE \in Nat \ {0} /\ W \in Nat /\ PHYS_BASE \in 1..2^W
  /\ PHYS_BASE % PGSIZE = 0 /\ PGSIZE % 4 = 0

pg_ofs(a) == a % PGSIZE
pg_round_down(a) == a - pg_ofs(a)
ROUND_UP(x) == ((x + PGSIZE - 1) \div PGSIZE) * PGSIZE
is_user_vaddr(a) == a < PHYS_BASE
Add(a, b) == (a + b) % 2^W
-----------------------------------------------------------------------------
(* Segments.  ph has the fields of a program header that are read.         *)

\* Variant: an end beyond the last address is not noticed.
no_wrap_check(ph) == TRUE

NoWrap(ph) == Add(ph.vaddr, ph.memsz) >= ph.vaddr

validate_segment(ph, file_length) ==
  /\ pg_ofs(ph.offset) = pg_ofs(ph.vaddr)
  /\ ph.offset <= file_length
  /\ ph.memsz >= ph.filesz
  /\ ph.memsz # 0
  /\ is_user_vaddr(ph.vaddr)
  /\ is_user_vaddr(Add(ph.vaddr, ph.memsz))
  /\ NoWrap(ph)
  /\ ph.vaddr >= PGSIZE

\* What load computes for load_segment.
read_bytes(ph) == IF ph.filesz > 0 THEN pg_ofs(ph.vaddr) + ph.filesz ELSE 0
zero_bytes(ph) == ROUND_UP(pg_ofs(ph.vaddr) + ph.memsz) - read_bytes(ph)

\* load_segment: the pages it enters into the supplemental page table.
load_segment(ph) ==
  LET pages == (read_bytes(ph) + zero_bytes(ph)) \div PGSIZE
      Read(i) == Max({0, Min({PGSIZE, read_bytes(ph) - i * PGSIZE})})
  IN  {[upage |-> pg_round_down(ph.vaddr) + i * PGSIZE,
        offset |-> pg_round_down(ph.offset) + i * PGSIZE,
        page_read_bytes |-> Read(i),
        page_zero_bytes |-> PGSIZE - Read(i)] : i \in 0..pages - 1}

\* A segment that is accepted is mapped in user space, above page 0: each of its
\* bytes that is in the file is at the address that the header gives it, and
\* the rest of the segment is zero.
SegmentMapped(ph, file_length) ==
  LET pages == load_segment(ph)
      At(a) == CHOOSE p \in pages : p.upage = pg_round_down(a)
  IN  validate_segment(ph, file_length) =>
        /\ \A p \in pages : p.upage >= PGSIZE /\ is_user_vaddr(p.upage)
        /\ \A a \in ph.vaddr..ph.vaddr + ph.memsz - 1 :
             /\ \E p \in pages : p.upage = pg_round_down(a)
             /\ IF a < ph.vaddr + ph.filesz
                THEN /\ pg_ofs(a) < At(a).page_read_bytes
                     /\ At(a).offset + pg_ofs(a) = ph.offset + (a - ph.vaddr)
                ELSE pg_ofs(a) >= At(a).page_read_bytes
-----------------------------------------------------------------------------
(* The stack.  st has the stack pointer, and what was stored: a word, or   *)
(* the bytes of an argument, at an address.                                *)

Push(st, size, what) ==
  [esp |-> st.esp - size, stored |-> st.stored \cup {[at |-> st.esp - size, size |-> size, what |-> what]}]
PushWord(st, w) == Push(st, 4, <<w>>)

\* STEP1: the arguments, first to last, each with its terminator.
PushStrings(args) ==
  FoldLeft(LAMBDA st, arg : Push(st, Len(arg) + 1, arg), [esp |-> PHYS_BASE, stored |-> {}], args)

\* STEP2.
word_align(st) == IF st.esp % 4 = 0 THEN st ELSE Push(st, st.esp % 4, <<>>)

\* argv[i], recorded while the strings are pushed.
ArgAddress(args, i) == PushStrings(SubSeq(args, 1, i)).esp

\* STEP3, STEP4: a null word, then the addresses, last to first.
PushArgv(st, args) ==
  FoldLeft(LAMBDA s, i : PushWord(s, ArgAddress(args, Len(args) + 1 - i)),
           PushWord(st, 0), [i \in 1..Len(args) |-> i])

setup_stack(args) ==
  LET argv == PushArgv(word_align(PushStrings(args)), args)
  IN  PushWord(PushWord(PushWord(argv, argv.esp), Len(args)), 0)

WordAt(st, a) == (CHOOSE x \in st.stored : x.at = a /\ x.size = 4).what[1]

\* A program finds its arguments where the calling convention puts them: argc
\* and argv above the return address, argv[0..argc - 1] pointing to the
\* arguments and argv[argc] null, words aligned, and nothing stored twice.
StackLaidOut(args) ==
  LET st == setup_stack(args)
      argv == WordAt(st, st.esp + 8)
  IN  /\ st.esp % 4 = 0
      /\ WordAt(st, st.esp + 4) = Len(args)
      /\ WordAt(st, argv + 4 * Len(args)) = 0
      /\ \A i \in 1..Len(args) :
           [at |-> WordAt(st, argv + 4 * (i - 1)), size |-> Len(args[i]) + 1, what |-> args[i]]
             \in st.stored
      /\ \A x, y \in st.stored : x.at + x.size <= y.at \/ y.at + y.size <= x.at \/ x = y
      /\ \A a \in st.esp..PHYS_BASE - 1 : \E x \in st.stored : a \in x.at..x.at + x.size - 1
=============================================================================
