------------------------------ MODULE Bitmap -------------------------------
(***************************************************************************)
(* lib/kernel/bitmap.c.  A bitmap is the array of bits its users see, a    *)
(* function from 0..bit_cnt - 1 to BOOLEAN; the words that hold the bits   *)
(* only matter for the size of the bitmap in memory and in a file.  Users  *)
(* that may be interrupted within a call take the single-bit steps.        *)
(***************************************************************************)
EXTENDS Integers, FiniteSetsExt

BITMAP_ERROR == -1

ELEM_BITS == 32
BytesPerElem == 4
SizeofBitmap == 8

DIV_ROUND_UP(x, step) == (x + step - 1) \div step

byte_cnt(bit_cnt) == BytesPerElem * DIV_ROUND_UP(bit_cnt, ELEM_BITS)
bitmap_buf_size(bit_cnt) == SizeofBitmap + byte_cnt(bit_cnt)

bitmap_create(bit_cnt) == [i \in 0..bit_cnt - 1 |-> FALSE]
bitmap_size(b) == Cardinality(DOMAIN b)

\* bitmap_set, bitmap_mark, bitmap_reset: one bit, in one instruction.
bitmap_set(b, idx, value) == [b EXCEPT ![idx] = value]

bitmap_set_multiple(b, start, cnt, value) ==
  [i \in DOMAIN b |-> IF i \in start..start + cnt - 1 THEN value ELSE b[i]]

bitmap_contains(b, start, cnt, value) == \E i \in start..start + cnt - 1 : b[i] = value
bitmap_all(b, start, cnt) == ~bitmap_contains(b, start, cnt, FALSE)

\* The first group of cnt bits that all have the value.
bitmap_scan(b, start, cnt, value) ==
  LET groups == {i \in start..bitmap_size(b) - cnt : ~bitmap_contains(b, i, cnt, ~value)}
  IN  IF groups = {} THEN BITMAP_ERROR ELSE Min(groups)

\* The bitmap after bitmap_scan_and_flip; the call returns bitmap_scan's index.
bitmap_scan_and_flip(b, start, cnt, value) ==
  LET idx == bitmap_scan(b, start, cnt, value)
  IN  IF idx = BITMAP_ERROR THEN b ELSE bitmap_set_multiple(b, idx, cnt, ~value)
=============================================================================
