------------------------------- MODULE Bitmap -------------------------------
(***************************************************************************)
(* The bitmap container of lib/kernel/bitmap.c, used by the physical and   *)
(* virtual page pools, the pid pool and the file system's block and inode  *)
(* bitmaps.  A bitmap of Len bytes is a function from bit index            *)
(* 0..8*Len-1 to {0,1}; bit i lives in byte i \div 8 at position i % 8, as *)
(* in bitmap_scan_test and bitmap_set.                                     *)
(*                                                                         *)
(* bitmap_scan is translated loop by loop as RECURSIVE operators.  Its     *)
(* run loop may read the bit just past the bitmap (index 8*Len); what that *)
(* memory holds is not the bitmap's business, so the scan takes it as a    *)
(* parameter `oob' and callers choose it nondeterministically.  The ASSERT *)
(* at bitmap.c:29 panics on a full bitmap when assertions are compiled in; *)
(* `asserts' says whether they are.                                        *)
(***************************************************************************)
EXTENDS Integers, FiniteSets, FiniteSetsExt

CONSTANT Len            \* btmp_bytes_len
ASSUME Len \in Nat \ {0}

NBits == 8 * Len
BitIdx == 0 .. NBits - 1
Bitmaps == [BitIdx -> {0, 1}]

\* The value bitmap_scan stands for when its ASSERT fires (PANIC).
Panic == "panic"

\* bitmap_init: every byte zeroed.
Empty == [i \in BitIdx |-> 0]

\* bitmap_scan_test: the bit at idx; an index past the end reads `oob'.
ScanTest(b, oob, idx) == IF idx \in BitIdx THEN b[idx] ELSE oob

\* bitmap_set: byte idx \div 8, bit idx % 8, set to value.
SetBit(b, idx, value) == [b EXCEPT ![idx] = value]

\* Byte k is 0xff.
ByteFull(b, k) == \A j \in 0 .. 7 : b[8 * k + j] = 1

\* The first while loop of bitmap_scan: skip full bytes.  It reads
\* bits[idx_byte] before testing idx_byte < btmp_bytes_len, but the value
\* read at idx_byte = Len cannot change the outcome, so it is not modelled.
RECURSIVE ByteLoop(_, _)
ByteLoop(b, k) == IF k < Len /\ ByteFull(b, k) THEN ByteLoop(b, k + 1) ELSE k

\* The second while loop: the first clear bit of a byte that is not full.
RECURSIVE BitLoop(_, _, _)
BitLoop(b, k, j) == IF b[8 * k + j] = 1 THEN BitLoop(b, k, j + 1) ELSE j

\* A run loop that forgets to reset the count on a set bit.
RECURSIVE RunLoopNoReset(_, _, _, _, _, _)
RunLoopNoReset(b, oob, cnt, next, left, count) ==
    IF left = 0 THEN -1
    ELSE LET c == IF ScanTest(b, oob, next) = 0 THEN count + 1 ELSE count
         IN IF c = cnt THEN next - cnt + 1
            ELSE RunLoopNoReset(b, oob, cnt, next + 1, left - 1, c)

\* The third while loop: from next_bit, with bit_left bits left to test
\* and count free bits found so far, look for cnt consecutive clear bits.
RECURSIVE RunLoop(_, _, _, _, _, _)
RunLoop(b, oob, cnt, next, left, count) ==
    IF left = 0 THEN -1
    ELSE LET c == IF ScanTest(b, oob, next) = 0 THEN count + 1 ELSE 0
         IN IF c = cnt THEN next - cnt + 1
            ELSE RunLoop(b, oob, cnt, next + 1, left - 1, c)

\* bitmap_scan(btmp, cnt).
Scan(b, oob, cnt, asserts) ==
    LET byte == ByteLoop(b, 0)
    IN IF byte = Len
       THEN IF asserts THEN Panic ELSE -1
       ELSE LET start == 8 * byte + BitLoop(b, byte, 0)
            IN IF cnt = 1 THEN start
               ELSE RunLoop(b, oob, cnt, start + 1, NBits - start, 1)

(***************************************************************************)
(* Reference: the lowest start of cnt clear bits inside the bitmap, or -1. *)
(***************************************************************************)
Fits(b, cnt) ==
    {s \in 0 .. NBits - cnt : \A k \in s .. s + cnt - 1 : b[k] = 0}

FirstFit(b, cnt) == IF Fits(b, cnt) = {} THEN -1 ELSE Min(Fits(b, cnt))

=============================================================================
