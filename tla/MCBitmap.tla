------------------------------ MODULE MCBitmap ------------------------------
(***************************************************************************)
(* Every bitmap a sequence of bitmap_init and bitmap_set calls can reach,  *)
(* with bitmap_scan checked against the reference first fit in each one,   *)
(* for every request size up to MaxCnt, both values of the bit past the    *)
(* end and both builds of ASSERT.                                          *)
(***************************************************************************)
EXTENDS Bitmap

CONSTANT MaxCnt
ASSUME MaxCnt \in 1 .. NBits

VARIABLE bits

\* bitmap_init.
Init == bits = Empty

\* bitmap_set(btmp, bit_idx, value).
Set(i, v) == bits' = SetBit(bits, i, v)

Next == \E i \in BitIdx, v \in {0, 1} : Set(i, v)

Spec == Init /\ [][Next]_bits

\* When cnt clear bits in a row exist inside the bitmap, bitmap_scan
\* returns the start of the first such run, whatever lies past the end
\* and whether ASSERT is compiled in (the byte loop, the bit loop and the
\* run loop with its count reset must agree on it).
ScanFindsFirstFit ==
    \A cnt \in 1 .. MaxCnt, oob \in {0, 1}, asserts \in BOOLEAN :
        FirstFit(bits, cnt) # -1 => Scan(bits, oob, cnt, asserts) = FirstFit(bits, cnt)

\* A run bitmap_scan returns lies inside the bitmap: the caller marks
\* bits start .. start+cnt-1 with bitmap_set and maps those pages.
ScanWithinBitmap ==
    \A cnt \in 1 .. MaxCnt, oob \in {0, 1} :
        LET r == Scan(bits, oob, cnt, FALSE)
        IN r # -1 => r + cnt <= NBits

=============================================================================
