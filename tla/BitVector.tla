----------------------------- MODULE BitVector -----------------------------
(***************************************************************************)
(* The bit vectors of bitvector.c, under the block map and the inode map.  *)
(* A vector is a record: its size, the set of bits that are set, the hint  *)
(* next_free and the flag is_full.  Bits past numbits, in the last chunk,  *)
(* are never set.                                                          *)
(***************************************************************************)
EXTENDS Integers, FiniteSetsExt

CONSTANT BITS_IN_CHUNK

ASSUME ChunkAssumption == BITS_IN_CHUNK \in Nat \ {0}

Positions(bv) == 0 .. bv.numbits - 1

Chunks(bv) == (bv.numbits + BITS_IN_CHUNK - 1) \div BITS_IN_CHUNK

\* A vector after calloc and SetBV of some bits.
NewBV(n, set) == [numbits |-> n, bits |-> set, next_free |-> 0, is_full |-> FALSE]

UnSetBV(bv, which) ==
    IF which \in Positions(bv)
    THEN [bv EXCEPT !.bits = @ \ {which}, !.next_free = which]
    ELSE bv

UnSetRangeBV(bv, start, len) ==
    IF start < 0 \/ len < 0 \/ start + len > bv.numbits THEN bv
    ELSE [bv EXCEPT !.bits = @ \ (start .. start + len - 1), !.next_free = start]

\* The clear bits in a row from s on, as far as len and the vector go.
FreeRun(bv, s, len) ==
    CHOOSE k \in 0 .. len :
        /\ s .. s + k - 1 \subseteq Positions(bv) \ bv.bits
        /\ k = len \/ s + k \notin Positions(bv) \ bv.bits

\* How far the search goes on from bit start, where k clear bits follow: past
\* a bit that is set, or past the run and the bit that ends it.  A run that
\* ends with the vector is given up, and with it the rest of its chunk and the
\* whole next chunk: "i += ..." is followed by the i++ of the loop.
Ahead(bv, start, k) ==
    LET B == BITS_IN_CHUNK IN
    IF start \in bv.bits THEN 1
    ELSE IF start + k < bv.numbits THEN k + 1
    ELSE (Max({(start + k) \div B - start \div B, 1}) + 1) * B - (start % B)

\* A mistake: the search does not wrap around.
PlaceMut(bv, x) == (bv.next_free \div BITS_IN_CHUNK) * BITS_IN_CHUNK + x

\* The bit the search is at after x bits.
Place(bv, x) ==
    ((bv.next_free \div BITS_IN_CHUNK) * BITS_IN_CHUNK + x)
        % (Chunks(bv) * BITS_IN_CHUNK)

(***************************************************************************)
(* The search of GetFreeRangeOfBits.  x counts the bits passed since the   *)
(* beginning of the chunk next_free is in; the search wraps around, and    *)
(* whether to go on is only asked at the beginning of a chunk.  The        *)
(* result is the bit found (-1: none) and how many set bits were counted.  *)
(***************************************************************************)
Search(bv, len) ==
    LET total == Chunks(bv) * BITS_IN_CHUNK
        scan[x \in Nat] ==
            LET start == Place(bv, x)
                k == FreeRun(bv, start, len)
            IN  IF x >= total /\ x % BITS_IN_CHUNK = 0 THEN [start |-> -1, set |-> 0]
                ELSE IF k = len THEN [start |-> start, set |-> 0]
                ELSE [scan[x + Ahead(bv, start, k)] EXCEPT
                        !.set = IF start \in bv.bits THEN @ + 1 ELSE @]
    IN  scan[0]

\* Where the next search begins when the bits before after have been taken.
NextFree(bv, after) ==
    IF after < Chunks(bv) * BITS_IN_CHUNK /\ after \notin bv.bits
    THEN after ELSE bv.next_free

\* The vector when bits start .. after - 1 have been taken.
Taken(bv, start, after) ==
    [bv EXCEPT !.bits = @ \cup (start .. after - 1),
               !.next_free = NextFree(bv, after)]

\* What GetFreeRangeOfBits makes of the search: the bit, and the vector
\* afterwards.
Outcome(bv, len, found) ==
    [start |-> found.start,
     bv |-> IF found.start # -1 THEN Taken(bv, found.start, found.start + len)
            ELSE [bv EXCEPT !.is_full = @ \/ found.set >= bv.numbits]]

GetFreeRangeOfBits(bv, len) ==
    IF len <= 0 \/ len > bv.numbits \/ bv.is_full THEN [start |-> -1, bv |-> bv]
    ELSE Outcome(bv, len, Search(bv, len))

(***************************************************************************)
(* What the comment on GetFreeRangeOfBits promises.                        *)
(***************************************************************************)
FreeRanges(bv, len) ==
    {s \in Positions(bv) : s .. s + len - 1 \subseteq Positions(bv) \ bv.bits}
=============================================================================
