--------------------------------- MODULE Bits ---------------------------------
(***************************************************************************)
(* The functions on the bits of unsigned numbers of Werk/Utility/Bits.hpp, *)
(* compared with what they are to compute.                                 *)
(***************************************************************************)
EXTENDS Naturals, SequencesExt, FiniteSets
LOCAL INSTANCE Bitwise

\* As 1ul << n, for n below 64, and cast to a type of that width.
Bitmask(width, n) == (2 ^ n - 1) % 2 ^ width

BitsOf(width, v) == {k \in 0 .. width - 1 : v & 2 ^ k # 0}

PopCount(width, v) == Cardinality(BitsOf(width, v))

\* Every bit below a bit that is set becomes set; a shift by the width or more of
\* the type is not compiled.
Smeared(width, v) ==
    FoldLeft(LAMBDA u, s : u | (u \div 2 ^ s), v,
             SelectSeq(<<1, 2, 4, 8, 16, 32>>, LAMBDA s : s < width))

RoundUpPow2(width, v) == (Smeared(width, (v + 2 ^ width - 1) % 2 ^ width) + 1) % 2 ^ width
-----------------------------------------------------------------------------
Powers(width) == {2 ^ k : k \in 0 .. width - 1}

\* The boundaries of a width, and all the numbers of the smallest one.
Numbers(width) ==
    IF width = 8 THEN 0 .. 255
    ELSE {0} \union UNION {{p - 1, p, p + 1} \cap (0 .. 2 ^ width - 1) : p \in Powers(width)}

\* "Generates a bit mask with the first n bits set", or all there are.
ASSUME BitmaskIsExact ==
    \A width \in {8, 16} : \A n \in 0 .. 16 :
        BitsOf(width, Bitmask(width, n)) = {k \in 0 .. width - 1 : k < n}

\* "Count the number of 1 bits": as many as are taken away by v & (v - 1) one by one.
ASSUME PopCountIsExact ==
    \A v \in 1 .. 255 : PopCount(8, v) = PopCount(8, v & (v - 1)) + 1

\* "Rounds a value up to the nearest power of two. On overflow, return 0."  Zero is
\* not a power of two that zero would be rounded up to: it stays as it is.
ASSUME RoundUpPow2IsExact ==
    \A width \in {8, 16} : \A v \in Numbers(width) :
        LET up == {p \in Powers(width) : p >= v} IN
        RoundUpPow2(width, v) =
            IF v = 0 \/ up = {} THEN 0 ELSE CHOOSE p \in up : \A q \in up : p <= q
=============================================================================
