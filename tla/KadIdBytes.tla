----------------------------- MODULE KadIdBytes -----------------------------
(***************************************************************************)
(* The byte arrays of KadId (src/kademlia/kadnode.cpp) and the loops over  *)
(* them, with IdLength bytes of ByteWidth bits.  The checks say that they  *)
(* compute what KadId says of the sets of one bits, which is all the other *)
(* modules know of an id.                                                  *)
(***************************************************************************)
EXTENDS KadId, Bitwise, FiniteSetsExt

CONSTANTS
    IdLength,   \* KAD_ID_LENGTH, 16 in the code
    ByteWidth   \* the bits of an unsigned char, 8

ASSUME BytesAssumption ==
    /\ IdLength \in Nat \ {0}
    /\ ByteWidth \in Nat \ {0}
    /\ BitLength = IdLength * ByteWidth

ByteValues == 0 .. (2^ByteWidth - 1)
Places == 0 .. (IdLength - 1)
ByteIds == [Places -> ByteValues]
Zero == [i \in Places |-> 0]

\* The bits that are one in the array
OneBits(id) == {n \in Bits : (id[n \div ByteWidth] \div 2^(n % ByteWidth)) % 2 = 1}

\* The number the array stands for
NumberOf(id) == MapThenSumSet(LAMBDA i : id[i] * 2^(ByteWidth * i), Places)

-----------------------------------------------------------------------------
(* The loops.  An array may be read one place before its first byte. *)

RECURSIVE SkipZeroBytes(_, _)
SkipZeroBytes(id, i) ==
    IF i >= 0 /\ id[i] = 0 THEN SkipZeroBytes(id, i - 1) ELSE i

\* how often n is shifted left, as an unsigned char, before its top bit is one
RECURSIVE ShiftsToTop(_)
ShiftsToTop(n) ==
    IF n >= 2^(ByteWidth - 1) THEN 0 ELSE 1 + ShiftsToTop((2 * n) % 2^ByteWidth)

\* Mutant of ByteHeight: counted from KAD_ID_BIT_LENGTH
ByteHeightFromLength(id) ==
    LET i == SkipZeroBytes(id, IdLength - 1)
    IN  BitLength - ByteWidth * ((IdLength - 1) - i) - ShiftsToTop(id[i])

\* height(), of an id that is not zero
ByteHeight(id) ==
    LET i == SkipZeroBytes(id, IdLength - 1)
        d == (BitLength - 1) - ByteWidth * ((IdLength - 1) - i)
    IN  d - ShiftsToTop(id[i])

\* operator-
Minus(a, b) == [i \in Places |-> a[i] ^^ b[i]]

RECURSIVE SkipEqualBytes(_, _, _)
SkipEqualBytes(a, b, i) ==
    IF i >= 0 /\ a[i] = b[i] THEN SkipEqualBytes(a, b, i - 1) ELSE i

\* operator<, of ids that differ
ByteLess(a, b) ==
    LET i == SkipEqualBytes(a, b, IdLength - 1) IN a[i] < b[i]

\* idNbitsFarFrom()
ByteIdFarFrom(id, bdist) ==
    LET dIdx == BitLength - bdist
        part == dIdx \div ByteWidth
        ones == 2^ByteWidth - 1
        ax == [i \in Places |->
                CASE i < part -> 0
                  [] i = part -> (ones * 2^((dIdx - i * ByteWidth) % ByteWidth)) % 2^ByteWidth
                  [] i > part -> ones]
    IN  Minus(ax, id)

-----------------------------------------------------------------------------
VARIABLES a, b   \* two ids

Init == a = Zero /\ b = Zero

\* randomId() reads every byte from /dev/urandom, or leaves the zero id
RandomId == \E id \in ByteIds : (a' = id /\ b' = b) \/ (b' = id /\ a' = a)

Next == RandomId

Spec == Init /\ [][Next]_<<a, b>>
-----------------------------------------------------------------------------
\* The loops over the arrays, with their shifts and divisions at the byte
\* boundaries, give what the other modules take an id to do:
\*   - the height of a distance is the place of the highest bit in which two
\*     ids differ, so KadRoutingTable never leaves its array of buckets;
\*   - operator<, which std::sort and std::map rely on, orders the ids that
\*     differ as numbers with the last byte the most significant;
\*   - a target n bits far from an id differs from it in its n highest bits and
\*     in no other, so every target of a lookup but the first is in the
\*     farthest bucket.
LoopsComputeIds ==
    /\ a # b =>
        /\ ByteHeight(Minus(a, b)) = Height(Distance(OneBits(a), OneBits(b)))
        /\ ByteHeight(Minus(a, b)) \in Bits
        /\ ByteLess(a, b) <=> NumberOf(a) < NumberOf(b)
        /\ ByteLess(a, b) <=> Less(OneBits(a), OneBits(b))
    /\ \A n \in 0 .. BitLength :
        LET far == ByteIdFarFrom(a, n)
        IN  /\ OneBits(far) = IdNBitsFarFrom(OneBits(a), n)
            /\ n > 0 => ByteHeight(Minus(far, a)) = BitLength - 1
=============================================================================
