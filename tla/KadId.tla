------------------------------- MODULE KadId -------------------------------
(***************************************************************************)
(* Identifiers of the Kademlia overlay (src/kademlia/kadnode.cpp, KadId).  *)
(* An identifier is the set of its one bits: bit n of the set is bit n % 8 *)
(* of byte n / 8 of the array, the last byte being the most significant.   *)
(* KadIdBytes holds the byte loops of the code and checks that they        *)
(* compute what this module says.                                          *)
(***************************************************************************)
EXTENDS Integers

CONSTANT BitLength   \* KAD_ID_BIT_LENGTH, 128 in the code

ASSUME BitLengthAssumption == BitLength \in Nat \ {0}

Bits == 0 .. (BitLength - 1)

KadIds == SUBSET Bits

\* operator-: the exclusive or of the two ids
Distance(a, b) == (a \ b) \cup (b \ a)

\* height(): the place of the highest one bit.  The code reads outside the
\* array for the zero id, and every caller excludes it.
Height(id) == CHOOSE h \in id : \A b \in id : b <= h

\* operator<: the ids compared as numbers.  Equal ids make the code read the
\* byte before each array: the answer is unknown, see MayPrecede.
Less(a, b) == a # b /\ Height(Distance(a, b)) \in b

\* Some execution of operator< answers true
MayPrecede(a, b) == a = b \/ Less(a, b)

\* idNbitsFarFrom(): the id whose n highest bits differ from those of id
IdNBitsFarFrom(id, n) == Distance((BitLength - n) .. (BitLength - 1), id)
=============================================================================
