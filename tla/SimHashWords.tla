---------------------------- MODULE SimHashWords ----------------------------
(***************************************************************************)
(* The words of a text (StringUtil::tokenize, src/common/stringutil.cpp)   *)
(* and the similarity hash of the words (src/sds_core/simhash.cpp).        *)
(*                                                                         *)
(* A hash has HashBits bits, 128 in the code, and is multiplied by         *)
(* 2^HashShift + HashPrime, 2^88 + 0x13B in the code.  The weights of the  *)
(* bits are chars, of CharBits bits.  Characters are their codes, in lower *)
(* case and below 128.                                                     *)
(***************************************************************************)
EXTENDS Integers, Sequences, FiniteSets, Bitwise, SequencesExt, FiniteSetsExt

CONSTANTS HashBits, HashBasis, HashShift, HashPrime, CharBits

Terminator == 0
Delimiters == {10, 13, 32}                \* newline, return, blank
CutSet == {46, 44, 58, 59, 40, 41, 91, 93, 123, 125, 35, 64}   \* .,:;()[]{}#@

-----------------------------------------------------------------------------
(* tokenize() and trim() *)

\* Without the characters of the cut set at both ends
Trim(token) ==
    LET kept == {i \in DOMAIN token : token[i] \notin CutSet}
    IN  IF kept = {} THEN << >> ELSE SubSeq(token, Min(kept), Max(kept))

\* The runs of characters between the delimiters, each trimmed
Tokens(text) ==
    LET runs == {<<i, j>> \in (DOMAIN text) \X (DOMAIN text) :
                    /\ i <= j
                    /\ \A k \in i .. j : text[k] \notin Delimiters
                    /\ i = 1 \/ text[i - 1] \in Delimiters
                    /\ j = Len(text) \/ text[j + 1] \in Delimiters}
        order == SetToSortSeq(runs, LAMBDA x, y : x[1] < y[1])
    IN  [n \in DOMAIN order |-> Trim(SubSeq(text, order[n][1], order[n][2]))]

-----------------------------------------------------------------------------
(* fnv128String(): a turn of its loop tests one character and hashes the
   next, so the zero byte that ends a word of odd length is hashed and the
   loop goes on in the memory after it *)

\* One turn: the shifted part is of the hash as it was before the character
Hashed(h, c) == (h * 2^HashShift + HashPrime * (h ^^ c)) % 2^HashBits

FnvString(word, beyond) ==
    LET chars == Append(word, Terminator) \o beyond \o <<Terminator, Terminator>>
        tested(n) == chars[2 * n - 1]
        last == Min({n \in 1 .. (Len(chars) + 1) \div 2 : tested(n) = Terminator})
    IN  FoldLeft(LAMBDA h, n : Hashed(h, chars[2 * n]), HashBasis, [n \in 1 .. (last - 1) |-> n])

-----------------------------------------------------------------------------
(* init() *)

Times(tokens, word) == Cardinality({i \in DOMAIN tokens : tokens[i] = word})

\* n as a char
AsChar(n) == ((n + 2^(CharBits - 1)) % 2^CharBits) - 2^(CharBits - 1)

BitOf(h, n) == (h \div 2^n) % 2 = 1

\* Mutant of Weight: words count once however often they occur
WeightOnce(tokens, n, beyond) ==
    AsChar(MapThenSumSet(LAMBDA word : IF BitOf(FnvString(word, beyond), n) THEN 1 ELSE -1,
                         ToSet(tokens)))

\* The weight of a bit: what the words give it, each as often as it occurs
Weight(tokens, n, beyond) ==
    AsChar(MapThenSumSet(LAMBDA word : IF BitOf(FnvString(word, beyond), n)
                                       THEN Times(tokens, word) ELSE -Times(tokens, word),
                         ToSet(tokens)))

\* The bits of the hash that are one
SimHash(tokens, beyond) == {n \in 0 .. (HashBits - 1) : Weight(tokens, n, beyond) > 0}

\* distance(), the bits in which two hashes differ
Hamming(x, y) == Cardinality((x \ y) \union (y \ x))

-----------------------------------------------------------------------------
(* What a hash promises *)

\* The bits that most of the words have
Majority(tokens, beyond) ==
    {n \in 0 .. (HashBits - 1) :
        2 * Cardinality({i \in DOMAIN tokens : BitOf(FnvString(tokens[i], beyond), n)})
            > Len(tokens)}

\* Words joined by single blanks
Joined(words) == FlattenSeq([i \in DOMAIN words |-> IF i = 1 THEN words[i] ELSE <<32>> \o words[i]])

EvenWords(words) == \A i \in DOMAIN words : Len(words[i]) % 2 = 0
=============================================================================
