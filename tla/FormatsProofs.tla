--------------------------- MODULE FormatsProofs ---------------------------
(***************************************************************************)
(* Proofs about what the program reads: the configuration file, the        *)
(* messages of the protocol, and the requests of the web server.           *)
(*                                                                         *)
(* Each is written by one side and read by the other with a loop over      *)
(* bytes, so what has to be proved is that the loop undoes the writing for *)
(* texts, lists and numbers of any length.  A loop is a recursive function *)
(* of the number of its turns: Iterates says that there is a function that *)
(* goes on as it should, and OneSolution that there is no other, both by   *)
(* Counting, which is the least element of a set of numbers.               *)
(***************************************************************************)
EXTENDS ConfigFile, Messages, WebRequest, SequenceTheorems, WellFoundedInduction, TLAPS

-----------------------------------------------------------------------------
(* Sets of numbers, and places in texts *)

\* A set of numbers has a least one
LEMMA LeastElement ==
    ASSUME NEW T, T \subseteq Nat, T # {}
    PROVE  \E t \in T : \A u \in T : t <= u
<1> DEFINE R == {ss \in Nat \X Nat : ss[1] < ss[2]}
<1>1. PICK t \in T : \A u \in T : ~(<<u, t>> \in R)
  <2> HIDE DEF R
  <2>1. R = OpToRel(<, Nat)
    BY DEF R, OpToRel
  <2>2. IsWellFoundedOn(R, Nat)
    BY <2>1, NatLessThanWellFounded
  <2> QED
    BY <2>2, WFMin
<1>2. \A u \in T : t <= u
  <2> SUFFICES ASSUME NEW u \in T, u < t PROVE FALSE
    OBVIOUS
  <2>1. <<u, t>> \in R
    OBVIOUS
  <2> QED
    BY <1>1, <2>1
<1> QED
  BY <1>2

\* The least of a set, once it is known
LEMMA MinIs ==
    ASSUME NEW T, T \subseteq Int, NEW m \in T, \A x \in T : m <= x
    PROVE  Min(T) = m
<1>1. Min(T) \in T /\ \A y \in T : Min(T) <= y
  <2> DEFINE P(x) == x \in T /\ \A y \in T : x <= y
  <2>1. P(m)
    OBVIOUS
  <2>2. P(CHOOSE x : P(x))
    BY <2>1
  <2>3. Min(T) = CHOOSE x : P(x)
    BY DEF Min
  <2> QED
    BY <2>2, <2>3
<1>2. Min(T) <= m /\ m <= Min(T) /\ m \in Int /\ Min(T) \in Int
  BY <1>1
<1> QED
  BY <1>2

\* The greatest of some numbers is one of them
LEMMA GreatestElement ==
    ASSUME NEW n \in Nat, NEW T, T \subseteq 1 .. n, T # {}
    PROVE  Max(T) \in T
<1> DEFINE S == {n - t : t \in T}
<1>1. S \subseteq Nat /\ S # {}
  <2>1. \A t \in T : n - t \in Nat
    OBVIOUS
  <2> QED
    BY <2>1
<1>2. PICK least \in S : \A s \in S : least <= s
  BY <1>1, LeastElement
<1>3. PICK m \in T : least = n - m
  OBVIOUS
<1>4. \A t \in T : m >= t
  <2> SUFFICES ASSUME NEW t \in T PROVE m >= t
    OBVIOUS
  <2>1. n - t \in S /\ m \in 1 .. n /\ t \in 1 .. n
    OBVIOUS
  <2> QED
    BY <1>2, <1>3, <2>1
<1>5. Max(T) = CHOOSE x \in T : \A y \in T : x >= y
  BY DEF Max
<1> QED
  BY <1>4, <1>5, Zenon

\* The first of its kind is the place of a character
LEMMA PlaceIs ==
    ASSUME NEW s \in Seq(Char), NEW c, NEW p \in DOMAIN s, s[p] = c,
           \A i \in 1 .. p - 1 : s[i] # c
    PROVE  Place(s, c) = p
<1> DEFINE at == {i \in DOMAIN s : s[i] = c}
<1>1. at \subseteq Int /\ p \in at /\ \A x \in at : p <= x
  OBVIOUS
<1>2. Place(s, c) = IF at = {} THEN 0 ELSE Min(at)
  BY Zenon DEF Place
<1> HIDE DEF at
<1>3. Min(at) = p
  BY <1>1, MinIs
<1> QED
  BY <1>1, <1>2, <1>3

\* A character that is not there has no place
LEMMA PlaceNone ==
    ASSUME NEW s, NEW c, \A i \in DOMAIN s : s[i] # c
    PROVE  Place(s, c) = 0
BY DEF Place

\* The last element, by its number
LEMMA LastIs ==
    ASSUME NEW S, NEW s \in Seq(S), s # << >>
    PROVE  Last(s) = s[Len(s)]
BY DEF Last

-----------------------------------------------------------------------------
(* Sequences put together and cut apart *)

\* Two sequences of one length with the same elements
LEMMA SameElements ==
    ASSUME NEW S, NEW s \in Seq(S), NEW t \in Seq(S), NEW n, Len(s) = n, Len(t) = n,
           \A i \in 1 .. n : s[i] = t[i]
    PROVE  s = t
BY SeqEqual

\* The elements of two sequences one after the other
LEMMA Joined ==
    ASSUME NEW S, NEW a \in Seq(S), NEW b \in Seq(S)
    PROVE  /\ a \o b \in Seq(S) /\ Len(a \o b) = Len(a) + Len(b)
           /\ DOMAIN (a \o b) = 1 .. Len(a) + Len(b)
           /\ \A i \in 1 .. Len(a) : (a \o b)[i] = a[i]
           /\ \A i \in 1 .. Len(b) : (a \o b)[Len(a) + i] = b[i]
<1>1. /\ Len(a) \in Nat /\ Len(b) \in Nat
      /\ a \o b \in Seq(S) /\ Len(a \o b) = Len(a) + Len(b)
      /\ \A i \in 1 .. Len(a) + Len(b) :
            (a \o b)[i] = IF i <= Len(a) THEN a[i] ELSE b[i - Len(a)]
  BY ConcatProperties
<1> DEFINE c == a \o b
<1>2. c \in Seq(S) /\ Len(c) = Len(a) + Len(b)
  BY <1>1
<1> HIDE DEF c
<1>3. DOMAIN c = 1 .. Len(a) + Len(b)
  BY <1>2
<1>4. DOMAIN (a \o b) = 1 .. Len(a) + Len(b)
  BY <1>3 DEF c
<1>5. ASSUME NEW i \in 1 .. Len(b) PROVE (a \o b)[Len(a) + i] = b[i]
  <2>1. Len(a) + i \in 1 .. Len(a) + Len(b) /\ ~(Len(a) + i <= Len(a)) /\ (Len(a) + i) - Len(a) = i
    BY <1>1
  <2> QED
    BY <1>1, <2>1
<1>6. ASSUME NEW i \in 1 .. Len(a) PROVE (a \o b)[i] = a[i]
  <2>1. i \in 1 .. Len(a) + Len(b) /\ i <= Len(a)
    BY <1>1
  <2> QED
    BY <1>1, <2>1
<1> QED
  BY <1>1, <1>4, <1>5, <1>6

\* What is cut out of a sequence is what lies there
LEMMA Cut ==
    ASSUME NEW S, NEW s \in Seq(S), NEW b \in Seq(S), NEW m \in Nat, m + Len(b) <= Len(s),
           \A i \in 1 .. Len(b) : s[m + i] = b[i],
           NEW x, x = m + 1, NEW y, y = m + Len(b)
    PROVE  SubSeq(s, x, y) = b
<1> DEFINE d == SubSeq(s, x, y)
           n == Len(b)
<1>1. x \in Int /\ y \in Int /\ n \in Nat /\ Len(b) = n /\ y - x + 1 = n /\ (x <= y <=> n > 0)
      /\ y = m + n
  OBVIOUS
<1> HIDE DEF n
<1>2. \A i \in x .. y : s[i] \in S
  BY <1>1
<1>3. /\ d \in Seq(S) /\ Len(d) = (IF x <= y THEN y - x + 1 ELSE 0)
      /\ \A i \in 1 .. y - x + 1 : d[i] = s[x + i - 1]
  BY <1>1, <1>2, SubSeqProperties
<1> HIDE DEF d
<1>4. Len(d) = n
  BY <1>1, <1>3
<1>5. ASSUME NEW i \in 1 .. n PROVE d[i] = b[i]
  <2>1. x + i - 1 = m + i
    BY <1>1
  <2>2. d[i] = s[x + i - 1]
    BY <1>1, <1>3
  <2>3. s[m + i] = b[i]
    BY <1>1
  <2> QED
    BY <2>1, <2>2, <2>3
<1>6. d = b
  BY <1>1, <1>3, <1>4, <1>5, SameElements
<1> QED
  BY <1>6 DEF d

\* The middle of three parts is cut out
LEMMA CutMiddle ==
    ASSUME NEW S, NEW a \in Seq(S), NEW b \in Seq(S), NEW c \in Seq(S)
    PROVE  SubSeq(a \o (b \o c), Len(a) + 1, Len(a) + Len(b)) = b
<1> DEFINE t == b \o c
           s == a \o t
<1>1. t \in Seq(S) /\ Len(t) = Len(b) + Len(c) /\ \A i \in 1 .. Len(b) : t[i] = b[i]
  BY Joined
<1>2. Len(a) \in Nat /\ Len(b) \in Nat /\ Len(c) \in Nat
  OBVIOUS
<1> HIDE DEF t
<1>3. t \in Seq(S)
  BY <1>1
<1>4. s \in Seq(S) /\ Len(s) = Len(a) + Len(t) /\ \A i \in 1 .. Len(t) : s[Len(a) + i] = t[i]
  BY <1>3, Joined
<1> HIDE DEF s
<1>5. Len(a) + Len(b) <= Len(s)
  BY <1>1, <1>2, <1>4
<1>6. ASSUME NEW i \in 1 .. Len(b) PROVE s[Len(a) + i] = b[i]
  BY <1>1, <1>2, <1>4
<1>7. s \in Seq(S)
  BY <1>4
<1>8. SubSeq(s, Len(a) + 1, Len(a) + Len(b)) = b
  BY <1>2, <1>7, <1>5, <1>6, Cut
<1> QED
  BY <1>8 DEF s, t

\* The second of two parts is cut out
LEMMA CutEnd ==
    ASSUME NEW S, NEW a \in Seq(S), NEW b \in Seq(S)
    PROVE  SubSeq(a \o b, Len(a) + 1, Len(a \o b)) = b
<1>1. /\ Len(a) \in Nat /\ a \o b \in Seq(S) /\ Len(a \o b) = Len(a) + Len(b)
      /\ \A i \in 1 .. Len(b) : (a \o b)[Len(a) + i] = b[i]
  BY Joined
<1> QED
  BY <1>1, Cut

\* The first of two parts is cut out
LEMMA CutFront ==
    ASSUME NEW S, NEW a \in Seq(S), NEW b \in Seq(S)
    PROVE  SubSeq(a \o b, 1, Len(a)) = a
<1>1. /\ Len(a) \in Nat /\ a \o b \in Seq(S) /\ Len(a \o b) = Len(a) + Len(b)
      /\ \A i \in 1 .. Len(a) : (a \o b)[i] = a[i] /\ Len(b) \in Nat
  BY Joined
<1>2. 0 + Len(a) <= Len(a \o b) /\ \A i \in 1 .. Len(a) : (a \o b)[0 + i] = a[i]
  BY <1>1
<1>3. 1 = 0 + 1 /\ Len(a) = 0 + Len(a)
  BY <1>1
<1> QED
  BY <1>1, <1>2, <1>3, Cut

-----------------------------------------------------------------------------
(* The characters of a line, and how the configuration file cuts and trims it *)

\* The characters of two texts one after the other
LEMMA CharsJoined ==
    ASSUME NEW a \in Seq(Char), NEW b \in Seq(Char)
    PROVE  Chars(a \o b) = Chars(a) \cup Chars(b)
<1> DEFINE c == a \o b
<1>1. /\ DOMAIN a = 1 .. Len(a) /\ DOMAIN b = 1 .. Len(b) /\ Len(a) \in Nat /\ Len(b) \in Nat
      /\ DOMAIN c = 1 .. Len(a) + Len(b)
      /\ \A i \in 1 .. Len(a) : c[i] = a[i]
      /\ \A i \in 1 .. Len(b) : c[Len(a) + i] = b[i]
  BY Joined
<1> HIDE DEF c
<1>2. Chars(c) \subseteq Chars(a) \cup Chars(b)
  <2> SUFFICES ASSUME NEW i \in 1 .. Len(a) + Len(b)
               PROVE  (\E j \in 1 .. Len(a) : c[i] = a[j]) \/ (\E j \in 1 .. Len(b) : c[i] = b[j])
    BY <1>1 DEF Chars
  <2>1. i \in 1 .. Len(a) \/ (i - Len(a) \in 1 .. Len(b) /\ i = Len(a) + (i - Len(a)))
    BY <1>1
  <2> QED
    BY <1>1, <2>1
<1>3. Chars(a) \cup Chars(b) \subseteq Chars(c)
  <2>1. \A i \in 1 .. Len(a) : i \in DOMAIN c
    BY <1>1
  <2>2. \A i \in 1 .. Len(b) : Len(a) + i \in DOMAIN c
    BY <1>1
  <2> QED
    BY <1>1, <2>1, <2>2 DEF Chars
<1> QED
  BY <1>2, <1>3 DEF c

\* A run of blanks
LEMMA BlanksProperties ==
    ASSUME NEW n \in Nat
    PROVE  /\ Blanks(n) \in Seq(Char) /\ Len(Blanks(n)) = n
           /\ \A i \in 1 .. n : Blanks(n)[i] = Blank
<1>1. Blank \in Char
  BY CharAssumption
<1> QED
  BY <1>1 DEF Blanks

\* The characters of a run of blanks
LEMMA CharsOfBlanks ==
    ASSUME NEW n \in Nat
    PROVE  Blanks(n) \in Seq(Char) /\ Len(Blanks(n)) = n /\ Chars(Blanks(n)) \subseteq {Blank}
BY BlanksProperties DEF Chars

\* The characters of a text of one
LEMMA CharsOfOne ==
    ASSUME NEW c \in Char
    PROVE  <<c>> \in Seq(Char) /\ Len(<<c>>) = 1 /\ Chars(<<c>>) = {c}
BY DEF Chars

\* The place of a character that is not in the text before it
LEMMA PlaceAfter ==
    ASSUME NEW a \in Seq(Char), NEW b \in Seq(Char), NEW c \in Char, c \notin Chars(a)
    PROVE  Place(a \o (<<c>> \o b), c) = Len(a) + 1
<1> DEFINE t == <<c>> \o b
           s == a \o t
<1>1. <<c>> \in Seq(Char) /\ Len(<<c>>) = 1 /\ <<c>>[1] = c
  OBVIOUS
<1>2. t \in Seq(Char) /\ Len(t) = 1 + Len(b) /\ t[1] = c
  BY <1>1, Joined
<1>3. Len(a) \in Nat /\ Len(b) \in Nat
  OBVIOUS
<1> HIDE DEF t
<1>4. t \in Seq(Char)
  BY <1>2
<1>5. /\ s \in Seq(Char) /\ DOMAIN s = 1 .. Len(a) + Len(t)
      /\ \A i \in 1 .. Len(a) : s[i] = a[i]
      /\ \A i \in 1 .. Len(t) : s[Len(a) + i] = t[i]
  BY <1>4, Joined
<1> HIDE DEF s
<1>6. s[Len(a) + 1] = c /\ Len(a) + 1 \in DOMAIN s
  BY <1>2, <1>3, <1>5
<1>7. \A i \in 1 .. Len(a) : s[i] # c
  BY <1>5 DEF Chars
<1>8. (Len(a) + 1) - 1 = Len(a)
  BY <1>3
<1>9. s \in Seq(Char)
  BY <1>5
<1> DEFINE p == Len(a) + 1
<1>10. p \in DOMAIN s /\ s[p] = c /\ \A i \in 1 .. p - 1 : s[i] # c
  BY <1>6, <1>7, <1>8
<1> HIDE DEF p
<1>11. Place(s, c) = p
  BY <1>9, <1>10, PlaceIs
<1> QED
  BY <1>11 DEF p, s, t

\* A character that is not in a text has no place there
LEMMA PlaceInChars ==
    ASSUME NEW s, NEW c, Place(s, c) > 0
    PROVE  c \in Chars(s)
<1> SUFFICES ASSUME c \notin Chars(s) PROVE FALSE
  OBVIOUS
<1>1. Place(s, c) = 0
  BY PlaceNone DEF Chars
<1> QED
  BY <1>1

\* A run of blanks is two runs
LEMMA BlanksSplit ==
    ASSUME NEW m \in Nat, NEW n \in Nat
    PROVE  Blanks(m + n) = Blanks(m) \o Blanks(n)
<1> DEFINE a == Blanks(m)
           b == Blanks(n)
           c == Blanks(m + n)
           s == a \o b
<1>1. /\ a \in Seq(Char) /\ Len(a) = m /\ \A i \in 1 .. m : a[i] = Blank
      /\ b \in Seq(Char) /\ Len(b) = n /\ \A i \in 1 .. n : b[i] = Blank
  BY BlanksProperties
<1>2. c \in Seq(Char) /\ Len(c) = m + n /\ \A i \in 1 .. m + n : c[i] = Blank
  BY BlanksProperties
<1> HIDE DEF a, b, c
<1>3. a \in Seq(Char) /\ b \in Seq(Char)
  BY <1>1
<1>4. /\ s \in Seq(Char) /\ Len(s) = Len(a) + Len(b)
      /\ \A i \in 1 .. Len(a) : s[i] = a[i]
      /\ \A i \in 1 .. Len(b) : s[Len(a) + i] = b[i]
  BY <1>3, Joined
<1> HIDE DEF s
<1>5. ASSUME NEW i \in 1 .. m + n PROVE s[i] = c[i]
  <2>1. CASE i <= m
    BY <1>1, <1>2, <1>4, <2>1
  <2>2. CASE i > m
    <3>1. PICK j \in 1 .. n : i = m + j
      <4>1. i - m \in 1 .. n /\ i = m + (i - m)
        BY <2>2
      <4> QED
        BY <4>1
    <3>2. s[m + j] = b[j]
      BY <1>1, <1>4
    <3>3. b[j] = Blank /\ c[i] = Blank
      BY <1>1, <1>2
    <3> QED
      BY <3>1, <3>2, <3>3
  <2> QED
    BY <2>1, <2>2
<1>6. s = c
  BY <1>1, <1>2, <1>4, <1>5, SameElements
<1> QED
  BY <1>6 DEF a, b, c, s

\* The first trim takes one character off the end
LEMMA FrontOfOne ==
    ASSUME NEW a \in Seq(Char), NEW c \in {Blank, NewLine}
    PROVE  StrRTrim(a \o <<c>>) = a
<1> DEFINE s == a \o <<c>>
<1>1. <<c>> \in Seq(Char) /\ Len(<<c>>) = 1 /\ <<c>>[1] = c
  BY CharAssumption
<1>2. s \in Seq(Char) /\ Len(s) = Len(a) + 1 /\ s[Len(a) + 1] = c
  BY <1>1, Joined
<1>3. Len(s) - 1 = Len(a) /\ s # << >>
  BY <1>2
<1>4. SubSeq(s, 1, Len(a)) = a
  BY <1>1, CutFront
<1> HIDE DEF s
<1>5. Last(s) = c
  BY <1>2, <1>3, LastIs
<1>6. StrRTrim(s) = a
  BY <1>3, <1>4, <1>5 DEF StrRTrim, Front
<1> QED
  BY <1>6 DEF s

\* The last character of two texts one after the other
LEMMA LastOfJoined ==
    ASSUME NEW a \in Seq(Char), NEW b \in Seq(Char), b # << >>
    PROVE  Last(a \o b) = b[Len(b)] /\ a \o b # << >>
<1> DEFINE s == a \o b
<1>1. s \in Seq(Char) /\ Len(s) = Len(a) + Len(b) /\ \A i \in 1 .. Len(b) : s[Len(a) + i] = b[i]
  BY Joined
<1> HIDE DEF s
<1>2. Len(b) \in 1 .. Len(b) /\ Len(a) \in Nat /\ Len(b) > 0
  OBVIOUS
<1>3. s # << >> /\ s[Len(s)] = b[Len(b)]
  BY <1>1, <1>2
<1>4. Last(s) = b[Len(b)]
  BY <1>1, <1>3, LastIs
<1> QED
  BY <1>3, <1>4 DEF s

\* What a trim leaves of a word and the blanks around it
FewerBlanks(n) == IF n = 0 THEN 0 ELSE n - 1

\* What tells a word from what is around it
LEMMA WordProperties ==
    ASSUME NEW w, Word(w)
    PROVE  /\ w \in Seq(Char) /\ w # << >> /\ Len(w) \in Nat /\ Len(w) > 0
           /\ w[1] \in Chars(w) /\ w[Len(w)] \in Chars(w)
           /\ w[1] # Blank /\ w[Len(w)] \notin {Blank, NewLine}
<1>1. w \in Seq(Char) /\ Len(w) \in Nat /\ Len(w) > 0 /\ DOMAIN w = 1 .. Len(w)
  BY DEF Word
<1>2. w[1] \in Chars(w) /\ w[Len(w)] \in Chars(w)
  BY <1>1 DEF Chars
<1> QED
  BY <1>1, <1>2 DEF Word

\* The second trim takes all blanks at the front and one character at the end
LEMMA StrLRTrimIs ==
    ASSUME NEW b \in Seq(Char), \A i \in 1 .. Len(b) : b[i] = Blank,
           NEW u \in Seq(Char), u # << >>, u[1] # Blank,
           NEW r \in Seq(Char),
           \/ Len(r) = 0 /\ u[Len(u)] \notin {Blank, NewLine}
           \/ Len(r) = 1 /\ r[1] \in {Blank, NewLine}
    PROVE  StrLRTrim(b \o (u \o r)) = u
<1> DEFINE t == u \o r
           s == b \o t
           m == Len(b)
           kept == {i \in DOMAIN s : s[i] # Blank} \union {Len(s)}
<1>1. SubSeq(s, m + 1, m + Len(u)) = u
  <2> HIDE DEF m
  <2>1. SubSeq(b \o (u \o r), Len(b) + 1, Len(b) + Len(u)) = u
    BY CutMiddle
  <2> QED
    BY <2>1 DEF m
<1>2. /\ t \in Seq(Char) /\ Len(t) = Len(u) + Len(r)
      /\ \A i \in 1 .. Len(u) : t[i] = u[i]
      /\ \A i \in 1 .. Len(r) : t[Len(u) + i] = r[i]
  BY Joined
<1> HIDE DEF t
<1>3. t \in Seq(Char)
  BY <1>2
<1>4. /\ s \in Seq(Char) /\ Len(s) = m + Len(t) /\ DOMAIN s = 1 .. m + Len(t)
      /\ \A i \in 1 .. m : s[i] = b[i]
      /\ \A i \in 1 .. Len(t) : s[m + i] = t[i]
  BY <1>3, Joined
<1> HIDE DEF s
<1>5. m \in Nat /\ Len(u) \in Nat /\ Len(u) > 0 /\ Len(r) \in Nat
  OBVIOUS
<1>6. \A i \in 1 .. m : s[i] = Blank
  BY <1>4
<1> HIDE DEF m
<1>7. s # << >> /\ Len(s) \in Nat /\ Len(s) > m
  BY <1>2, <1>4, <1>5
<1>8. s[m + 1] # Blank /\ m + 1 \in DOMAIN s
  <2>1. t[1] = u[1] /\ 1 \in 1 .. Len(t)
    BY <1>2, <1>5
  <2> QED
    BY <1>2, <1>4, <1>5, <2>1
<1>9. Last(s) = t[Len(t)]
  <2>1. Last(s) = s[Len(s)]
    BY <1>4, <1>7, LastIs
  <2>2. Len(t) \in 1 .. Len(t)
    BY <1>2, <1>5
  <2> QED
    BY <1>4, <2>1, <2>2
<1>10. (IF Last(s) \in {Blank, NewLine} THEN Len(s) - 1 ELSE Len(s)) = m + Len(u)
  <2>1. CASE Len(r) = 0 /\ u[Len(u)] \notin {Blank, NewLine}
    <3>1. Len(t) = Len(u) /\ t[Len(u)] = u[Len(u)]
      BY <1>2, <1>5, <2>1
    <3> QED
      BY <1>4, <1>5, <1>9, <2>1, <3>1
  <2>2. CASE Len(r) = 1 /\ r[1] \in {Blank, NewLine}
    <3>1. Len(t) = Len(u) + 1 /\ t[Len(u) + 1] = r[1]
      BY <1>2, <1>5, <2>2
    <3> QED
      BY <1>4, <1>5, <1>9, <2>2, <3>1
  <2> QED
    BY <2>1, <2>2
<1>11. Min(kept) = m + 1
  <2>1. kept \subseteq Int /\ m + 1 \in kept
    BY <1>4, <1>5, <1>7, <1>8
  <2>2. ASSUME NEW x \in kept PROVE m + 1 <= x
    <3>1. x \in Nat /\ x > 0 /\ ~(x \in 1 .. m)
      BY <1>4, <1>5, <1>6, <1>7
    <3> QED
      BY <1>5, <3>1
  <2> HIDE DEF kept
  <2> QED
    BY <2>1, <2>2, MinIs
<1>12. StrLRTrim(s) = SubSeq(s, m + 1, m + Len(u))
  BY <1>7, <1>10, <1>11 DEF StrLRTrim
<1> QED
  BY <1>1, <1>12 DEF s, t, m

\* A word keeps the blanks after it but one
LEMMA StrLRTrimWord ==
    ASSUME NEW m \in Nat, NEW w, Word(w), NEW n \in Nat
    PROVE  StrLRTrim((Blanks(m) \o w) \o Blanks(n)) = w \o Blanks(FewerBlanks(n))
<1> DEFINE k == FewerBlanks(n)
           b == Blanks(m)
           c == Blanks(k)
           r == Blanks(n - k)
           u == w \o c
<1>1. k \in Nat /\ n - k \in Nat /\ n = k + (n - k) /\ (n = 0 => k = 0) /\ (n = 0 => n - k = 0)
      /\ (n > 0 => n - k = 1)
  BY DEF FewerBlanks
<1>2. /\ w \in Seq(Char) /\ Len(w) \in Nat /\ Len(w) > 0 /\ w # << >>
      /\ w[1] # Blank /\ w[Len(w)] \notin {Blank, NewLine}
  BY WordProperties
<1> HIDE DEF k
<1>3. /\ b \in Seq(Char) /\ Len(b) = m /\ \A i \in 1 .. Len(b) : b[i] = Blank
      /\ c \in Seq(Char) /\ Len(c) = k
      /\ r \in Seq(Char) /\ Len(r) = n - k /\ \A i \in 1 .. n - k : r[i] = Blank
  BY <1>1, BlanksProperties
<1>4. Blanks(n) = c \o r
  BY <1>1, BlanksSplit
<1> HIDE DEF b, c, r
<1>5. w \in Seq(Char) /\ b \in Seq(Char) /\ c \in Seq(Char) /\ r \in Seq(Char)
  BY <1>2, <1>3
<1>6. (b \o w) \o (c \o r) = b \o ((w \o c) \o r)
  <2> DEFINE d == c \o r
  <2>1. d \in Seq(Char)
    BY <1>5, Joined
  <2> HIDE DEF d
  <2>2. (b \o w) \o d = b \o (w \o d)
    BY <1>5, <2>1, ConcatAssociative
  <2> USE DEF d
  <2>3. w \o (c \o r) = (w \o c) \o r
    BY <1>5, ConcatAssociative
  <2> QED
    BY <2>2, <2>3
<1>7. u \in Seq(Char) /\ Len(u) = Len(w) + Len(c) /\ \A i \in 1 .. Len(w) : u[i] = w[i]
  BY <1>5, Joined
<1> HIDE DEF u
<1>8. u # << >> /\ u[1] # Blank /\ (n = 0 => u[Len(u)] \notin {Blank, NewLine})
  BY <1>1, <1>2, <1>3, <1>7
<1>9. \/ Len(r) = 0 /\ u[Len(u)] \notin {Blank, NewLine}
      \/ Len(r) = 1 /\ r[1] \in {Blank, NewLine}
  <2>1. CASE n = 0
    BY <1>1, <1>3, <1>8, <2>1
  <2>2. CASE n > 0
    <3>1. n - k = 1
      BY <1>1, <2>2
    <3> QED
      BY <1>3, <3>1
  <2> QED
    BY <2>1, <2>2
<1>10. StrLRTrim(b \o (u \o r)) = u
  BY <1>3, <1>5, <1>7, <1>8, <1>9, StrLRTrimIs
<1> QED
  BY <1>4, <1>6, <1>10 DEF u, b, c, k

-----------------------------------------------------------------------------
(* What parse() makes of the line of a setting *)

\* Texts join in any order of the joins
LEMMA CharsAssociate ==
    \A a, b, c \in Seq(Char) : (a \o b) \o c = a \o (b \o c)
<1> SUFFICES ASSUME NEW a \in Seq(Char), NEW b \in Seq(Char), NEW c \in Seq(Char)
             PROVE  (a \o b) \o c = a \o (b \o c)
  OBVIOUS
<1> QED
  BY ConcatAssociative

\* The length and the characters of joined texts, for all texts
LEMMA CharsJoin ==
    \A a, b \in Seq(Char) :
        /\ a \o b \in Seq(Char) /\ Len(a \o b) = Len(a) + Len(b)
        /\ Chars(a \o b) = Chars(a) \cup Chars(b)
BY Joined, CharsJoined

\* What is appended to the last of three parts
LEMMA Regrouped ==
    \A a, b, c, d \in Seq(Char) :
        /\ a \o (b \o (c \o d)) = (a \o (b \o c)) \o d
        /\ a \o (b \o c) \in Seq(Char)
<1> SUFFICES ASSUME NEW a \in Seq(Char), NEW b \in Seq(Char), NEW c \in Seq(Char), NEW d \in Seq(Char)
             PROVE  /\ a \o (b \o (c \o d)) = (a \o (b \o c)) \o d
                    /\ a \o (b \o c) \in Seq(Char)
  OBVIOUS
<1> DEFINE e == b \o c
<1>1. b \o (c \o d) = (b \o c) \o d
  BY CharsAssociate
<1>2. e \in Seq(Char)
  BY CharsJoin
<1> HIDE DEF e
<1>3. a \o (e \o d) = (a \o e) \o d
  BY <1>2, CharsAssociate
<1>4. a \o e \in Seq(Char)
  BY <1>2, CharsJoin
<1> QED
  BY <1>1, <1>3, <1>4 DEF e

\* The characters of a word with blanks around it
LEMMA Padded ==
    ASSUME NEW m \in Nat, NEW w \in Seq(Char), w # << >>, NEW n \in Nat
    PROVE  LET p == (Blanks(m) \o w) \o Blanks(n)
           IN  p \in Seq(Char) /\ Chars(p) \subseteq {Blank} \cup Chars(w) /\ p # << >>
<1> DEFINE a == Blanks(m)
           b == Blanks(n)
           c == a \o w
<1>1. a \in Seq(Char) /\ b \in Seq(Char) /\ Chars(a) \subseteq {Blank} /\ Chars(b) \subseteq {Blank}
  BY CharsOfBlanks
<1> HIDE DEF a, b
<1>2. c \in Seq(Char) /\ Chars(c) = Chars(a) \cup Chars(w) /\ Len(c) = Len(a) + Len(w)
  BY <1>1, CharsJoin
<1> HIDE DEF c
<1>3. c \o b \in Seq(Char) /\ Chars(c \o b) = Chars(c) \cup Chars(b) /\ Len(c \o b) = Len(c) + Len(b)
  BY <1>1, <1>2, CharsJoin
<1>4. Len(w) > 0 /\ Len(a) \in Nat /\ Len(b) \in Nat
  BY <1>1
<1>5. c \o b # << >>
  <2> DEFINE d == c \o b
  <2>1. Len(d) > 0
    BY <1>2, <1>3, <1>4
  <2> HIDE DEF d
  <2>2. d # << >>
    BY <2>1
  <2> QED
    BY <2>2 DEF d
<1> QED
  BY <1>1, <1>2, <1>3, <1>5 DEF a, b, c

\* What comes before the sign of a setting
KeyPart(s) == (Blanks(s.indent) \o s.key) \o Blanks(s.before)

\* The blanks after the value that the first trim leaves
Trailing(s) == IF s.comment THEN FewerBlanks(s.trailing) ELSE s.trailing

\* and after it, with n blanks left at the end
ValuePart(s, n) == (Blanks(s.after) \o s.value) \o Blanks(n)

\* What is before the sign of a setting and after it
LEMMA SettingParts ==
    ASSUME NEW s, Settable(s), NEW n \in Nat
    PROVE  /\ KeyPart(s) \in Seq(Char) /\ KeyPart(s) # << >>
           /\ Chars(KeyPart(s)) \subseteq {Blank} \cup Chars(s.key)
           /\ ValuePart(s, n) \in Seq(Char) /\ ValuePart(s, n) # << >>
           /\ Chars(ValuePart(s, n)) \subseteq {Blank} \cup Chars(s.value)
           /\ <<Equals>> \in Seq(Char)
           /\ KeyPart(s) \o (<<Equals>> \o ValuePart(s, n)) \in Seq(Char)
           /\ Chars(KeyPart(s) \o (<<Equals>> \o ValuePart(s, n)))
                \subseteq {Blank, Equals} \cup Chars(s.key) \cup Chars(s.value)
<1>1. /\ s.indent \in Nat /\ s.before \in Nat /\ s.after \in Nat
      /\ s.key \in Seq(Char) /\ s.key # << >> /\ s.value \in Seq(Char) /\ s.value # << >>
  BY WordProperties DEF Settable, SettingType
<1>2. /\ KeyPart(s) \in Seq(Char) /\ KeyPart(s) # << >>
      /\ Chars(KeyPart(s)) \subseteq {Blank} \cup Chars(s.key)
  BY <1>1, Padded DEF KeyPart
<1>3. /\ ValuePart(s, n) \in Seq(Char) /\ ValuePart(s, n) # << >>
      /\ Chars(ValuePart(s, n)) \subseteq {Blank} \cup Chars(s.value)
  BY <1>1, Padded DEF ValuePart
<1> DEFINE k == KeyPart(s)
           v == ValuePart(s, n)
           e == <<Equals>>
           t == e \o v
<1>4. e \in Seq(Char) /\ Chars(e) = {Equals}
  BY CharAssumption, CharsOfOne
<1> HIDE DEF k, v, e
<1>5. k \in Seq(Char) /\ v \in Seq(Char)
  BY <1>2, <1>3 DEF k, v
<1>6. t \in Seq(Char) /\ Chars(t) = Chars(e) \cup Chars(v)
  BY <1>4, <1>5, CharsJoin
<1> HIDE DEF t
<1>7. k \o t \in Seq(Char) /\ Chars(k \o t) = Chars(k) \cup Chars(t)
  BY <1>5, <1>6, CharsJoin
<1> QED
  BY <1>2, <1>3, <1>4, <1>6, <1>7 DEF k, v, e, t

\* The characters that structure a line are not each other
LEMMA CharactersDiffer ==
    /\ Blank \notin {NewLine, Comment, Opening, Closing, Equals}
    /\ Equals \notin {NewLine, Comment, Opening, Closing}
    /\ NewLine \notin {Comment, Opening, Closing} /\ Comment \notin {Opening, Closing} /\ Opening # Closing
BY DEF Blank, NewLine, Comment, Opening, Closing, Equals

\* What is left of the line of a setting after the first trim
LEMMA TrimmedLine ==
    ASSUME NEW s, Settable(s)
    PROVE  StrRTrim(Uncommented(SettingLine(s)))
                = KeyPart(s) \o (<<Equals>> \o ValuePart(s, Trailing(s)))
<1> DEFINE k == KeyPart(s)
           v == ValuePart(s, s.trailing)
           e == <<Equals>>
           E == End(s.comment)
           body == k \o (e \o v)
<1>1. /\ s.trailing \in Nat /\ s.comment \in BOOLEAN /\ s.after \in Nat
      /\ s.value \in Seq(Char) /\ s.value # << >>
      /\ s.value[Len(s.value)] \notin {Blank, NewLine}
      /\ Comment \notin Chars(s.key) \cup Chars(s.value) \cup {Blank, Equals}
  BY CharactersDiffer, WordProperties DEF Settable, SettingType, Word
<1>2. /\ k \in Seq(Char) /\ v \in Seq(Char) /\ v # << >> /\ e \in Seq(Char) /\ body \in Seq(Char)
      /\ Comment \notin Chars(body)
  BY <1>1, SettingParts
<1>3. E \in Seq(Char)
  BY CharAssumption, <1>1 DEF End
<1>4. SettingLine(s) = body \o E
  <2>1. SettingLine(s) = k \o (e \o (v \o E))
    BY DEF SettingLine, KeyPart, ValuePart
  <2>0. k \in Seq(Char) /\ v \in Seq(Char) /\ e \in Seq(Char) /\ E \in Seq(Char)
    BY <1>2, <1>3
  <2> HIDE DEF k, e, v, E
  <2>2. k \o (e \o (v \o E)) = (k \o (e \o v)) \o E
    BY <2>0, Regrouped, SMTT(30)
  <2> QED
    BY <2>1, <2>2
<1>5. CASE s.comment
  <2> DEFINE r == <<Blank, NewLine>>
  <2>1. E = <<Comment>> \o r /\ r \in Seq(Char)
    BY CharAssumption, <1>5 DEF End
  <2> HIDE DEF r, body
  <2>2. Place(body \o (<<Comment>> \o r), Comment) = Len(body) + 1
    BY CharAssumption, <1>2, <2>1, PlaceAfter
  <2>3. SubSeq(body \o E, 1, Len(body)) = body
    BY <1>2, <1>3, CutFront
  <2>4. Len(body) \in Nat /\ (Len(body) + 1) - 1 = Len(body) /\ Len(body) + 1 # 0
    BY <1>2
  <2>5. Uncommented(SettingLine(s)) = body
    <3> DEFINE line == SettingLine(s)
    <3>1. Place(line, Comment) = Len(body) + 1 /\ SubSeq(line, 1, Len(body)) = body
      BY <1>4, <2>1, <2>2, <2>3
    <3> HIDE DEF line
    <3>2. Uncommented(line) = body
      BY <2>4, <3>1 DEF Uncommented, Before
    <3> QED
      BY <3>2 DEF line
  <2>6. CASE s.trailing = 0
    <3>1. Trailing(s) = s.trailing
      BY <1>5, <2>6 DEF Trailing, FewerBlanks
    <3>2. Last(body) \notin {Blank, NewLine}
      <4> DEFINE a == Blanks(s.after)
                 b == s.value
                 u == a \o b
                 t == e \o v
      <4>1. v = u
        <5>1. Blanks(0) = << >>
          BY DEF Blanks
        <5>2. u \in Seq(Char)
          BY <1>1, BlanksProperties, CharsJoin
        <5> HIDE DEF u
        <5>3. u \o << >> = u
          BY <5>2, ConcatEmptySeq
        <5> QED
          BY <2>6, <5>1, <5>3 DEF ValuePart, u
      <4>2. Last(u) = b[Len(b)]
        BY <1>1, BlanksProperties, LastOfJoined
      <4> HIDE DEF e, v
      <4>3. t \in Seq(Char) /\ Last(t) = v[Len(v)] /\ t # << >>
        BY <1>2, LastOfJoined, CharsJoin
      <4>4. v[Len(v)] = Last(v)
        BY <1>2, LastIs
      <4> HIDE DEF t, k, u
      <4>5. Last(k \o t) = t[Len(t)]
        BY <1>2, <4>3, LastOfJoined
      <4>6. t[Len(t)] = Last(t)
        BY <4>3, LastIs
      <4> QED
        BY <1>1, <4>1, <4>2, <4>3, <4>4, <4>5, <4>6 DEF body, t
    <3>3. StrRTrim(body) = body
      BY <3>2 DEF StrRTrim
    <3> QED
      BY <2>5, <3>1, <3>3 DEF body
  <2>7. CASE s.trailing > 0
    <3> DEFINE n == Trailing(s)
               c == Blanks(n)
               a == Blanks(s.after)
               u == (a \o s.value) \o c
    <3>1. n \in Nat /\ s.trailing = n + 1
      BY <1>1, <1>5, <2>7 DEF Trailing, FewerBlanks
    <3>2. Blanks(1) = <<Blank>>
      BY DEF Blanks
    <3>3. Blanks(s.trailing) = c \o <<Blank>>
      BY <3>1, <3>2, BlanksSplit
    <3> DEFINE d == <<Blank>>
    <3>4. a \in Seq(Char) /\ c \in Seq(Char) /\ d \in Seq(Char)
      <4> HIDE DEF n
      <4>1. d \in Seq(Char)
        BY CharAssumption
      <4> QED
        BY <1>1, <3>1, <4>1, BlanksProperties
    <3>5. v = u \o <<Blank>> /\ u = ValuePart(s, n) /\ u \in Seq(Char)
      <4> DEFINE w == a \o s.value
      <4>1. w \in Seq(Char)
        BY <1>1, <3>4, CharsJoin
      <4>2. v = w \o (c \o <<Blank>>)
        BY <3>3 DEF ValuePart
      <4> HIDE DEF w, c
      <4>3. w \o (c \o <<Blank>>) = (w \o c) \o <<Blank>> /\ w \o c \in Seq(Char)
        BY <3>4, <4>1, CharsAssociate, CharsJoin
      <4> QED
        BY <4>2, <4>3 DEF w, c, ValuePart
    <3> HIDE DEF u, n, k, e, v, d
    <3>0. k \in Seq(Char) /\ e \in Seq(Char) /\ u \in Seq(Char) /\ d \in Seq(Char)
      BY <1>2, <3>4, <3>5
    <3>6. k \o (e \o (u \o d)) = (k \o (e \o u)) \o d /\ k \o (e \o u) \in Seq(Char)
      BY <3>0, Regrouped
    <3> USE DEF d
    <3>7. body = (k \o (e \o u)) \o <<Blank>>
      BY <3>5, <3>6 DEF body
    <3>8. StrRTrim(body) = k \o (e \o u)
      BY <3>6, <3>7, FrontOfOne
    <3> QED
      BY <2>5, <3>5, <3>8 DEF n, k, e
  <2> QED
    BY <1>1, <2>6, <2>7
<1>6. CASE ~s.comment
  <2>1. E = <<NewLine>> /\ Trailing(s) = s.trailing
    BY <1>6 DEF End, Trailing
  <2> HIDE DEF body, E
  <2>2. Chars(E) = {NewLine}
    BY <2>1, CharAssumption, CharsOfOne
  <2>3. Chars(body \o E) = Chars(body) \cup Chars(E)
    BY <1>2, <1>3, CharsJoin
  <2> DEFINE line == body \o E
  <2>4. Comment \notin Chars(line)
    BY <1>2, <2>2, <2>3, CharactersDiffer
  <2> HIDE DEF line
  <2>5. Place(line, Comment) = 0
    BY <2>4, PlaceNone DEF Chars
  <2> USE DEF line
  <2>6. Uncommented(SettingLine(s)) = body \o E
    BY <1>4, <2>5 DEF Uncommented
  <2>7. StrRTrim(body \o E) = body
    BY <1>2, <2>1, FrontOfOne
  <2> QED
    BY <2>1, <2>6, <2>7 DEF body
<1> QED
  BY <1>1, <1>5, <1>6

\* The line of a setting is a key and a value for the section opened last, each
\* with the blanks the trims leave
LEMMA SettingParsed ==
    ASSUME NEW s, Settable(s), NEW ini
    PROVE  ParseLine(ini, SettingLine(s))
            = [ini EXCEPT !.sections[Len(ini.sections)].values =
                Append(@, <<s.key \o Blanks(FewerBlanks(s.before)),
                            s.value \o Blanks(FewerBlanks(Trailing(s)))>>)]
<1> DEFINE k == KeyPart(s)
           n == Trailing(s)
           v == ValuePart(s, n)
           e == <<Equals>>
           buf == k \o (e \o v)
           key == s.key \o Blanks(FewerBlanks(s.before))
           value == s.value \o Blanks(FewerBlanks(n))
<1>1. /\ s.indent \in Nat /\ s.before \in Nat /\ s.after \in Nat /\ n \in Nat
      /\ Word(s.key) /\ Word(s.value) /\ s.key \in Seq(Char) /\ s.value \in Seq(Char)
      /\ s.key # << >> /\ s.value # << >>
  BY DEF Settable, SettingType, Word, Trailing, FewerBlanks
<1> HIDE DEF n
<1>2. /\ k \in Seq(Char) /\ k # << >> /\ Chars(k) \subseteq {Blank} \cup Chars(s.key)
      /\ v \in Seq(Char) /\ e \in Seq(Char) /\ buf \in Seq(Char)
      /\ Chars(buf) \subseteq {Blank, Equals} \cup Chars(s.key) \cup Chars(s.value)
  BY <1>1, SettingParts
<1>3. StrLRTrim(k) = key /\ StrLRTrim(v) = value
  BY <1>1, StrLRTrimWord DEF KeyPart, ValuePart
<1>4. key # << >> /\ value # << >>
  <2>1. ASSUME NEW w \in Seq(Char), w # << >>, NEW m \in Nat PROVE w \o Blanks(FewerBlanks(m)) # << >>
    <3> DEFINE b == Blanks(FewerBlanks(m))
    <3>1. b \in Seq(Char)
      BY BlanksProperties DEF FewerBlanks
    <3> HIDE DEF b
    <3> DEFINE c == w \o b
    <3>2. Len(c) = Len(w) + Len(b)
      BY <3>1, CharsJoin
    <3>3. Len(w) > 0 /\ Len(w) \in Nat /\ Len(b) \in Nat
      BY <2>1, <3>1
    <3> HIDE DEF c
    <3>4. Len(c) # 0
      BY <3>2, <3>3
    <3>5. c # << >>
      BY <3>4
    <3> QED
      BY <3>5 DEF b, c
  <2> QED
    BY <1>1, <2>1
<1>5. StrRTrim(Uncommented(SettingLine(s))) = buf
  BY TrimmedLine DEF n
<1>6. Place(buf, Equals) = Len(k) + 1
  <2>1. Equals \in Char /\ Equals \notin Chars(k)
    BY <1>2, CharAssumption, CharactersDiffer DEF Settable
  <2> HIDE DEF k, v
  <2> QED
    BY <1>2, <2>1, PlaceAfter
<1>7. Before(buf, Len(k) + 1) = k /\ After(buf, Len(k) + 1) = v
  <2> HIDE DEF k, v, e
  <2> DEFINE t == e \o v
             u == k \o e
  <2>1. t \in Seq(Char) /\ u \in Seq(Char) /\ Len(u) = Len(k) + Len(e)
    BY <1>2, CharsJoin
  <2>2. buf = u \o v
    BY <1>2, CharsAssociate
  <2> HIDE DEF t
  <2>3. SubSeq(k \o t, 1, Len(k)) = k
    BY <1>2, <2>1, CutFront
  <2> HIDE DEF u
  <2>4. SubSeq(u \o v, Len(u) + 1, Len(u \o v)) = v
    BY <1>2, <2>1, CutEnd
  <2>5. Len(e) = 1 /\ Len(k) \in Nat /\ (Len(k) + 1) - 1 = Len(k)
    BY <1>2 DEF e
  <2>6. SubSeq(buf, 1, Len(k)) = k
    BY <2>3 DEF t
  <2>7. SubSeq(buf, Len(k) + 1 + 1, Len(buf)) = v
    BY <2>1, <2>2, <2>4, <2>5
  <2> HIDE DEF buf
  <2> QED
    BY <2>5, <2>6, <2>7 DEF Before, After
<1>8. ~(Place(buf, Opening) > 0 /\ Place(buf, Closing) > 0)
  <2> HIDE DEF buf
  <2> SUFFICES ASSUME Place(buf, Opening) > 0, Place(buf, Closing) > 0 PROVE FALSE
    OBVIOUS
  <2>1. {Opening, Closing} \subseteq Chars(buf)
    BY PlaceInChars
  <2> QED
    BY <1>2, <2>1, CharactersDiffer DEF Settable
<1>9. buf # << >>
  <2> DEFINE t == e \o v
  <2>1. t \in Seq(Char)
    BY <1>2, CharsJoin
  <2> HIDE DEF k, t
  <2>2. k \o t # << >>
    BY <1>2, <2>1, ConcatEqualIffEmpty
  <2> QED
    BY <2>2 DEF t
<1>10. Len(k) + 1 # 0
  BY <1>2
<1> HIDE DEF buf, k, v, key, value
<1>11. ParseLine(ini, SettingLine(s)) = ParseValue(ini, buf)
  BY <1>5, <1>8, <1>9 DEF ParseLine
<1>12. ParseValue(ini, buf)
        = [ini EXCEPT !.sections[Len(ini.sections)].values = Append(@, <<key, value>>)]
  BY <1>3, <1>4, <1>6, <1>7, <1>10 DEF ParseValue
<1> QED
  BY <1>11, <1>12 DEF key, value, n

\* Before a tidy setting has no blanks at the end
LEMMA TidyParsed ==
    ASSUME NEW s, Settable(s), Tidy(s)
    PROVE  /\ s.key \o Blanks(FewerBlanks(s.before)) = s.key
           /\ s.value \o Blanks(FewerBlanks(Trailing(s))) = s.value
<1>1. s.before \in Nat /\ s.trailing \in Nat /\ s.key \in Seq(Char) /\ s.value \in Seq(Char)
      /\ s.comment \in BOOLEAN
  BY DEF Settable, SettingType
<1>2. FewerBlanks(s.before) = 0
  BY <1>1 DEF Tidy, FewerBlanks
<1>3. FewerBlanks(Trailing(s)) = 0
  BY <1>1 DEF Tidy, FewerBlanks, Trailing
<1>4. Blanks(0) = << >>
  BY DEF Blanks
<1> QED
  BY <1>1, <1>2, <1>3, <1>4, ConcatEmptySeq

\* A line with the name of a section opens it
LEMMA SectionParsed ==
    ASSUME NEW name, Word(name), Chars(name) \cap {Opening, Closing} = {}, NEW ini
    PROVE  ParseLine(ini, SectionLine(name))
            = [ini EXCEPT !.sections = Append(@, [name |-> name, values |-> << >>])]
<1> DEFINE o == <<Opening>>
           c == <<Closing>>
           l == <<NewLine>>
           u == o \o name
           buf == o \o (name \o c)
<1>1. /\ name \in Seq(Char) /\ name # << >> /\ Chars(name) \cap {Comment, NewLine, Opening, Closing} = {}
      /\ Len(name) \in Nat
  BY DEF Word
<1>2. /\ o \in Seq(Char) /\ c \in Seq(Char) /\ l \in Seq(Char) /\ Len(o) = 1
      /\ Chars(o) = {Opening} /\ Chars(c) = {Closing} /\ Chars(l) = {NewLine}
  BY CharAssumption, CharsOfOne
<1>3. <<Closing, NewLine>> = c \o l
  OBVIOUS
<1> HIDE DEF o, c, l
<1>4. u \in Seq(Char) /\ Chars(u) = {Opening} \cup Chars(name) /\ Len(u) = 1 + Len(name)
  BY <1>1, <1>2, CharsJoin
<1>5. buf = u \o c /\ buf \in Seq(Char) /\ Chars(buf) = Chars(u) \cup {Closing}
  <2>1. buf = u \o c
    <3>1. o \in Seq(Char) /\ name \in Seq(Char) /\ c \in Seq(Char)
      BY <1>1, <1>2
    <3> QED
      BY <3>1, CharsAssociate, Zenon
  <2> HIDE DEF u
  <2>2. u \o c \in Seq(Char) /\ Chars(u \o c) = Chars(u) \cup {Closing}
    BY <1>2, <1>4, CharsJoin
  <2> QED
    BY <2>1, <2>2
<1>6. SectionLine(name) = buf \o l
  <2>1. SectionLine(name) = u \o (c \o l)
    BY <1>3 DEF SectionLine, o
  <2> HIDE DEF u
  <2>2. u \o (c \o l) = (u \o c) \o l
    BY <1>2, <1>4, CharsAssociate
  <2> QED
    BY <1>5, <2>1, <2>2
<1>7. StrRTrim(buf \o l) = buf
  <2> HIDE DEF buf
  <2> QED
    BY <1>5, FrontOfOne DEF l
<1>8. Uncommented(buf \o l) = buf \o l
  <2> HIDE DEF buf
  <2>0. buf \in Seq(Char)
    BY <1>5
  <2>1. Chars(buf \o l) = Chars(buf) \cup {NewLine}
    BY <1>2, <2>0, CharsJoin
  <2>2. Comment \notin Chars(buf \o l)
    BY <1>1, <1>4, <1>5, <2>1, CharactersDiffer
  <2> DEFINE line == buf \o l
  <2> HIDE DEF line
  <2>3. Place(line, Comment) = 0
    BY <2>2, PlaceNone DEF Chars, line
  <2>4. Uncommented(line) = line
    BY <2>3 DEF Uncommented
  <2> QED
    BY <2>4 DEF line
<1>9. Place(buf, Closing) = Len(name) + 2
  <2>1. Closing \in Char /\ Closing \notin Chars(u) /\ << >> \in Seq(Char)
    BY <1>1, <1>4, CharAssumption, CharactersDiffer
  <2>2. c = <<Closing>> \o << >>
    BY <1>2, ConcatEmptySeq DEF c
  <2> HIDE DEF u
  <2>3. Place(u \o (<<Closing>> \o << >>), Closing) = Len(u) + 1
    BY <1>4, <2>1, PlaceAfter
  <2> QED
    BY <1>1, <1>4, <1>5, <2>2, <2>3
<1>10. Place(buf, Opening) = 1
  <2> DEFINE t == name \o c
  <2>1. t \in Seq(Char) /\ << >> \in Seq(Char) /\ Opening \in Char /\ Opening \notin Chars(<< >>)
    BY <1>1, <1>2, CharsJoin, CharAssumption DEF Chars
  <2> HIDE DEF t
  <2>2. Place(<< >> \o (<<Opening>> \o t), Opening) = Len(<< >>) + 1
    BY <2>1, PlaceAfter
  <2>3. <<Opening>> \o t \in Seq(Char)
    BY <1>2, <2>1, CharsJoin DEF o
  <2>4. << >> \o (<<Opening>> \o t) = <<Opening>> \o t
    BY <2>3, ConcatEmptySeq
  <2> QED
    BY <2>2, <2>4 DEF t, o
<1>11. SubSeq(buf, 1 + 1, Len(name) + 2 - 1) = name
  <2>1. SubSeq(o \o (name \o c), Len(o) + 1, Len(o) + Len(name)) = name
    BY <1>1, <1>2, CutMiddle
  <2>2. Len(o) + 1 = 1 + 1 /\ Len(o) + Len(name) = Len(name) + 2 - 1
    BY <1>1, <1>2
  <2> QED
    BY <2>1, <2>2
<1>12. buf # << >>
  <2> HIDE DEF buf
  <2>1. Opening \in Chars(buf)
    BY <1>4, <1>5
  <2> QED
    BY <2>1 DEF Chars
<1> HIDE DEF buf
<1>13. ParseLine(ini, SectionLine(name)) = ParseSection(ini, buf)
  BY <1>1, <1>6, <1>7, <1>8, <1>9, <1>10, <1>12 DEF ParseLine
<1>14. ParseSection(ini, buf) = [ini EXCEPT !.sections = Append(@, [name |-> name, values |-> << >>])]
  <2>1. (IF Place(buf, Closing) > Place(buf, Opening)
         THEN SubSeq(buf, Place(buf, Opening) + 1, Place(buf, Closing) - 1)
         ELSE After(buf, Place(buf, Opening))) = name
    BY <1>1, <1>9, <1>10, <1>11
  <2>2. name # << >>
    BY <1>1
  <2> QED
    BY <2>1, <2>2, Zenon DEF ParseSection
<1> QED
  BY <1>13, <1>14

\* A line without anything says nothing, and one of blanks is refused
LEMMA EmptyParsed ==
    ASSUME NEW indent \in Nat, NEW comment \in BOOLEAN, NEW ini
    PROVE  ParseLine(ini, EmptyLine(indent, comment))
            = IF indent > (IF comment THEN 1 ELSE 0) THEN Threw(ini) ELSE ini
<1> DEFINE b == Blanks(indent)
           k == IF comment THEN FewerBlanks(indent) ELSE indent
           E == End(comment)
           line == EmptyLine(indent, comment)
           buf == Blanks(k)
<1>1. k \in Nat /\ (k = 0 <=> ~(indent > (IF comment THEN 1 ELSE 0)))
  BY DEF FewerBlanks
<1>2. /\ b \in Seq(Char) /\ Chars(b) \subseteq {Blank}
      /\ buf \in Seq(Char) /\ Chars(buf) \subseteq {Blank} /\ Len(buf) = k
  BY <1>1, CharsOfBlanks
<1>3. E \in Seq(Char)
  BY CharAssumption DEF End
<1>4. Blanks(0) = << >>
  BY DEF Blanks
<1>5. StrRTrim(Uncommented(line)) = buf
  <2>1. CASE comment
    <3> DEFINE r == <<Blank, NewLine>>
    <3>1. E = <<Comment>> \o r /\ r \in Seq(Char)
      BY CharAssumption, <2>1 DEF End
    <3>2. Comment \in Char /\ Comment \notin Chars(b)
      BY <1>2, CharAssumption, CharactersDiffer
    <3>3. line = b \o E
      BY DEF EmptyLine
    <3> HIDE DEF b, r, E
    <3>4. Place(b \o (<<Comment>> \o r), Comment) = Len(b) + 1
      BY <1>2, <3>1, <3>2, PlaceAfter
    <3>5. SubSeq(b \o E, 1, Len(b)) = b
      BY <1>2, <1>3, CutFront
    <3>6. Len(b) \in Nat /\ (Len(b) + 1) - 1 = Len(b) /\ Len(b) + 1 # 0
      BY <1>2
    <3>7. Place(line, Comment) = Len(b) + 1 /\ SubSeq(line, 1, Len(b)) = b
      BY <3>1, <3>3, <3>4, <3>5
    <3> HIDE DEF line
    <3>8. Uncommented(line) = b
      BY <3>6, <3>7 DEF Uncommented, Before
    <3>9. StrRTrim(b) = buf
      <4>1. CASE indent = 0
        <5>1. b = << >> /\ buf = << >>
          BY <1>4, <2>1, <4>1 DEF b, FewerBlanks
        <5> QED
          BY <5>1 DEF StrRTrim
      <4>2. CASE indent > 0
        <5>1. indent = k + 1
          BY <2>1, <4>2 DEF FewerBlanks
        <5>2. Blanks(1) = <<Blank>>
          BY DEF Blanks
        <5> HIDE DEF k
        <5>3. b = buf \o <<Blank>>
          BY <1>1, <5>1, <5>2, BlanksSplit DEF b
        <5> HIDE DEF buf
        <5> QED
          BY <1>2, <5>3, FrontOfOne
      <4> QED
        BY <4>1, <4>2
    <3> QED
      BY <3>8, <3>9
  <2>2. CASE ~comment
    <3>1. E = <<NewLine>> /\ k = indent
      BY <2>2 DEF End
    <3>2. Chars(E) = {NewLine}
      BY <3>1, CharAssumption, CharsOfOne
    <3>3. line = b \o E
      BY DEF EmptyLine
    <3> HIDE DEF b, E
    <3>4. Chars(b \o E) = Chars(b) \cup Chars(E)
      BY <1>2, <1>3, CharsJoin
    <3>5. Comment \notin Chars(line)
      BY <1>2, <3>2, <3>3, <3>4, CharactersDiffer
    <3>6. StrRTrim(b \o E) = b
      BY <1>2, <3>1, FrontOfOne
    <3> HIDE DEF line
    <3>7. Place(line, Comment) = 0
      BY <3>5, PlaceNone DEF Chars
    <3>8. Uncommented(line) = line
      BY <3>7 DEF Uncommented
    <3> QED
      BY <3>1, <3>3, <3>6, <3>8 DEF b
  <2> QED
    BY <2>1, <2>2
<1> HIDE DEF line, k
<1>6. ~(Place(buf, Opening) > 0)
  <2> HIDE DEF buf
  <2> QED
    BY <1>2, CharactersDiffer, PlaceInChars
<1>7. CASE k = 0
  <2>1. buf = << >>
    BY <1>4, <1>7
  <2> HIDE DEF buf
  <2>2. ParseLine(ini, line) = ini
    BY <1>5, <1>6, <2>1 DEF ParseLine
  <2> QED
    BY <1>1, <1>7, <2>2 DEF line
<1>8. CASE k > 0
  <2> HIDE DEF buf
  <2>1. buf # << >>
    BY <1>2, <1>8
  <2>3. Place(buf, Equals) = 0
    <3>1. Equals \notin Chars(buf)
      BY <1>2, CharactersDiffer
    <3> QED
      BY <3>1, PlaceNone DEF Chars
  <2>4. ParseLine(ini, line) = ParseValue(ini, buf)
    BY <1>5, <1>6, <2>1 DEF ParseLine
  <2>5. ParseValue(ini, buf) = Threw(ini)
    BY <2>3 DEF ParseValue
  <2> QED
    BY <1>1, <1>8, <2>4, <2>5 DEF line
<1> QED
  BY <1>1, <1>7, <1>8

-----------------------------------------------------------------------------
(* The sections of the file as they are meant *)

SectionNames == Names \cup {<<"default">>}

Pair == Seq(Char) \X Seq(Char)

SectionType == [name : SectionNames, values : Seq(Pair)]

MeantType == [name : SectionNames, settings : Seq(Settings)]

\* A section read has the values of the one that is meant, at their places, as
\* far as they are tidy
Agrees(section, opened) ==
    /\ section.name = opened.name
    /\ Len(section.values) = Len(opened.settings)
    /\ \A j \in DOMAIN opened.settings :
        Tidy(opened.settings[j]) =>
            section.values[j] = <<opened.settings[j].key, opened.settings[j].value>>

\* The sections read so far agree with those that are meant
ConfigInv ==
    /\ config \in [sections : Seq(SectionType), threw : BOOLEAN]
    /\ meant \in [sections : Seq(MeantType), blank : BOOLEAN]
    /\ config.threw = meant.blank
    /\ Len(config.sections) = Len(meant.sections) /\ Len(meant.sections) > 0
    /\ \A i \in DOMAIN meant.sections : Agrees(config.sections[i], meant.sections[i])

\* The file begins with an empty default section
LEMMA ConfigInvInit == ConfigInit => ConfigInv
BY DEF ConfigInit, ConfigInv, NoFile, SectionType, MeantType, SectionNames, Agrees

\* A new section, with nothing in it
LEMMA EmptyAgrees ==
    ASSUME NEW name \in Names
    PROVE  LET f == [name |-> name, values |-> << >>]
               m == [name |-> name, settings |-> << >>]
           IN  f \in SectionType /\ m \in MeantType /\ Agrees(f, m)
BY DEF SectionType, MeantType, SectionNames, Agrees

\* One more value in a section
LEMMA PairAgrees ==
    ASSUME NEW f \in SectionType, NEW m \in MeantType, Agrees(f, m),
           NEW v \in Pair, NEW s \in Settings, Tidy(s) => v = <<s.key, s.value>>
    PROVE  LET g == [f EXCEPT !.values = Append(@, v)]
               k == [m EXCEPT !.settings = Append(@, s)]
           IN  g \in SectionType /\ k \in MeantType /\ Agrees(g, k)
<1> DEFINE fv == f.values
           ms == m.settings
           gv == Append(fv, v)
           ks == Append(ms, s)
           g == [f EXCEPT !.values = Append(@, v)]
           k == [m EXCEPT !.settings = Append(@, s)]
<1>1. /\ fv \in Seq(Pair) /\ ms \in Seq(Settings)
      /\ f.name \in SectionNames /\ m.name \in SectionNames
  BY DEF SectionType, MeantType
<1>2. g = [name |-> f.name, values |-> gv] /\ k = [name |-> m.name, settings |-> ks]
  <2>1. \A x : [f EXCEPT !.values = x] = [name |-> f.name, values |-> x]
    BY DEF SectionType
  <2>2. \A x : [m EXCEPT !.settings = x] = [name |-> m.name, settings |-> x]
    BY DEF MeantType
  <2> QED
    BY <2>1, <2>2
<1>3. /\ f.name = m.name /\ Len(fv) = Len(ms)
      /\ \A j \in DOMAIN ms : Tidy(ms[j]) => fv[j] = <<ms[j].key, ms[j].value>>
  BY DEF Agrees
<1> HIDE DEF fv, ms, g, k
<1>4. /\ gv \in Seq(Pair) /\ Len(gv) = Len(fv) + 1 /\ gv[Len(fv) + 1] = v
      /\ \A j \in 1 .. Len(fv) : gv[j] = fv[j]
  BY <1>1, AppendProperties
<1>5. /\ ks \in Seq(Settings) /\ Len(ks) = Len(ms) + 1 /\ ks[Len(ms) + 1] = s
      /\ \A j \in 1 .. Len(ms) : ks[j] = ms[j]
  BY <1>1, AppendProperties
<1>6. Len(ms) \in Nat /\ DOMAIN ms = 1 .. Len(ms)
  BY <1>1
<1> HIDE DEF gv, ks
<1>7. DOMAIN ks = 1 .. Len(ms) + 1
  BY <1>5
<1>8. g \in SectionType /\ k \in MeantType
  BY <1>1, <1>2, <1>4, <1>5 DEF SectionType, MeantType
<1>9. ASSUME NEW j \in DOMAIN ks, Tidy(ks[j]) PROVE gv[j] = <<ks[j].key, ks[j].value>>
  <2>1. CASE j \in 1 .. Len(ms)
    BY <1>3, <1>4, <1>5, <1>6, <1>9, <2>1
  <2>2. CASE j = Len(ms) + 1
    BY <1>3, <1>4, <1>5, <1>9, <2>2
  <2> QED
    BY <1>6, <1>7, <2>1, <2>2
<1>10. /\ g.name = f.name /\ g.values = gv /\ k.name = m.name /\ k.settings = ks
  BY <1>2
<1>11. Agrees(g, k)
  BY <1>3, <1>4, <1>5, <1>9, <1>10 DEF Agrees
<1> QED
  BY <1>8, <1>11 DEF g, k

\* A line that opens a section keeps the invariant
LEMMA ReadSectionKeeps ==
    ASSUME ConfigInv, ReadSection
    PROVE  ConfigInv'
<1>1. PICK name \in Names :
        /\ Parse(SectionLine(name))
        /\ meant' = [meant EXCEPT !.sections = Append(@, [name |-> name, settings |-> << >>])]
  BY DEF ReadSection
<1> DEFINE F == config.sections
           M == meant.sections
           f == [name |-> name, values |-> << >>]
           m == [name |-> name, settings |-> << >>]
           G == Append(F, f)
           N == Append(M, m)
<1>2. config' = [config EXCEPT !.sections = G]
  BY <1>1, NamesAssumption, SectionParsed DEF Parse
<1>3. /\ F \in Seq(SectionType) /\ M \in Seq(MeantType)
      /\ Len(F) = Len(M) /\ config.threw \in BOOLEAN /\ meant.blank \in BOOLEAN
      /\ config.threw = meant.blank
      /\ \A i \in DOMAIN M : Agrees(F[i], M[i])
  BY DEF ConfigInv
<1>4. /\ config' = [sections |-> G, threw |-> config.threw]
      /\ meant' = [sections |-> N, blank |-> meant.blank]
  BY <1>1, <1>2 DEF ConfigInv
<1>5. f \in SectionType /\ m \in MeantType /\ Agrees(f, m)
  BY EmptyAgrees
<1> HIDE DEF F, M, f, m
<1>6. /\ G \in Seq(SectionType) /\ Len(G) = Len(F) + 1 /\ G[Len(F) + 1] = f
      /\ \A i \in 1 .. Len(F) : G[i] = F[i]
  BY <1>3, <1>5, AppendProperties
<1>7. /\ N \in Seq(MeantType) /\ Len(N) = Len(M) + 1 /\ N[Len(M) + 1] = m
      /\ \A i \in 1 .. Len(M) : N[i] = M[i]
  BY <1>3, <1>5, AppendProperties
<1>8. Len(M) \in Nat /\ DOMAIN M = 1 .. Len(M)
  BY <1>3
<1> HIDE DEF G, N
<1>9. ASSUME NEW i \in DOMAIN N PROVE Agrees(G[i], N[i])
  <2>1. i \in 1 .. Len(M) \/ i = Len(M) + 1
    BY <1>7, <1>8
  <2>2. CASE i \in 1 .. Len(M)
    BY <1>3, <1>6, <1>7, <1>8, <2>2
  <2>3. CASE i = Len(M) + 1
    BY <1>3, <1>5, <1>6, <1>7, <2>3
  <2> QED
    BY <2>1, <2>2, <2>3
<1> QED
  BY <1>3, <1>4, <1>6, <1>7, <1>8, <1>9 DEF ConfigInv

\* The line of a setting keeps the invariant
LEMMA ReadSettingKeeps ==
    ASSUME ConfigInv, ReadSetting
    PROVE  ConfigInv'
<1>1. PICK s \in Settings :
        /\ Parse(SettingLine(s))
        /\ meant' = [meant EXCEPT !.sections[Len(meant.sections)].settings = Append(@, s)]
  BY DEF ReadSetting
<1> DEFINE F == config.sections
           M == meant.sections
           n == Len(M)
           v == <<s.key \o Blanks(FewerBlanks(s.before)), s.value \o Blanks(FewerBlanks(Trailing(s)))>>
           f == F[n]
           m == M[n]
           g == [f EXCEPT !.values = Append(@, v)]
           k == [m EXCEPT !.settings = Append(@, s)]
           G == [F EXCEPT ![n] = g]
           N == [M EXCEPT ![n] = k]
<1>2. Settable(s)
  BY SettingsAssumption
<1>3. /\ F \in Seq(SectionType) /\ M \in Seq(MeantType)
      /\ Len(F) = n /\ n \in Nat /\ n > 0 /\ config.threw \in BOOLEAN /\ meant.blank \in BOOLEAN
      /\ config.threw = meant.blank
      /\ \A i \in DOMAIN M : Agrees(F[i], M[i])
  BY DEF ConfigInv
<1>4. config' = [config EXCEPT !.sections[n].values = Append(@, v)]
  BY <1>1, <1>2, <1>3, SettingParsed DEF Parse
<1>5. v \in Pair /\ (Tidy(s) => v = <<s.key, s.value>>)
  <2>1. s.key \in Seq(Char) /\ s.value \in Seq(Char) /\ s.before \in Nat /\ Trailing(s) \in Nat
    BY <1>2 DEF Settable, SettingType, Trailing, FewerBlanks
  <2>2. \A x \in Nat : Blanks(FewerBlanks(x)) \in Seq(Char)
    BY BlanksProperties DEF FewerBlanks
  <2>3. v \in Pair
    BY <2>1, <2>2, CharsJoin DEF Pair
  <2> QED
    BY <1>2, <2>3, TidyParsed
<1> HIDE DEF v
<1>6. /\ config' = [sections |-> G, threw |-> config.threw]
      /\ meant' = [sections |-> N, blank |-> meant.blank]
  BY <1>1, <1>4 DEF ConfigInv
<1> HIDE DEF F, M
<1>7. /\ n \in 1 .. Len(M) /\ n \in 1 .. Len(F) /\ DOMAIN M = 1 .. n
  BY <1>3
<1>8. f \in SectionType /\ m \in MeantType /\ Agrees(f, m)
  BY <1>3, <1>7
<1> HIDE DEF f, m
<1>9. g \in SectionType /\ k \in MeantType /\ Agrees(g, k)
  BY <1>5, <1>8, PairAgrees
<1> HIDE DEF g, k
<1>10. /\ G \in Seq(SectionType) /\ Len(G) = Len(F)
       /\ \A i \in 1 .. Len(F) : G[i] = IF i = n THEN g ELSE F[i]
  BY <1>3, <1>7, <1>9, ExceptSeq
<1>11. /\ N \in Seq(MeantType) /\ Len(N) = Len(M)
       /\ \A i \in 1 .. Len(M) : N[i] = IF i = n THEN k ELSE M[i]
  BY <1>3, <1>7, <1>9, ExceptSeq
<1> HIDE DEF G, N
<1>12. DOMAIN N = DOMAIN M
  BY <1>3, <1>11
<1>13. ASSUME NEW i \in DOMAIN N PROVE Agrees(G[i], N[i])
  <2>1. i \in 1 .. Len(F) /\ i \in 1 .. Len(M) /\ i \in DOMAIN M
    BY <1>3, <1>7, <1>12
  <2>2. CASE i = n
    BY <1>9, <1>10, <1>11, <2>1, <2>2
  <2>3. CASE i # n
    BY <1>3, <1>10, <1>11, <2>1, <2>3
  <2> QED
    BY <2>2, <2>3
<1> QED
  BY <1>3, <1>6, <1>10, <1>11, <1>13 DEF ConfigInv

\* A line without anything keeps the invariant
LEMMA ReadEmptyKeeps ==
    ASSUME ConfigInv, ReadEmpty
    PROVE  ConfigInv'
<1>1. PICK indent \in 0 .. 2, comment \in BOOLEAN :
        /\ Parse(EmptyLine(indent, comment))
        /\ meant' = [meant EXCEPT !.blank = indent > (IF comment THEN 1 ELSE 0)]
  BY DEF ReadEmpty
<1> DEFINE blank == indent > (IF comment THEN 1 ELSE 0)
<1>2. config' = (IF blank THEN Threw(config) ELSE config) /\ ~config.threw
  BY <1>1, EmptyParsed DEF Parse
<1>3. meant' = [meant EXCEPT !.blank = blank] /\ blank \in BOOLEAN
  BY <1>1
<1> HIDE DEF blank
<1>4. config.sections' = config.sections /\ meant.sections' = meant.sections
  BY <1>2, <1>3 DEF Threw, ConfigInv
<1>5. CASE blank
  <2>1. /\ config' = [sections |-> config.sections, threw |-> TRUE]
        /\ meant' = [sections |-> meant.sections, blank |-> TRUE]
    BY <1>2, <1>3, <1>5 DEF Threw, ConfigInv
  <2> QED
    BY <1>4, <2>1 DEF ConfigInv
<1>6. CASE ~blank
  <2>1. /\ config' = config
        /\ meant' = [sections |-> meant.sections, blank |-> FALSE]
    BY <1>2, <1>3, <1>6 DEF ConfigInv
  <2> QED
    BY <1>2, <1>4, <2>1 DEF ConfigInv
<1> QED
  BY <1>5, <1>6

\* Every line keeps the invariant
LEMMA ConfigInvStep == ConfigInv /\ [ConfigNext]_configVars => ConfigInv'
<1> SUFFICES ASSUME ConfigInv, [ConfigNext]_configVars PROVE ConfigInv'
  OBVIOUS
<1>1. CASE ReadSection
  BY <1>1, ReadSectionKeeps
<1>2. CASE ReadSetting
  BY <1>2, ReadSettingKeeps
<1>3. CASE ReadEmpty
  BY <1>3, ReadEmptyKeeps
<1>4. CASE UNCHANGED configVars
  BY <1>4 DEF ConfigInv, configVars
<1> QED
  BY <1>1, <1>2, <1>3, <1>4 DEF ConfigNext

\* What agrees with the meaning is found by its key
LEMMA ConfigInvFinds == ConfigInv => SettingsFound
<1> SUFFICES ASSUME ConfigInv PROVE SettingsFound
  OBVIOUS
<1> SUFFICES ASSUME NEW i \in DOMAIN meant.sections,
                    NEW j \in DOMAIN meant.sections[i].settings,
                    Tidy(meant.sections[i].settings[j]),
                    \A k \in 1 .. j - 1 :
                        /\ Tidy(meant.sections[i].settings[k])
                        /\ meant.sections[i].settings[k].key # meant.sections[i].settings[j].key
             PROVE  LookupString(config.sections[i], meant.sections[i].settings[j].key, << >>)
                        = meant.sections[i].settings[j].value
  BY DEF ConfigInv, SettingsFound, Agrees
<1> DEFINE values == config.sections[i].values
           settings == meant.sections[i].settings
           key == settings[j].key
           at == {x \in DOMAIN values : values[x][1] = key}
<1>1. /\ settings \in Seq(Settings) /\ values \in Seq(Seq(Char) \X Seq(Char))
      /\ Len(values) = Len(settings) /\ Len(settings) \in Nat
      /\ \A x \in DOMAIN settings :
            Tidy(settings[x]) => values[x] = <<settings[x].key, settings[x].value>>
  <2>1. /\ meant.sections \in Seq(MeantType)
        /\ config.sections \in Seq(SectionType) /\ Len(config.sections) = Len(meant.sections)
    BY DEF ConfigInv
  <2>2. i \in 1 .. Len(meant.sections) /\ i \in 1 .. Len(config.sections)
    BY <2>1
  <2>3. meant.sections[i] \in MeantType
    BY <2>1, <2>2
  <2>4. config.sections[i] \in SectionType
    BY <2>1, <2>2
  <2> QED
    BY <2>3, <2>4 DEF ConfigInv, Agrees, SectionType, MeantType, Pair
<1>2. DOMAIN values = 1 .. Len(settings) /\ DOMAIN settings = 1 .. Len(settings)
  BY <1>1
<1>3. LookupString(config.sections[i], key, << >>) = IF at = {} THEN << >> ELSE values[Min(at)][2]
  BY Zenon DEF LookupString
<1> HIDE DEF values, settings
<1>4. j \in at /\ values[j][2] = settings[j].value
  BY <1>1, <1>2 DEF settings
<1>5. ASSUME NEW x \in at PROVE j <= x
  <2> SUFFICES ASSUME x < j PROVE FALSE
    BY <1>1, <1>2, <1>4
  <2>1. x \in 1 .. j - 1 /\ x \in DOMAIN settings
    BY <1>1, <1>2, <1>4
  <2>2. Tidy(settings[x]) /\ settings[x].key # key
    BY <2>1 DEF settings
  <2> QED
    BY <1>1, <2>1, <2>2
<1>6. at \subseteq Int
  BY <1>1, <1>2
<1> HIDE DEF at
<1>7. Min(at) = j
  BY <1>4, <1>5, <1>6, MinIs
<1> QED
  BY <1>3, <1>4, <1>7 DEF settings

\* A tidy setting is found in its section with the value the user wrote, if no
\* setting of its key comes before it, and the file is refused for nothing but a line
\* of blanks (SdsConfigFile::parse, lookupString, StringUtil's trims).
THEOREM SettingsFoundCorrectness == ConfigSpec => []SettingsFound
<1>1. ConfigInit => ConfigInv
  BY ConfigInvInit
<1>2. ConfigInv /\ [ConfigNext]_configVars => ConfigInv'
  BY ConfigInvStep
<1>3. ConfigInv => SettingsFound
  BY ConfigInvFinds
<1> QED
  BY <1>1, <1>2, <1>3, PTL DEF ConfigSpec

-----------------------------------------------------------------------------
(* Messages: recursion over numbers *)

\* Counting up from nought
LEMMA Counting ==
    ASSUME NEW n \in Nat, NEW T, 0 \in T, \A i \in 1 .. n : i - 1 \in T => i \in T
    PROVE  \A i \in 0 .. n : i \in T
<1> DEFINE bad == {i \in 0 .. n : i \notin T}
<1> SUFFICES ASSUME bad # {} PROVE FALSE
  BY Zenon
<1>1. PICK b \in bad : \A u \in bad : b <= u
  <2>1. bad \subseteq Nat
    OBVIOUS
  <2> HIDE DEF bad
  <2> QED
    BY <2>1, LeastElement, Zenon
<1>2. b \in 1 .. n /\ b - 1 \in 0 .. n /\ b - 1 \notin bad
  BY <1>1
<1> QED
  BY <1>2

\* A function of the numbers to n that begins with x and goes on by D
Solution(f, n, x, D) == f[0] = x /\ \A i \in 1 .. n : f[i] = D[<<i, f[i - 1]>>]

\* Two functions of the numbers that begin alike and go on alike
Alike(f, g, n) == f[0] = g[0] /\ \A i \in 1 .. n : f[i - 1] = g[i - 1] => f[i] = g[i]

\* A recursion over numbers has a solution
LEMMA Iterates ==
    ASSUME NEW S, NEW x \in S, NEW n \in Nat, NEW D \in [(1 .. n) \X S -> S]
    PROVE  \E f \in [0 .. n -> S] : Solution(f, n, x, D)
<1> DEFINE Solves(f, k) == f[0] = x /\ \A i \in 1 .. k : f[i] = D[<<i, f[i - 1]>>]
           T == {k \in 0 .. n : \E f \in [0 .. k -> S] : Solves(f, k)}
<1>1. 0 \in T
  <2> DEFINE g == [i \in 0 .. 0 |-> x]
  <2>1. g \in [0 .. 0 -> S]
    OBVIOUS
  <2>2. Solves(g, 0) /\ 0 \in 0 .. n
    OBVIOUS
  <2> HIDE DEF g, Solves
  <2> QED
    BY <2>1, <2>2, Zenon
<1>2. ASSUME NEW k \in 1 .. n, k - 1 \in T PROVE k \in T
  <2>1. PICK f \in [0 .. k - 1 -> S] : Solves(f, k - 1)
    BY <1>2
  <2> DEFINE y == D[<<k, f[k - 1]>>]
             g == [i \in 0 .. k |-> IF i = k THEN y ELSE f[i]]
  <2>2. f[k - 1] \in S /\ y \in S
    OBVIOUS
  <2>3. g \in [0 .. k -> S]
    BY <2>2
  <2>4. g[0] = x
    BY <2>1
  <2>5. ASSUME NEW i \in 1 .. k PROVE g[i] = D[<<i, g[i - 1]>>]
    <3>1. CASE i = k
      <4>1. g[i] = y /\ g[i - 1] = f[k - 1]
        BY <3>1
      <4> QED
        BY <3>1, <4>1
    <3>2. CASE i # k
      <4>1. i \in 1 .. k - 1 /\ g[i] = f[i] /\ g[i - 1] = f[i - 1]
        BY <3>2
      <4> QED
        BY <2>1, <4>1
    <3> QED
      BY <3>1, <3>2
  <2>6. Solves(g, k)
    <3> HIDE DEF g
    <3> QED
      BY <2>4, <2>5, Zenon
  <2>7. k \in 0 .. n
    OBVIOUS
  <2> HIDE DEF g, Solves
  <2> QED
    BY <2>3, <2>6, <2>7, Zenon
<1> HIDE DEF T
<1>3. \A i \in 0 .. n : i \in T
  BY <1>1, <1>2, Counting
<1> QED
  BY <1>3 DEF T, Solution

\* and no other
LEMMA OneSolution ==
    ASSUME NEW n \in Nat, NEW f, NEW g, Alike(f, g, n)
    PROVE  \A i \in 0 .. n : f[i] = g[i]
<1> DEFINE T == {i \in 0 .. n : f[i] = g[i]}
<1>1. 0 \in T
  BY DEF Alike
<1>2. ASSUME NEW i \in 1 .. n, i - 1 \in T PROVE i \in T
  BY <1>2 DEF Alike
<1> HIDE DEF T
<1>3. \A i \in 0 .. n : i \in T
  BY <1>1, <1>2, Counting
<1> QED
  BY <1>3 DEF T

-----------------------------------------------------------------------------
(* Numbers *)

\* A function that divides step by step is the number without its last bytes
LEMMA ShiftedIs ==
    ASSUME NEW n \in Nat, NEW k \in Nat, NEW f \in [0 .. k -> Nat], f[0] = n,
           \A i \in 1 .. k : f[i] = f[i - 1] \div Radix
    PROVE  Shifted(n, k) = f[k]
<1> DEFINE Solves(g) == g = [i \in 0 .. k |-> IF i = 0 THEN n ELSE g[i - 1] \div Radix]
           rest == CHOOSE g : Solves(g)
<1>1. Solves(f)
  OBVIOUS
<1>2. Solves(rest)
  BY <1>1, Zenon
<1>3. Shifted(n, k) = rest[k]
  BY Zenon DEF Shifted
<1> HIDE DEF rest
<1>4. rest[0] = n /\ \A i \in 1 .. k : rest[i] = rest[i - 1] \div Radix
  BY <1>2
<1>5. Alike(rest, f, k)
  BY <1>4 DEF Alike
<1>6. \A i \in 0 .. k : rest[i] = f[i]
  BY <1>5, OneSolution
<1> QED
  BY <1>3, <1>6

\* One more byte is taken off by one more division
LEMMA ShiftedStep ==
    ASSUME NEW n \in Nat
    PROVE  /\ Shifted(n, 0) = n
           /\ \A k \in Nat : Shifted(n, k) \in Nat /\ Shifted(n, k + 1) = Shifted(n, k) \div Radix
<1>1. ASSUME NEW k \in Nat
      PROVE  /\ Shifted(n, k) \in Nat /\ Shifted(n, k + 1) = Shifted(n, k) \div Radix
             /\ Shifted(n, 0) = n
  <2> DEFINE D == [p \in (1 .. k + 1) \X Nat |-> p[2] \div Radix]
  <2>1. D \in [(1 .. k + 1) \X Nat -> Nat]
    BY RadixAssumption
  <2>2. PICK f \in [0 .. k + 1 -> Nat] :
            Solution(f, k + 1, n, D)
    <3> HIDE DEF D
    <3>1. k + 1 \in Nat
      OBVIOUS
    <3> QED
      BY <2>1, <3>1, Iterates
  <2>3. ASSUME NEW i \in 1 .. k + 1 PROVE f[i] = f[i - 1] \div Radix
    <3>1. f[i - 1] \in Nat
      OBVIOUS
    <3> QED
      BY <2>2, <3>1 DEF Solution
  <2>6. f[0] = n
    BY <2>2 DEF Solution
  <2> HIDE DEF D
  <2>4. ASSUME NEW m \in 0 .. k + 1 PROVE Shifted(n, m) = f[m]
    <3> DEFINE g == [i \in 0 .. m |-> f[i]]
    <3>1. /\ g \in [0 .. m -> Nat] /\ g[0] = n /\ g[m] = f[m]
          /\ \A i \in 1 .. m : g[i] = g[i - 1] \div Radix
      BY <2>3, <2>6
    <3>2. m \in Nat
      OBVIOUS
    <3> HIDE DEF g
    <3>3. Shifted(n, m) = g[m]
      BY <3>1, <3>2, ShiftedIs, Zenon
    <3> QED
      BY <3>1, <3>3
  <2>5. f[k] \in Nat /\ f[k + 1] = f[k] \div Radix
    BY <2>3
  <2> QED
    BY <2>4, <2>5, <2>6
<1> QED
  BY <1>1

-----------------------------------------------------------------------------
(* A reader moving over bytes that lie in its buffer *)

Got == Nat \cup Seq(Byte)

Readers == [bytes : Seq(Byte), pos : Nat, got : Seq(Got)]

\* The bytes after the cursor
Ahead(r, w) ==
    r.pos + Len(w) <= Len(r.bytes) /\ \A i \in 1 .. Len(w) : r.bytes[r.pos + i] = w[i]

Advance(r, w, values) == [bytes |-> r.bytes, pos |-> r.pos + Len(w), got |-> r.got \o values]

\* The parts of a reader
LEMMA ReaderParts ==
    ASSUME NEW r \in Readers
    PROVE  /\ r.bytes \in Seq(Byte) /\ r.pos \in Nat /\ r.got \in Seq(Got)
           /\ Len(r.bytes) \in Nat
           /\ r = [bytes |-> r.bytes, pos |-> r.pos, got |-> r.got]
BY DEF Readers

\* Values read join in any order of the joins
LEMMA GotAssociates ==
    \A a, b, c \in Seq(Got) : (a \o b) \o c = a \o (b \o c)
<1> SUFFICES ASSUME NEW a \in Seq(Got), NEW b \in Seq(Got), NEW c \in Seq(Got)
             PROVE  (a \o b) \o c = a \o (b \o c)
  OBVIOUS
<1> QED
  BY ConcatAssociative

\* A reader that moves on is a reader
LEMMA AdvanceReads ==
    ASSUME NEW r \in Readers, NEW w \in Seq(Byte), NEW v \in Seq(Got)
    PROVE  Advance(r, w, v) \in Readers
<1>1. r.bytes \in Seq(Byte) /\ r.pos \in Nat /\ r.got \in Seq(Got) /\ Len(w) \in Nat
  BY ReaderParts
<1>2. r.got \o v \in Seq(Got) /\ r.pos + Len(w) \in Nat
  BY <1>1, ConcatProperties
<1> QED
  BY <1>1, <1>2 DEF Advance, Readers

\* To move on twice is to move on once over both parts
LEMMA AdvanceTwice ==
    ASSUME NEW r \in Readers, NEW w \in Seq(Byte), NEW v \in Seq(Got),
           NEW u \in Seq(Byte), NEW x \in Seq(Got)
    PROVE  Advance(Advance(r, w, v), u, x) = Advance(r, w \o u, v \o x)
<1>1. r.bytes \in Seq(Byte) /\ r.pos \in Nat /\ r.got \in Seq(Got) /\ Len(w) \in Nat /\ Len(u) \in Nat
  BY ReaderParts
<1>2. (r.got \o v) \o x = r.got \o (v \o x)
  BY <1>1, GotAssociates
<1>3. (r.pos + Len(w)) + Len(u) = r.pos + Len(w \o u)
  BY <1>1, ConcatProperties
<1> QED
  BY <1>2, <1>3 DEF Advance

\* Of two parts ahead the first is ahead, and the second after it
LEMMA AheadSplits ==
    ASSUME NEW r \in Readers, NEW w \in Seq(Byte), NEW u \in Seq(Byte), NEW v,
           Ahead(r, w \o u)
    PROVE  Ahead(r, w) /\ Ahead(Advance(r, w, v), u)
<1> DEFINE c == w \o u
           q == Advance(r, w, v)
<1>1. r.bytes \in Seq(Byte) /\ r.pos \in Nat /\ Len(w) \in Nat /\ Len(u) \in Nat /\ Len(r.bytes) \in Nat
  BY ReaderParts
<1>2. /\ Len(c) = Len(w) + Len(u)
      /\ \A i \in 1 .. Len(w) : c[i] = w[i]
      /\ \A i \in 1 .. Len(u) : c[Len(w) + i] = u[i]
  BY Joined
<1>3. q.bytes = r.bytes /\ q.pos = r.pos + Len(w)
  BY DEF Advance
<1> HIDE DEF c, q
<1>4. /\ r.pos + Len(c) <= Len(r.bytes)
      /\ \A i \in 1 .. Len(c) : r.bytes[r.pos + i] = c[i]
  BY DEF Ahead, c
<1>5. Ahead(r, w)
  BY <1>1, <1>2, <1>4 DEF Ahead
<1>6. ASSUME NEW i \in 1 .. Len(u) PROVE q.bytes[q.pos + i] = u[i]
  <2>1. Len(w) + i \in 1 .. Len(c) /\ r.pos + (Len(w) + i) = q.pos + i
    BY <1>1, <1>2, <1>3
  <2> QED
    BY <1>2, <1>3, <1>4, <2>1
<1>7. q.pos + Len(u) <= Len(q.bytes)
  BY <1>1, <1>2, <1>3, <1>4
<1> QED
  BY <1>5, <1>6, <1>7 DEF Ahead, q

-----------------------------------------------------------------------------
(* Numbers and strings *)

\* A number is written as bytes, as many as its width
LEMMA UintBytes ==
    ASSUME NEW n \in Nat, NEW width \in Nat
    PROVE  Uint(n, width) \in Seq(Byte) /\ Len(Uint(n, width)) = width
<1>1. \A i \in 1 .. width : Shifted(n, i - 1) % Radix \in Byte
  <2> SUFFICES ASSUME NEW i \in 1 .. width PROVE Shifted(n, i - 1) % Radix \in Byte
    OBVIOUS
  <2>1. i - 1 \in Nat
    OBVIOUS
  <2>2. Shifted(n, i - 1) \in Nat
    BY <2>1, ShiftedStep
  <2> QED
    BY <2>2, RadixAssumption DEF Byte
<1> QED
  BY <1>1 DEF Uint

\* A number is read as it was written
LEMMA ReadsUint ==
    ASSUME NEW r \in Readers, NEW width \in Nat, NEW n, Fits(n, width),
           Ahead(r, Uint(n, width))
    PROVE  ReadUint(r, width) = Advance(r, Uint(n, width), <<n>>)
<1> DEFINE w == Uint(n, width)
           Solves(g) == g = [i \in 0 .. width |->
                IF i = 0 THEN 0 ELSE r.bytes[r.pos + width + 1 - i] + Radix * g[i - 1]]
           top == CHOOSE g : Solves(g)
           f == [i \in 0 .. width |-> Shifted(n, width - i)]
<1>1. n \in Nat /\ Shifted(n, width) = 0 /\ Len(w) = width
  BY UintBytes DEF Fits
<1>2. r.pos \in Nat /\ Len(r.bytes) \in Nat
  BY ReaderParts
<1>3. /\ r.pos + width <= Len(r.bytes)
      /\ \A i \in 1 .. width : r.bytes[r.pos + i] = w[i]
  BY <1>1 DEF Ahead
<1>4. \A i \in 1 .. width : w[i] = Shifted(n, i - 1) % Radix
  BY DEF Uint
<1> HIDE DEF w
<1>5. ASSUME NEW i \in 1 .. width
      PROVE  Shifted(n, width - i) = r.bytes[r.pos + width + 1 - i] + Radix * Shifted(n, width - (i - 1))
  <2> DEFINE k == width - i
             s == Shifted(n, k)
  <2>1. k \in Nat /\ k + 1 \in 1 .. width /\ width - (i - 1) = k + 1
        /\ r.pos + width + 1 - i = r.pos + (k + 1) /\ (k + 1) - 1 = k
    BY <1>2
  <2>2. s \in Nat /\ Shifted(n, k + 1) = s \div Radix
    BY <1>1, <2>1, ShiftedStep
  <2>3. r.bytes[r.pos + (k + 1)] = s % Radix
    BY <1>3, <1>4, <2>1
  <2> HIDE DEF s
  <2>4. s = (s % Radix) + Radix * (s \div Radix)
    BY <2>2, RadixAssumption
  <2> QED
    BY <2>1, <2>2, <2>3, <2>4 DEF s
<1>6. Solves(f)
  BY <1>1, <1>5
<1>7. Solves(top)
  BY <1>6, Zenon
<1>8. Number(r, width) = top[width]
  BY Zenon DEF Number
<1> HIDE DEF top
<1>9. Alike(top, f, width)
  <2>1. top[0] = 0 /\ f[0] = 0
    BY <1>1, <1>7
  <2>2. ASSUME NEW i \in 1 .. width, top[i - 1] = f[i - 1] PROVE top[i] = f[i]
    <3>1. /\ top[i] = r.bytes[r.pos + width + 1 - i] + Radix * top[i - 1]
          /\ f[i] = r.bytes[r.pos + width + 1 - i] + Radix * f[i - 1]
      BY <1>5, <1>7
    <3> QED
      BY <2>2, <3>1
  <2> QED
    BY <2>1, <2>2 DEF Alike
<1>10. top[width] = f[width] /\ f[width] = Shifted(n, 0)
  <2>1. f[width] = Shifted(n, 0)
    OBVIOUS
  <2> HIDE DEF f
  <2>2. \A i \in 0 .. width : top[i] = f[i]
    BY <1>9, OneSolution
  <2> QED
    BY <2>1, <2>2
<1>11. Number(r, width) = n
  BY <1>1, <1>8, <1>10, ShiftedStep
<1>12. ~Astray(r) /\ ~(Left(r) < width)
  BY <1>2, <1>3 DEF Astray, Left
<1>13. ReadUint(r, width) = Take(r, width, n)
  BY <1>11, <1>12 DEF ReadUint
<1>14. Take(r, width, n) = [bytes |-> r.bytes, pos |-> r.pos + width, got |-> Append(r.got, n)]
  BY Zenon DEF Take
<1>15. Append(r.got, n) = r.got \o <<n>>
  <2>1. r.got \in Seq(Got) /\ n \in Got
    BY <1>1, ReaderParts DEF Got
  <2> QED
    BY <2>1, AppendIsConcat
<1> QED
  BY <1>1, <1>13, <1>14, <1>15 DEF Advance, w

\* The bytes that lie in a buffer are cut out of it
LEMMA BytesCut ==
    \A s, b \in Seq(Byte), m \in Nat :
        m + Len(b) <= Len(s) /\ (\A i \in 1 .. Len(b) : s[m + i] = b[i])
            => SubSeq(s, m + 1, m + Len(b)) = b
<1> TAKE s, b \in Seq(Byte), m \in Nat
<1> HAVE m + Len(b) <= Len(s) /\ (\A i \in 1 .. Len(b) : s[m + i] = b[i])
<1> QED
  BY Cut

\* A string is read up to its zero byte, if it is not empty
LEMMA ReadsString ==
    ASSUME NEW r \in Readers, NEW t \in Text, Ahead(r, String(t))
    PROVE  ReadString(r) = Advance(r, String(t), <<t>>)
<1> DEFINE w == String(t)
           n == Len(t)
           ends == {len \in 1 .. (Left(r) - 1) : r.bytes[r.pos + len + 1] = NUL}
<1>1. t \in Seq(Letter) /\ t # << >> /\ n \in Nat /\ n > 0
  BY DEF Text, AnyText
<1>2. /\ Len(w) = n + 1 /\ w[n + 1] = NUL
      /\ \A i \in 1 .. n : w[i] = t[i] /\ w[i] # NUL
  <2>1. \A i \in 1 .. n : t[i] \in Letter
    BY <1>1
  <2>2. \A x \in Letter : x \in Byte /\ x # NUL
    BY RadixAssumption DEF NUL, Letter, Byte
  <2>3. t \in Seq(Byte) /\ NUL \in Byte
    BY <1>1, <2>2, RadixAssumption DEF NUL, Byte
  <2> HIDE DEF n
  <2>4. /\ Len(w) = n + 1 /\ w[n + 1] = NUL
        /\ \A i \in 1 .. n : w[i] = t[i]
    BY <2>3, AppendProperties DEF String, n
  <2> QED
    BY <2>1, <2>2, <2>4
<1>3. r.bytes \in Seq(Byte) /\ r.pos \in Nat /\ r.got \in Seq(Got) /\ Len(r.bytes) \in Nat
  BY ReaderParts
<1> HIDE DEF w, n
<1>4. /\ r.pos + (n + 1) <= Len(r.bytes)
      /\ \A i \in 1 .. n + 1 : r.bytes[r.pos + i] = w[i]
  BY <1>2 DEF Ahead, w
<1>5. n \in ends
  <2>1. r.pos + n + 1 = r.pos + (n + 1) /\ n + 1 \in 1 .. n + 1
    BY <1>1, <1>3
  <2>2. n \in 1 .. Left(r) - 1
    BY <1>1, <1>3, <1>4 DEF Left
  <2> QED
    BY <1>2, <1>4, <2>1, <2>2
<1>6. ASSUME NEW l \in ends PROVE n <= l
  <2>0. Left(r) \in Int
    BY <1>3 DEF Left
  <2>3. l \in Nat /\ l > 0
    BY <2>0
  <2> SUFFICES ASSUME l < n PROVE FALSE
    BY <1>1, <2>3
  <2> DEFINE p == r.pos
  <2> HIDE DEF ends
  <2>1. l \in Nat /\ l + 1 \in 1 .. n /\ r.pos + l + 1 = r.pos + (l + 1)
    <3>1. l \in Nat /\ l + 1 \in 1 .. n
      BY <1>1, <2>3
    <3>2. p \in Nat
      BY <1>3
    <3> HIDE DEF p
    <3>3. p + l + 1 = p + (l + 1)
      BY <3>1, <3>2
    <3> QED
      BY <3>1, <3>3 DEF p
  <2>2. r.bytes[r.pos + (l + 1)] = w[l + 1] /\ w[l + 1] # NUL
    BY <1>1, <1>2, <1>4, <2>1
  <2> QED
    BY <2>1, <2>2 DEF ends
<1>7. \A l \in ends : l \in Int
  BY <1>3 DEF Left
<1>8. StringLength(r) = IF ends = {} THEN Left(r) ELSE CHOOSE len \in ends : \A l \in ends : len <= l
  BY Zenon DEF StringLength
<1> HIDE DEF ends
<1>9. StringLength(r) = n
  <2> DEFINE c == CHOOSE len \in ends : \A l \in ends : len <= l
  <2>1. c \in ends /\ \A l \in ends : c <= l
    BY <1>5, <1>6
  <2> HIDE DEF c
  <2>2. c = n
    BY <1>1, <1>5, <1>6, <1>7, <2>1
  <2> QED
    BY <1>5, <1>8, <2>2 DEF c
<1>10. ~Astray(r)
  BY <1>1, <1>3, <1>4 DEF Astray
<1>11. SubSeq(r.bytes, r.pos + 1, r.pos + n) = t
  <2>1. t \in Seq(Byte)
    BY <1>1, RadixAssumption DEF Byte, Letter
  <2>2. Len(t) = n /\ r.pos + Len(t) <= Len(r.bytes)
    BY <1>1, <1>3, <1>4 DEF n
  <2>3. \A i \in 1 .. Len(t) : r.bytes[r.pos + i] = t[i]
    BY <1>1, <1>2, <1>4, <2>2
  <2> QED
    BY <1>3, <2>1, <2>2, <2>3, BytesCut
<1>12. ReadString(r) = Take(r, n + 1, t)
  BY <1>9, <1>10, <1>11 DEF ReadString
<1>13. Take(r, n + 1, t) = [bytes |-> r.bytes, pos |-> r.pos + (n + 1), got |-> Append(r.got, t)]
  BY Zenon DEF Take
<1>14. Append(r.got, t) = r.got \o <<t>>
  <2>1. t \in Got
    BY <1>1, RadixAssumption DEF Got, Byte, Letter
  <2> QED
    BY <1>3, <2>1, AppendIsConcat
<1> QED
  BY <1>2, <1>12, <1>13, <1>14 DEF Advance, w

-----------------------------------------------------------------------------
(* Sequences of sequences *)

\* The sequences of a list one after the other, up to each of them
Joins(f, s, n) == f[0] = << >> /\ \A i \in 1 .. n : f[i] = f[i - 1] \o s[i]

\* A flattened list is its elements joined one after another
LEMMA FlattenJoins ==
    ASSUME NEW S, NEW s \in Seq(Seq(S))
    PROVE  \E f \in [0 .. Len(s) -> Seq(S)] : Joins(f, s, Len(s)) /\ FlattenSeq(s) = f[Len(s)]
<1> DEFINE n == Len(s)
           D == [p \in (1 .. n) \X Seq(S) |-> p[2] \o s[p[1]]]
<1>1. n \in Nat /\ \A i \in 1 .. n : s[i] \in Seq(S)
  OBVIOUS
<1>2. D \in [(1 .. n) \X Seq(S) -> Seq(S)]
  BY <1>1, ConcatProperties
<1>3. << >> \in Seq(S)
  OBVIOUS
<1> HIDE DEF n
<1>4. PICK f \in [0 .. n -> Seq(S)] : Solution(f, n, << >>, D)
  <2> HIDE DEF D
  <2> QED
    BY <1>1, <1>2, <1>3, Iterates
<1>5. \A i \in 1 .. n : f[i - 1] \in Seq(S)
  BY <1>1
<1>6. Joins(f, s, n)
  BY <1>1, <1>4, <1>5 DEF Solution, Joins
<1> HIDE DEF D
<1>7. CASE n = 0
  <2>1. s = << >> /\ FlattenSeq(s) = s /\ f[n] = << >>
    BY <1>6, <1>7 DEF n, FlattenSeq, Joins
  <2> QED
    BY <1>6, <2>1 DEF n
<1>8. CASE n # 0
  <2> DEFINE Solves(g) == g = [i \in 1 .. n |-> IF i = 1 THEN s[i] ELSE g[i - 1] \o s[i]]
             flatten == CHOOSE g : Solves(g)
             h == [i \in 1 .. n |-> f[i]]
             g == [i \in 0 .. n |-> IF i = 0 THEN << >> ELSE flatten[i]]
  <2>1. f[0] = << >> /\ \A i \in 1 .. n : f[i] = f[i - 1] \o s[i]
    BY <1>6 DEF Joins
  <2>2. 1 \in 1 .. n /\ f[1] = s[1]
    <3>1. 1 \in 1 .. n /\ 1 - 1 = 0
      BY <1>1, <1>8
    <3>2. s[1] \in Seq(S)
      BY <1>1, <3>1
    <3>3. f[1] = f[1 - 1] \o s[1]
      BY <2>1, <3>1
    <3>4. f[1] = << >> \o s[1]
      BY <2>1, <3>1, <3>3
    <3> QED
      BY <3>1, <3>2, <3>4, ConcatEmptySeq
  <2>3. Solves(h)
    <3>1. ASSUME NEW i \in 1 .. n PROVE h[i] = IF i = 1 THEN s[i] ELSE h[i - 1] \o s[i]
      <4>1. CASE i = 1
        BY <2>2, <4>1
      <4>2. CASE i # 1
        <5>1. i - 1 \in 1 .. n
          BY <1>1, <4>2
        <5>2. h[i] = f[i] /\ h[i - 1] = f[i - 1]
          BY <5>1
        <5>3. f[i] = f[i - 1] \o s[i]
          BY <2>1
        <5> QED
          BY <4>2, <5>2, <5>3
      <4> QED
        BY <4>1, <4>2
    <3> QED
      BY <3>1
  <2>4. Solves(flatten)
    BY <2>3, Zenon
  <2>5. FlattenSeq(s) = flatten[n]
    BY <1>8, Zenon DEF FlattenSeq, n
  <2> HIDE DEF flatten
  <2>6. Alike(f, g, n)
    <3>1. f[0] = g[0]
      BY <1>1, <2>1
    <3>2. ASSUME NEW i \in 1 .. n, f[i - 1] = g[i - 1] PROVE f[i] = g[i]
      <4>1. CASE i = 1
        BY <2>2, <2>4, <4>1
      <4>2. CASE i # 1
        <5>1. i - 1 \in 1 .. n /\ g[i] = flatten[i] /\ g[i - 1] = flatten[i - 1]
          BY <1>1, <4>2
        <5>2. flatten[i] = flatten[i - 1] \o s[i]
          BY <2>4, <4>2
        <5> QED
          BY <2>1, <3>2, <5>1, <5>2
      <4> QED
        BY <4>1, <4>2
    <3> QED
      BY <3>1, <3>2 DEF Alike
  <2>7. f[n] = g[n]
    <3> HIDE DEF g
    <3> QED
      BY <1>1, <2>6, OneSolution
  <2>8. FlattenSeq(s) = f[n]
    BY <1>1, <1>8, <2>5, <2>7
  <2> QED
    BY <1>6, <2>8 DEF n
<1> QED
  BY <1>7, <1>8

\* A flattened list is a sequence of the elements of its elements
LEMMA FlattenIn ==
    ASSUME NEW S, NEW s \in Seq(Seq(S))
    PROVE  FlattenSeq(s) \in Seq(S)
<1>1. PICK f \in [0 .. Len(s) -> Seq(S)] : FlattenSeq(s) = f[Len(s)]
  BY FlattenJoins
<1>2. Len(s) \in 0 .. Len(s)
  OBVIOUS
<1> QED
  BY <1>1, <1>2

-----------------------------------------------------------------------------
(* One field after another, and a list of them *)

\* Two parts of the bytes ahead, of which the first is read
LEMMA ThenReads ==
    ASSUME NEW r \in Readers, NEW w \in Seq(Byte), NEW v \in Seq(Got),
           NEW u \in Seq(Byte), NEW x \in Seq(Got), Ahead(r, w \o u)
    PROVE  LET q == Advance(r, w, v)
           IN  /\ Ahead(r, w) /\ q \in Readers /\ Ahead(q, u)
               /\ Advance(q, u, x) = Advance(r, w \o u, v \o x)
               /\ w \o u \in Seq(Byte) /\ v \o x \in Seq(Got)
<1>1. w \o u \in Seq(Byte) /\ v \o x \in Seq(Got)
  BY ConcatProperties
<1> QED
  BY <1>1, AdvanceReads, AdvanceTwice, AheadSplits

\* What reads nothing
LEMMA AdvanceNothing ==
    ASSUME NEW r \in Readers
    PROVE  Advance(r, << >>, << >>) = r
<1>1. r.got \o << >> = r.got /\ r.pos + Len(<< >>) = r.pos
  <2>1. r.got \in Seq(Got) /\ r.pos \in Nat
    BY ReaderParts
  <2> QED
    BY <2>1, ConcatEmptySeq
<1> QED
  BY <1>1, ReaderParts, Zenon DEF Advance

\* The readers between the elements of a list
Run(f, r, n, W, V) ==
    /\ f[0] = r
    /\ \A i \in 1 .. n : Ahead(f[i - 1], W[i]) /\ f[i] = Advance(f[i - 1], W[i], V[i])

\* A reader moves over the elements of a list one after another
LEMMA ListRuns ==
    ASSUME NEW r \in Readers, NEW n \in Nat,
           NEW W \in Seq(Seq(Byte)), NEW V \in Seq(Seq(Got)), Len(W) = n, Len(V) = n,
           Ahead(r, FlattenSeq(W))
    PROVE  \E f \in [0 .. n -> Readers] :
                Run(f, r, n, W, V) /\ f[n] = Advance(r, FlattenSeq(W), FlattenSeq(V))
<1>1. PICK u \in [0 .. n -> Seq(Byte)] : Joins(u, W, n) /\ FlattenSeq(W) = u[n]
  <2>1. \E u \in [0 .. Len(W) -> Seq(Byte)] : Joins(u, W, Len(W)) /\ FlattenSeq(W) = u[Len(W)]
    BY FlattenJoins
  <2> QED
    BY <2>1, Zenon
<1>2. PICK x \in [0 .. n -> Seq(Got)] : Joins(x, V, n) /\ FlattenSeq(V) = x[n]
  <2>1. \E x \in [0 .. Len(V) -> Seq(Got)] : Joins(x, V, Len(V)) /\ FlattenSeq(V) = x[Len(V)]
    BY FlattenJoins
  <2> QED
    BY <2>1, Zenon
<1>3. \A i \in 1 .. n : W[i] \in Seq(Byte) /\ V[i] \in Seq(Got)
  BY ElementOfSeq
<1>4. /\ u[0] = << >> /\ x[0] = << >>
      /\ \A i \in 1 .. n : u[i] = u[i - 1] \o W[i] /\ x[i] = x[i - 1] \o V[i]
  BY <1>1, <1>2 DEF Joins
<1> DEFINE f == [i \in 0 .. n |-> Advance(r, u[i], x[i])]
           T == {j \in 0 .. n : Ahead(r, u[n - j])}
<1>5. \A i \in 0 .. n : u[i] \in Seq(Byte) /\ x[i] \in Seq(Got)
  OBVIOUS
<1>6. 0 \in T
  BY <1>1
<1>7. ASSUME NEW j \in 1 .. n, j - 1 \in T PROVE j \in T
  <2> DEFINE i == n - (j - 1)
  <2>1. i \in 1 .. n /\ i - 1 = n - j /\ i - 1 \in 0 .. n /\ j \in 0 .. n
    OBVIOUS
  <2>2. Ahead(r, u[i])
    BY <1>7
  <2> HIDE DEF i
  <2>3. Ahead(r, u[i - 1] \o W[i])
    BY <1>4, <2>1, <2>2
  <2>4. Ahead(r, u[i - 1])
    BY <1>3, <1>5, <2>1, <2>3, AheadSplits
  <2> QED
    BY <2>1, <2>4
<1> HIDE DEF T
<1>8. \A j \in 0 .. n : j \in T
  BY <1>6, <1>7, Counting
<1>9. ASSUME NEW i \in 0 .. n PROVE Ahead(r, u[i])
  <2>1. n - i \in 0 .. n /\ n - (n - i) = i
    OBVIOUS
  <2> QED
    BY <1>8, <2>1 DEF T
<1>10. \A i \in 0 .. n : f[i] \in Readers
  BY <1>5, AdvanceReads
<1>11. f[0] = r
  BY <1>4, AdvanceNothing
<1>12. ASSUME NEW i \in 1 .. n
       PROVE  Ahead(f[i - 1], W[i]) /\ f[i] = Advance(f[i - 1], W[i], V[i])
  <2> DEFINE a == u[i - 1]
             b == x[i - 1]
  <2>1. i - 1 \in 0 .. n /\ i \in 0 .. n
    OBVIOUS
  <2>2. /\ a \in Seq(Byte) /\ b \in Seq(Got) /\ W[i] \in Seq(Byte) /\ V[i] \in Seq(Got)
        /\ u[i] = a \o W[i] /\ x[i] = b \o V[i]
    BY <1>3, <1>4, <1>5, <2>1
  <2>3. f[i - 1] = Advance(r, a, b) /\ f[i] = Advance(r, a \o W[i], b \o V[i])
    BY <2>1, <2>2
  <2>4. Ahead(r, a \o W[i])
    BY <1>9, <2>1, <2>2
  <2> HIDE DEF a, b, f
  <2> QED
    BY <2>2, <2>3, <2>4, ThenReads
<1>13. f[n] = Advance(r, FlattenSeq(W), FlattenSeq(V))
  BY <1>1, <1>2
<1>14. f \in [0 .. n -> Readers]
  BY <1>10
<1> HIDE DEF f
<1>15. Run(f, r, n, W, V)
  BY <1>11, <1>12 DEF Run
<1> QED
  BY <1>13, <1>14, <1>15

\* The readers from the count of a list to its end
LEMMA CountedRuns ==
    ASSUME NEW r \in Readers, NEW n, Fits(n, 4),
           NEW W \in Seq(Seq(Byte)), NEW V \in Seq(Seq(Got)), Len(W) = n, Len(V) = n,
           Ahead(r, Uint(n, 4) \o FlattenSeq(W))
    PROVE  LET counted == ReadUint(r, 4)
           IN  /\ n \in Nat /\ n # Unknown /\ Last(counted.got) = n
               /\ \E f \in [0 .. n -> Readers] :
                    /\ Run(f, counted, n, W, V)
                    /\ f[n] = Advance(r, Uint(n, 4) \o FlattenSeq(W), <<n>> \o FlattenSeq(V))
<1> DEFINE w == Uint(n, 4)
           u == FlattenSeq(W)
           v == <<n>>
           x == FlattenSeq(V)
           q == Advance(r, w, v)
<1>1. n \in Nat /\ w \in Seq(Byte)
  BY UintBytes DEF Fits
<1>2. v \in Seq(Got) /\ n \in Got
  BY <1>1 DEF Got
<1>3. u \in Seq(Byte)
  BY FlattenIn
<1>4. x \in Seq(Got)
  BY FlattenIn
<1> HIDE DEF w, u, v, x, q
<1>5. Ahead(r, w \o u)
  BY DEF w, u
<1>6. /\ Ahead(r, w) /\ q \in Readers /\ Ahead(q, u)
      /\ Advance(q, u, x) = Advance(r, w \o u, v \o x)
  BY <1>1, <1>2, <1>3, <1>4, <1>5, ThenReads DEF q
<1>7. ReadUint(r, 4) = q
  BY <1>6, ReadsUint DEF q, w, v
<1>8. Last(q.got) = n
  <2>1. q.got = Append(r.got, n)
    <3>1. r.got \in Seq(Got)
      BY ReaderParts
    <3> QED
      BY <1>2, <3>1, AppendIsConcat DEF q, Advance, v
  <2>2. r.got \in Seq(Got) /\ q.got \in Seq(Got)
    BY <1>6, ReaderParts
  <2> DEFINE g == r.got
  <2>3. g \in Seq(Got)
    BY <2>2
  <2> HIDE DEF g
  <2>4. Len(Append(g, n)) = Len(g) + 1 /\ Append(g, n)[Len(g) + 1] = n
    BY <1>2, <2>3, AppendProperties
  <2> QED
    BY <2>1, <2>4 DEF Last, g
<1>9. n # Unknown
  BY <1>1 DEF Unknown
<1>10. \E f \in [0 .. n -> Readers] : Run(f, q, n, W, V) /\ f[n] = Advance(q, u, x)
  BY <1>1, <1>6, ListRuns DEF u, x
<1> QED
  BY <1>1, <1>6, <1>7, <1>8, <1>9, <1>10 DEF w, u, v, x

\* A number of one byte is written as itself
LEMMA ByteFits ==
    ASSUME NEW n \in Byte
    PROVE  n \in Nat /\ n \in Got /\ Fits(n, 1) /\ Uint(n, 1) = <<n>>
<1>1. n \in Nat /\ n < Radix
  BY RadixAssumption DEF Byte
<1>2. Shifted(n, 0) = n /\ Shifted(n, 0 + 1) = n \div Radix
  BY <1>1, ShiftedStep
<1>3. n \div Radix = 0 /\ n % Radix = n
  BY <1>1, RadixAssumption
<1>4. Uint(n, 1) = [i \in 1 .. 1 |-> n]
  BY <1>2, <1>3 DEF Uint
<1>5. Uint(n, 1) = <<n>>
  BY <1>4
<1> QED
  BY <1>1, <1>2, <1>3, <1>5 DEF Fits, Got

\* A text is written as bytes and is a value that is read
LEMMA TextBytes ==
    ASSUME NEW t \in Text
    PROVE  String(t) \in Seq(Byte) /\ t \in Got
<1>1. t \in Seq(Byte) /\ NUL \in Byte
  BY RadixAssumption DEF Text, AnyText, Letter, Byte, NUL
<1> QED
  BY <1>1, AppendProperties DEF String, Got

\* An id is read as it was written
LEMMA ReadsId ==
    ASSUME NEW n \in IdType
    PROVE  /\ Id(n) \in Seq(Byte) /\ n \in Got
           /\ \A r \in Readers : Ahead(r, Id(n)) => ReadId(r) = Advance(r, Id(n), <<n>>)
<1>1. n \in Nat /\ Fits(n, IdBytes) /\ IdBytes \in Nat
  BY IdBytesAssumption DEF IdType
<1>2. Id(n) \in Seq(Byte) /\ Len(Id(n)) = IdBytes
  BY <1>1, UintBytes DEF Id
<1>3. ASSUME NEW r \in Readers, Ahead(r, Id(n))
      PROVE  ReadId(r) = Advance(r, Id(n), <<n>>)
  <2>1. ReadUint(r, IdBytes) = Advance(r, Id(n), <<n>>)
    BY <1>1, <1>3, ReadsUint DEF Id
  <2>2. r.pos \in Nat /\ Len(r.bytes) \in Nat
    BY ReaderParts
  <2>3. ~(Left(r) < IdBytes)
    BY <1>1, <1>2, <1>3, <2>2 DEF Ahead, Left
  <2> QED
    BY <2>1, <2>3 DEF ReadId
<1> QED
  BY <1>1, <1>2, <1>3 DEF Got

\* An id is read within the bytes there are, however few
LEMMA IdStaysWithin ==
    ASSUME NEW r \in Readers, r.pos <= Len(r.bytes)
    PROVE  ~Astray(ReadId(r))
<1> DEFINE q == ReadId(r)
<1>1. r.pos \in Nat /\ Len(r.bytes) \in Nat /\ IdBytes \in Nat
  BY ReaderParts, IdBytesAssumption
<1>2. ~Astray(r)
  BY <1>1 DEF Astray
<1>3. CASE Left(r) < IdBytes
  <2>1. q = Take(r, 0, Unknown)
    BY <1>2, <1>3 DEF ReadId
  <2> HIDE DEF q
  <2>2. q.bytes = r.bytes /\ q.pos = r.pos
    BY <1>1, <2>1 DEF Take
  <2> QED
    BY <1>1, <2>2 DEF Astray, q
<1>4. CASE ~(Left(r) < IdBytes)
  <2>1. q = Take(r, IdBytes, Number(r, IdBytes))
    BY <1>2, <1>4, Zenon DEF ReadId, ReadUint
  <2> HIDE DEF q
  <2>2. q.bytes = r.bytes /\ q.pos = r.pos + IdBytes
    BY <2>1 DEF Take
  <2>3. r.pos + IdBytes <= Len(r.bytes)
    BY <1>1, <1>4 DEF Left
  <2> QED
    BY <1>1, <2>2, <2>3 DEF Astray, q
<1> QED
  BY <1>3, <1>4

\* Two elements, one after the other
LEMMA Pairing ==
    ASSUME NEW S, NEW n \in S
    PROVE  <<n>> \in Seq(S) /\ \A m \in S : <<n>> \o <<m>> = <<n, m>>
<1> SUFFICES ASSUME NEW m \in S PROVE <<n>> \o <<m>> = <<n, m>>
  OBVIOUS
<1> DEFINE a == <<n>>
           b == <<m>>
           c == a \o b
           d == <<n, m>>
<1>1. a \in Seq(S) /\ b \in Seq(S) /\ Len(a) = 1 /\ Len(b) = 1 /\ a[1] = n /\ b[1] = m
  OBVIOUS
<1>2. d \in Seq(S) /\ Len(d) = 2 /\ d[1] = n /\ d[2] = m
  OBVIOUS
<1> HIDE DEF a, b, d
<1>3. c \in Seq(S) /\ Len(c) = 2 /\ c[1] = n /\ c[1 + 1] = m
  <2>1. 1 \in 1 .. 1
    OBVIOUS
  <2> QED
    BY <1>1, <2>1, Joined
<1> HIDE DEF c
<1>4. \A i \in 1 .. 2 : c[i] = d[i]
  <2>1. \A i \in 1 .. 2 : i = 1 \/ i = 1 + 1
    OBVIOUS
  <2> QED
    BY <1>2, <1>3, <2>1
<1>5. c = d
  BY <1>2, <1>3, <1>4, SameElements
<1> QED
  BY <1>5 DEF a, b, c, d

\* One value that was read, and a second after it
LEMMA OneGot ==
    ASSUME NEW n \in Got
    PROVE  <<n>> \in Seq(Got) /\ \A m \in Got : <<n>> \o <<m>> = <<n, m>>
BY Pairing

\* A property is read as it was written
LEMMA ReadsProperty ==
    ASSUME NEW p \in PropertyType(Text)
    PROVE  /\ Property(p) \in Seq(Byte) /\ PropertyFields(p) \in Seq(Got)
           /\ \A r \in Readers : Ahead(r, Property(p)) =>
                ReadProperty(r) = Advance(r, Property(p), PropertyFields(p))
<1> DEFINE w == Uint(p.key, 1)
           u == String(p.value)
           v == <<p.key>>
           x == <<p.value>>
<1>1. p.key \in Byte /\ p.value \in Text
  BY DEF PropertyType
<1>2. /\ w \in Seq(Byte) /\ u \in Seq(Byte) /\ v \in Seq(Got) /\ x \in Seq(Got)
      /\ Fits(p.key, 1) /\ v \o x = <<p.key, p.value>>
  BY <1>1, ByteFits, TextBytes, UintBytes, OneGot
<1>3. Property(p) = w \o u /\ PropertyFields(p) = v \o x
  BY <1>2 DEF Property, PropertyFields
<1>4. w \o u \in Seq(Byte) /\ v \o x \in Seq(Got)
  BY <1>2, ConcatProperties
<1>5. ASSUME NEW r \in Readers, Ahead(r, Property(p))
      PROVE  ReadProperty(r) = Advance(r, Property(p), PropertyFields(p))
  <2> DEFINE q == Advance(r, w, v)
  <2>1. /\ Ahead(r, w) /\ q \in Readers /\ Ahead(q, u)
        /\ Advance(q, u, x) = Advance(r, w \o u, v \o x)
    <3>1. Ahead(r, w \o u)
      BY <1>3, <1>5
    <3> HIDE DEF w, u, v, x
    <3>2. w \in Seq(Byte) /\ u \in Seq(Byte) /\ v \in Seq(Got) /\ x \in Seq(Got)
      BY <1>2
    <3> QED
      BY <3>1, <3>2, ThenReads
  <2>2. ReadUint(r, 1) = q
    BY <1>2, <2>1, ReadsUint
  <2>3. ReadString(q) = Advance(q, u, x)
    BY <1>1, <2>1, ReadsString
  <2> QED
    BY <1>3, <2>1, <2>2, <2>3 DEF ReadProperty
<1> QED
  BY <1>3, <1>4, <1>5

\* A node is read as it was written
LEMMA ReadsContact ==
    ASSUME NEW c \in ContactType(Text)
    PROVE  /\ Contact(c) \in Seq(Byte) /\ ContactFields(c) \in Seq(Got)
           /\ \A r \in Readers : Ahead(r, Contact(c)) =>
                ReadContact(r) = Advance(r, Contact(c), ContactFields(c))
<1> DEFINE w == Id(c.id)
           u == String(c.address)
           v == <<c.id>>
           x == <<c.address>>
<1>1. c.id \in IdType /\ c.address \in Text
  BY DEF ContactType
<1>2. /\ w \in Seq(Byte) /\ u \in Seq(Byte) /\ v \in Seq(Got) /\ x \in Seq(Got)
      /\ v \o x = <<c.id, c.address>>
  BY <1>1, ReadsId, TextBytes, OneGot
<1>3. Contact(c) = w \o u /\ ContactFields(c) = v \o x
  BY <1>2 DEF Contact, ContactFields
<1>4. w \o u \in Seq(Byte) /\ v \o x \in Seq(Got)
  BY <1>2, ConcatProperties
<1>5. ASSUME NEW r \in Readers, Ahead(r, Contact(c))
      PROVE  ReadContact(r) = Advance(r, Contact(c), ContactFields(c))
  <2> DEFINE q == Advance(r, w, v)
  <2>1. /\ Ahead(r, w) /\ q \in Readers /\ Ahead(q, u)
        /\ Advance(q, u, x) = Advance(r, w \o u, v \o x)
    <3>1. Ahead(r, w \o u)
      BY <1>3, <1>5
    <3> HIDE DEF w, u, v, x
    <3>2. w \in Seq(Byte) /\ u \in Seq(Byte) /\ v \in Seq(Got) /\ x \in Seq(Got)
      BY <1>2
    <3> QED
      BY <3>1, <3>2, ThenReads
  <2>2. ReadId(r) = q
    BY <1>1, <2>1, ReadsId
  <2>3. ReadString(q) = Advance(q, u, x)
    BY <1>1, <2>1, ReadsString
  <2> QED
    BY <1>3, <2>1, <2>2, <2>3 DEF ReadContact
<1> QED
  BY <1>3, <1>4, <1>5

\* The list of the properties of an entry
LEMMA ReadsProperties ==
    ASSUME NEW s \in Seq(PropertyType(Text)), Fits(Len(s), 4)
    PROVE  LET w == Uint(Len(s), 4) \o EachOf(s, Property)
               v == <<Len(s)>> \o EachOf(s, PropertyFields)
           IN  /\ w \in Seq(Byte) /\ v \in Seq(Got)
               /\ \A r \in Readers : Ahead(r, w) =>
                    ReadEachOf(r, ReadProperty) = Advance(r, w, v)
<1> DEFINE n == Len(s)
           W == [i \in DOMAIN s |-> Property(s[i])]
           V == [i \in DOMAIN s |-> PropertyFields(s[i])]
           w == Uint(n, 4) \o FlattenSeq(W)
           v == <<n>> \o FlattenSeq(V)
<1>1. n \in Nat /\ DOMAIN s = 1 .. n /\ \A i \in 1 .. n : s[i] \in PropertyType(Text)
  OBVIOUS
<1>2. W \in Seq(Seq(Byte)) /\ Len(W) = n
  BY <1>1, ReadsProperty
<1>3. V \in Seq(Seq(Got)) /\ Len(V) = n
  BY <1>1, ReadsProperty
<1>4. EachOf(s, Property) = FlattenSeq(W) /\ EachOf(s, PropertyFields) = FlattenSeq(V)
  BY Zenon DEF EachOf
<1>5. \A i \in 1 .. n : W[i] = Property(s[i]) /\ V[i] = PropertyFields(s[i])
  BY <1>1
<1> HIDE DEF n, W, V
<1>6. w \in Seq(Byte) /\ v \in Seq(Got)
  <2>1. Uint(n, 4) \in Seq(Byte) /\ FlattenSeq(W) \in Seq(Byte)
    BY <1>1, <1>2, UintBytes, FlattenIn
  <2>2. n \in Got
    BY <1>1 DEF Got
  <2>3. <<n>> \in Seq(Got) /\ FlattenSeq(V) \in Seq(Got)
    BY <1>3, <2>2, OneGot, FlattenIn
  <2> QED
    BY <2>1, <2>3, ConcatProperties
<1>7. ASSUME NEW r \in Readers, Ahead(r, w)
      PROVE  ReadEachOf(r, ReadProperty) = Advance(r, w, v)
  <2> DEFINE counted == ReadUint(r, 4)
             Solves(g) == g = [i \in 0 .. n |-> IF i = 0 THEN counted ELSE ReadProperty(g[i - 1])]
             after == CHOOSE g : Solves(g)
  <2>1. /\ n # Unknown /\ Last(counted.got) = n
        /\ \E f \in [0 .. n -> Readers] : Run(f, counted, n, W, V) /\ f[n] = Advance(r, w, v)
    BY <1>2, <1>3, <1>7, CountedRuns DEF n
  <2>2. PICK f \in [0 .. n -> Readers] : Run(f, counted, n, W, V) /\ f[n] = Advance(r, w, v)
    BY <2>1
  <2>3. ReadEachOf(r, ReadProperty) = after[n]
    BY <2>1, Zenon DEF ReadEachOf
  <2> HIDE DEF counted
  <2>4. f[0] = counted /\ \A i \in 1 .. n : f[i] = ReadProperty(f[i - 1])
    <3>1. ASSUME NEW i \in 1 .. n PROVE f[i] = ReadProperty(f[i - 1])
      <4>1. i - 1 \in 0 .. n
        BY <1>1
      <4>2. f[i - 1] \in Readers
        BY <4>1
      <4> QED
        BY <1>1, <1>5, <2>2, <4>2, ReadsProperty DEF Run
    <3> QED
      BY <2>2, <3>1 DEF Run
  <2>5. Solves(f)
    BY <2>4
  <2>6. Solves(after)
    BY <2>5, Zenon
  <2> HIDE DEF after
  <2>7. Alike(after, f, n)
    BY <1>1, <2>4, <2>6 DEF Alike
  <2>8. after[n] = f[n]
    BY <1>1, <2>7, OneSolution
  <2> QED
    BY <2>2, <2>3, <2>8
<1> QED
  BY <1>4, <1>6, <1>7 DEF n

\* The list of the nodes of a reply
LEMMA ReadsContacts ==
    ASSUME NEW s \in Seq(ContactType(Text)), Fits(Len(s), 4)
    PROVE  LET w == Uint(Len(s), 4) \o EachOf(s, Contact)
               v == <<Len(s)>> \o EachOf(s, ContactFields)
           IN  /\ w \in Seq(Byte) /\ v \in Seq(Got)
               /\ \A r \in Readers : Ahead(r, w) =>
                    ReadEachOf(r, ReadContact) = Advance(r, w, v)
<1> DEFINE n == Len(s)
           W == [i \in DOMAIN s |-> Contact(s[i])]
           V == [i \in DOMAIN s |-> ContactFields(s[i])]
           w == Uint(n, 4) \o FlattenSeq(W)
           v == <<n>> \o FlattenSeq(V)
<1>1. n \in Nat /\ DOMAIN s = 1 .. n /\ \A i \in 1 .. n : s[i] \in ContactType(Text)
  OBVIOUS
<1>2. W \in Seq(Seq(Byte)) /\ Len(W) = n
  BY <1>1, ReadsContact
<1>3. V \in Seq(Seq(Got)) /\ Len(V) = n
  BY <1>1, ReadsContact
<1>4. EachOf(s, Contact) = FlattenSeq(W) /\ EachOf(s, ContactFields) = FlattenSeq(V)
  BY Zenon DEF EachOf
<1>5. \A i \in 1 .. n : W[i] = Contact(s[i]) /\ V[i] = ContactFields(s[i])
  BY <1>1
<1> HIDE DEF n, W, V
<1>6. w \in Seq(Byte) /\ v \in Seq(Got)
  <2>1. Uint(n, 4) \in Seq(Byte) /\ FlattenSeq(W) \in Seq(Byte)
    BY <1>1, <1>2, UintBytes, FlattenIn
  <2>2. n \in Got
    BY <1>1 DEF Got
  <2>3. <<n>> \in Seq(Got) /\ FlattenSeq(V) \in Seq(Got)
    BY <1>3, <2>2, OneGot, FlattenIn
  <2> QED
    BY <2>1, <2>3, ConcatProperties
<1>7. ASSUME NEW r \in Readers, Ahead(r, w)
      PROVE  ReadEachOf(r, ReadContact) = Advance(r, w, v)
  <2> DEFINE counted == ReadUint(r, 4)
             Solves(g) == g = [i \in 0 .. n |-> IF i = 0 THEN counted ELSE ReadContact(g[i - 1])]
             after == CHOOSE g : Solves(g)
  <2>1. /\ n # Unknown /\ Last(counted.got) = n
        /\ \E f \in [0 .. n -> Readers] : Run(f, counted, n, W, V) /\ f[n] = Advance(r, w, v)
    BY <1>2, <1>3, <1>7, CountedRuns DEF n
  <2>2. PICK f \in [0 .. n -> Readers] : Run(f, counted, n, W, V) /\ f[n] = Advance(r, w, v)
    BY <2>1
  <2>3. ReadEachOf(r, ReadContact) = after[n]
    BY <2>1, Zenon DEF ReadEachOf
  <2> HIDE DEF counted
  <2>4. f[0] = counted /\ \A i \in 1 .. n : f[i] = ReadContact(f[i - 1])
    <3>1. ASSUME NEW i \in 1 .. n PROVE f[i] = ReadContact(f[i - 1])
      <4>1. i - 1 \in 0 .. n
        BY <1>1
      <4>2. f[i - 1] \in Readers
        BY <4>1
      <4> QED
        BY <1>1, <1>5, <2>2, <4>2, ReadsContact DEF Run
    <3> QED
      BY <2>2, <3>1 DEF Run
  <2>5. Solves(f)
    BY <2>4
  <2>6. Solves(after)
    BY <2>5, Zenon
  <2> HIDE DEF after
  <2>7. Alike(after, f, n)
    BY <1>1, <2>4, <2>6 DEF Alike
  <2>8. after[n] = f[n]
    BY <1>1, <2>7, OneSolution
  <2> QED
    BY <2>2, <2>3, <2>8
<1> QED
  BY <1>4, <1>6, <1>7 DEF n

\* The properties of an entry are written as bytes
LEMMA PropertiesBytes ==
    ASSUME NEW s \in Seq(PropertyType(Text))
    PROVE  EachOf(s, Property) \in Seq(Byte)
<1> DEFINE W == [i \in DOMAIN s |-> Property(s[i])]
<1>1. W \in Seq(Seq(Byte))
  <2>1. Len(s) \in Nat /\ DOMAIN s = 1 .. Len(s) /\ \A i \in 1 .. Len(s) : s[i] \in PropertyType(Text)
    OBVIOUS
  <2> QED
    BY <2>1, ReadsProperty
<1>2. EachOf(s, Property) = FlattenSeq(W)
  BY Zenon DEF EachOf
<1> HIDE DEF W
<1> QED
  BY <1>1, <1>2, FlattenIn

\* Bytes join in any order of the joins
LEMMA BytesAssociate ==
    \A a, b, c \in Seq(Byte) : (a \o b) \o c = a \o (b \o c)
<1> SUFFICES ASSUME NEW a \in Seq(Byte), NEW b \in Seq(Byte), NEW c \in Seq(Byte)
             PROVE  (a \o b) \o c = a \o (b \o c)
  OBVIOUS
<1> QED
  BY ConcatAssociative

\* A sequence with one more element at its end
OneLonger(x, c, t) ==
    LET n == Len(x) IN Len(t) = n + 1 /\ t[n + 1] = c /\ \A i \in 1 .. n : t[i] = x[i]

\* What is one longer is made by one more element
LEMMA OneMore ==
    ASSUME NEW S, NEW x \in Seq(S), NEW c \in S, NEW t \in Seq(S), OneLonger(x, c, t)
    PROVE  x \o <<c>> = t
<1> DEFINE y == Append(x, c)
           n == Len(x)
<1>1. y \in Seq(S) /\ Len(y) = n + 1 /\ y[n + 1] = c /\ \A i \in 1 .. n : y[i] = x[i]
  BY AppendProperties
<1>5. n \in Nat /\ Len(t) = n + 1 /\ t[n + 1] = c /\ \A i \in 1 .. n : t[i] = x[i]
  BY DEF OneLonger
<1>2. x \o <<c>> = y
  BY AppendIsConcat
<1> HIDE DEF y, n
<1>3. \A i \in 1 .. n + 1 : y[i] = t[i]
  BY <1>1, <1>5
<1>4. y = t
  BY <1>1, <1>3, <1>5, SameElements
<1> QED
  BY <1>2, <1>4

\* Three values, one after another
LEMMA ThreeGot ==
    ASSUME NEW a \in Got, NEW b \in Got, NEW c \in Got
    PROVE  (<<a>> \o <<b>>) \o <<c>> = <<a, b, c>>
<1> DEFINE x == <<a, b>>
           y == <<a, b, c>>
<1>1. x \in Seq(Got) /\ Len(x) = 2 /\ x[1] = a /\ x[2] = b
  OBVIOUS
<1>2. y \in Seq(Got) /\ Len(y) = 3 /\ y[1] = a /\ y[2] = b /\ y[3] = c
  OBVIOUS
<1>3. <<a>> \o <<b>> = x
  BY Pairing
<1> HIDE DEF x, y
<1>4. OneLonger(x, c, y)
  BY <1>1, <1>2 DEF OneLonger
<1>5. x \o <<c>> = y
  BY <1>1, <1>2, <1>4, OneMore
<1> QED
  BY <1>3, <1>5 DEF y

\* Four fields, one after another
LEMMA FourGot ==
    ASSUME NEW S, NEW a \in S, NEW b \in S, NEW c \in S, NEW d \in S
    PROVE  ((<<a>> \o <<b>>) \o <<c>>) \o <<d>> = <<a, b, c, d>>
<1> DEFINE x == <<a, b>>
           y == <<a, b, c>>
           z == <<a, b, c, d>>
<1>1. x \in Seq(S) /\ Len(x) = 2 /\ x[1] = a /\ x[2] = b
  OBVIOUS
<1>2. y \in Seq(S) /\ Len(y) = 3 /\ y[1] = a /\ y[2] = b /\ y[3] = c
  OBVIOUS
<1>3. z \in Seq(S) /\ Len(z) = 4 /\ z[1] = a /\ z[2] = b /\ z[3] = c /\ z[4] = d
  OBVIOUS
<1>4. <<a>> \o <<b>> = x
  BY Pairing
<1> HIDE DEF x, y, z
<1>5. x \o <<c>> = y
  <2>1. OneLonger(x, c, y)
    BY <1>1, <1>2 DEF OneLonger
  <2> QED
    BY <1>1, <1>2, <2>1, OneMore
<1>6. y \o <<d>> = z
  <2>1. OneLonger(y, d, z)
    BY <1>2, <1>3 DEF OneLonger
  <2> QED
    BY <1>2, <1>3, <2>1, OneMore
<1> QED
  BY <1>4, <1>5, <1>6 DEF z

\* An entry is read as it was written
LEMMA ReadsEntry ==
    ASSUME NEW se, EntryFits(se, Text)
    PROVE  /\ Entry(se) \in Seq(Byte) /\ EntryFields(se) \in Seq(Got)
           /\ \A r \in Readers : Ahead(r, Entry(se)) =>
                ReadEntry(r) = Advance(r, Entry(se), EntryFields(se))
<1> DEFINE s == se.properties
           w1 == Id(se.simHash)
           w2 == String(se.title)
           w3 == String(se.url)
           w4 == Uint(se.type, 1)
           w5 == Uint(Len(s), 4) \o EachOf(s, Property)
           v1 == <<se.simHash>>
           v2 == <<se.title>>
           v3 == <<se.url>>
           v4 == <<se.type>>
           v5 == <<Len(s)>> \o EachOf(s, PropertyFields)
           x2 == v1 \o v2
           x3 == x2 \o v3
           x4 == x3 \o v4
<1>1. /\ se.simHash \in IdType /\ se.title \in Text /\ se.url \in Text /\ se.type \in Byte
      /\ s \in Seq(PropertyType(Text)) /\ Fits(Len(s), 4)
  BY DEF EntryFits, EntryType
<1>2. /\ w1 \in Seq(Byte) /\ w2 \in Seq(Byte) /\ w3 \in Seq(Byte) /\ w4 \in Seq(Byte)
  BY <1>1, ByteFits, ReadsId, TextBytes, UintBytes
<1>3. /\ w5 \in Seq(Byte) /\ v5 \in Seq(Got)
      /\ \A r \in Readers : Ahead(r, w5) => ReadEachOf(r, ReadProperty) = Advance(r, w5, v5)
  BY <1>1, ReadsProperties
<1>4. /\ se.simHash \in Got /\ se.title \in Got /\ se.url \in Got /\ se.type \in Got
  BY <1>1, ByteFits, ReadsId, TextBytes
<1>5. /\ v1 \in Seq(Got) /\ v2 \in Seq(Got) /\ v3 \in Seq(Got) /\ v4 \in Seq(Got)
  BY <1>4, OneGot
<1>6. /\ x2 \in Seq(Got) /\ x3 \in Seq(Got) /\ x4 \in Seq(Got)
  <2> HIDE DEF v1, v2, v3, v4
  <2> QED
    BY <1>5, ConcatProperties
<1>7. Entry(se) = (((w1 \o w2) \o w3) \o w4) \o w5
  <2> DEFINE c4 == ((w1 \o w2) \o w3) \o w4
             n == Uint(Len(s), 4)
             p == EachOf(s, Property)
  <2>1. c4 \in Seq(Byte)
    <3> HIDE DEF w1, w2, w3, w4
    <3> QED
      BY <1>2, ConcatProperties
  <2>2. n \in Seq(Byte) /\ p \in Seq(Byte)
    BY <1>1, UintBytes, PropertiesBytes DEF Fits
  <2>3. Entry(se) = (c4 \o n) \o p
    BY DEF Entry
  <2> HIDE DEF c4, n, p
  <2>4. (c4 \o n) \o p = c4 \o (n \o p)
    BY <2>1, <2>2, BytesAssociate
  <2> QED
    BY <2>3, <2>4 DEF c4, n, p
<1>8. EntryFields(se) = x4 \o v5
  BY <1>4, FourGot DEF EntryFields
<1>9. ASSUME NEW r \in Readers, Ahead(r, Entry(se))
      PROVE  ReadEntry(r) = Advance(r, Entry(se), EntryFields(se))
  <2> DEFINE c2 == w1 \o w2
             c3 == c2 \o w3
             c4 == c3 \o w4
             q1 == Advance(r, w1, v1)
             q2 == Advance(r, c2, x2)
             q3 == Advance(r, c3, x3)
             q4 == Advance(r, c4, x4)
  <2>1. c2 \in Seq(Byte) /\ c3 \in Seq(Byte) /\ c4 \in Seq(Byte)
    BY <1>2, ConcatProperties
  <2>2. Ahead(r, c4 \o w5)
    BY <1>7, <1>9
  <2> HIDE DEF w1, w2, w3, w4, w5, v1, v2, v3, v4, v5
  <2>3. /\ Ahead(r, c4) /\ q4 \in Readers /\ Ahead(q4, w5)
        /\ Advance(q4, w5, v5) = Advance(r, c4 \o w5, x4 \o v5)
    <3> HIDE DEF c4, x4
    <3> QED
      BY <1>3, <1>6, <2>1, <2>2, ThenReads
  <2>4. /\ Ahead(r, c3) /\ q3 \in Readers /\ Ahead(q3, w4) /\ Advance(q3, w4, v4) = q4
    <3> HIDE DEF c3, x3
    <3> QED
      BY <1>2, <1>5, <1>6, <2>1, <2>3, ThenReads
  <2>5. /\ Ahead(r, c2) /\ q2 \in Readers /\ Ahead(q2, w3) /\ Advance(q2, w3, v3) = q3
    <3> HIDE DEF c2, x2
    <3> QED
      BY <1>2, <1>5, <1>6, <2>1, <2>4, ThenReads
  <2>6. /\ Ahead(r, w1) /\ q1 \in Readers /\ Ahead(q1, w2) /\ Advance(q1, w2, v2) = q2
    BY <1>2, <1>5, <2>5, ThenReads
  <2> HIDE DEF q1, q2, q3, q4
  <2>7. ReadId(r) = q1
    BY <1>1, <2>6, ReadsId DEF q1, w1, v1
  <2>8. ReadString(q1) = q2
    BY <1>1, <2>6, ReadsString DEF w2, v2
  <2>9. ReadString(q2) = q3
    BY <1>1, <2>5, ReadsString DEF w3, v3
  <2>10. ReadUint(q3, 1) = q4
    BY <1>1, <2>4, ByteFits, ReadsUint DEF w4, v4
  <2>11. ReadEachOf(q4, ReadProperty) = Advance(q4, w5, v5)
    BY <1>3, <2>3
  <2> QED
    BY <1>7, <1>8, <2>3, <2>7, <2>8, <2>9, <2>10, <2>11 DEF ReadEntry
<1>10. Entry(se) \in Seq(Byte) /\ EntryFields(se) \in Seq(Got)
  BY <1>2, <1>3, <1>6, <1>7, <1>8, ConcatProperties
<1> QED
  BY <1>9, <1>10

\* The list of the results of a reply
LEMMA ReadsEntries ==
    ASSUME NEW s, ResultsFit(s, Text)
    PROVE  LET w == Uint(Len(s), 4) \o EachOf(s, Entry)
               v == <<Len(s)>> \o EachOf(s, EntryFields)
           IN  /\ w \in Seq(Byte) /\ v \in Seq(Got)
               /\ \A r \in Readers : Ahead(r, w) =>
                    ReadEachOf(r, ReadEntry) = Advance(r, w, v)
<1> DEFINE n == Len(s)
           W == [i \in DOMAIN s |-> Entry(s[i])]
           V == [i \in DOMAIN s |-> EntryFields(s[i])]
           w == Uint(n, 4) \o FlattenSeq(W)
           v == <<n>> \o FlattenSeq(V)
<1>1. /\ n \in Nat /\ DOMAIN s = 1 .. n /\ \A i \in 1 .. n : EntryFits(s[i], Text)
      /\ Fits(Len(s), 4)
  BY DEF ResultsFit
<1>2. W \in Seq(Seq(Byte)) /\ Len(W) = n
  BY <1>1, ReadsEntry
<1>3. V \in Seq(Seq(Got)) /\ Len(V) = n
  BY <1>1, ReadsEntry
<1>4. EachOf(s, Entry) = FlattenSeq(W) /\ EachOf(s, EntryFields) = FlattenSeq(V)
  BY Zenon DEF EachOf
<1>5. \A i \in 1 .. n : W[i] = Entry(s[i]) /\ V[i] = EntryFields(s[i])
  BY <1>1
<1> HIDE DEF n, W, V
<1>6. w \in Seq(Byte) /\ v \in Seq(Got)
  <2>1. Uint(n, 4) \in Seq(Byte) /\ FlattenSeq(W) \in Seq(Byte)
    BY <1>1, <1>2, UintBytes, FlattenIn
  <2>2. n \in Got
    BY <1>1 DEF Got
  <2>3. <<n>> \in Seq(Got) /\ FlattenSeq(V) \in Seq(Got)
    BY <1>3, <2>2, OneGot, FlattenIn
  <2> QED
    BY <2>1, <2>3, ConcatProperties
<1>7. ASSUME NEW r \in Readers, Ahead(r, w)
      PROVE  ReadEachOf(r, ReadEntry) = Advance(r, w, v)
  <2> DEFINE counted == ReadUint(r, 4)
             Solves(g) == g = [i \in 0 .. n |-> IF i = 0 THEN counted ELSE ReadEntry(g[i - 1])]
             after == CHOOSE g : Solves(g)
  <2>1. /\ n # Unknown /\ Last(counted.got) = n
        /\ \E f \in [0 .. n -> Readers] : Run(f, counted, n, W, V) /\ f[n] = Advance(r, w, v)
    BY <1>1, <1>2, <1>3, <1>7, CountedRuns DEF n
  <2>2. PICK f \in [0 .. n -> Readers] : Run(f, counted, n, W, V) /\ f[n] = Advance(r, w, v)
    BY <2>1
  <2>3. ReadEachOf(r, ReadEntry) = after[n]
    BY <2>1, Zenon DEF ReadEachOf
  <2> HIDE DEF counted
  <2>4. f[0] = counted /\ \A i \in 1 .. n : f[i] = ReadEntry(f[i - 1])
    <3>1. ASSUME NEW i \in 1 .. n PROVE f[i] = ReadEntry(f[i - 1])
      <4>1. i - 1 \in 0 .. n
        BY <1>1
      <4>2. f[i - 1] \in Readers
        BY <4>1
      <4> QED
        BY <1>1, <1>5, <2>2, <4>2, ReadsEntry DEF Run
    <3> QED
      BY <2>2, <3>1 DEF Run
  <2>5. Solves(f)
    BY <2>4
  <2>6. Solves(after)
    BY <2>5, Zenon
  <2> HIDE DEF after
  <2>7. Alike(after, f, n)
    BY <1>1, <2>4, <2>6 DEF Alike
  <2>8. after[n] = f[n]
    BY <1>1, <2>7, OneSolution
  <2> QED
    BY <2>2, <2>3, <2>8
<1> QED
  BY <1>4, <1>6, <1>7 DEF n

\* The results of a reply are written as bytes
LEMMA EntriesBytes ==
    ASSUME NEW s, ResultsFit(s, Text)
    PROVE  EachOf(s, Entry) \in Seq(Byte)
<1> DEFINE W == [i \in DOMAIN s |-> Entry(s[i])]
<1>1. W \in Seq(Seq(Byte))
  <2>1. Len(s) \in Nat /\ DOMAIN s = 1 .. Len(s) /\ \A i \in 1 .. Len(s) : EntryFits(s[i], Text)
    BY DEF ResultsFit
  <2> QED
    BY <2>1, ReadsEntry
<1>2. EachOf(s, Entry) = FlattenSeq(W)
  BY Zenon DEF EachOf
<1> HIDE DEF W
<1> QED
  BY <1>1, <1>2, FlattenIn

-----------------------------------------------------------------------------
(* Messages *)

\* What a message is written as, and what its reader has read
Reads(m, w, v) ==
    /\ w \in Seq(Byte) /\ v \in Seq(Got)
    /\ \A r \in Readers : Ahead(r, w) => ReadMessage(m.kind, r) = Advance(r, w, v)

\* The nodes of a reply are read as they were written
LEMMA ReadsNearest ==
    ASSUME NEW s, NearestFits(s, Text)
    PROVE  /\ Nearest(s) \in Seq(Byte) /\ NearestFields(s) \in Seq(Got)
           /\ \A r \in Readers : Ahead(r, Nearest(s)) =>
                ReadEachOf(r, ReadContact) = Advance(r, Nearest(s), NearestFields(s))
BY ReadsContacts DEF NearestFits, Nearest, NearestFields

\* ping is read as it was written
LEMMA ReadsPing ==
    ASSUME NEW m, m \in [kind : {"ping"}, nonce : Nat, address : Text, id : IdType], Fits(m.nonce, 8)
    PROVE  Reads(m, Written(m), Fields(m))
<1> DEFINE w1 == Uint(m.nonce, 8)
           w2 == String(m.address)
           w3 == Id(m.id)
           v1 == <<m.nonce>>
           v2 == <<m.address>>
           v3 == <<m.id>>
           c2 == w1 \o w2
           x2 == v1 \o v2
           w == c2 \o w3
           v == x2 \o v3
<1>1. m.kind = "ping" /\ m.nonce \in Nat /\ m.address \in Text /\ m.id \in IdType
  OBVIOUS
<1>2. w1 \in Seq(Byte) /\ w2 \in Seq(Byte) /\ w3 \in Seq(Byte)
  BY <1>1, UintBytes, TextBytes, ReadsId
<1>3. m.nonce \in Got /\ m.address \in Got /\ m.id \in Got
  BY <1>1, TextBytes, ReadsId DEF Got
<1>4. v1 \in Seq(Got) /\ v2 \in Seq(Got) /\ v3 \in Seq(Got)
  BY <1>3, OneGot
<1>5. Written(m) = w
  BY <1>1 DEF Written
<1>6. Fields(m) = v
  <2>1. Fields(m) = <<m.nonce, m.address, m.id>>
    BY <1>1 DEF Fields
  <2>2. v = <<m.nonce, m.address, m.id>>
    BY <1>3, ThreeGot
  <2> QED
    BY <2>1, <2>2
<1> HIDE DEF w1, w2, w3, v1, v2, v3
<1>7. /\ c2 \in Seq(Byte) /\ x2 \in Seq(Got) /\ w \in Seq(Byte) /\ v \in Seq(Got)
  BY <1>2, <1>4, ConcatProperties
<1>8. ASSUME NEW r \in Readers, Ahead(r, w) PROVE ReadMessage("ping", r) = Advance(r, w, v)
  <2> DEFINE q1 == Advance(r, w1, v1)
             q2 == Advance(r, c2, x2)
  <2>1. /\ Ahead(r, c2) /\ q2 \in Readers /\ Ahead(q2, w3) /\ Advance(q2, w3, v3) = Advance(r, w, v)
    <3> HIDE DEF c2, x2
    <3> QED
      BY <1>2, <1>4, <1>7, <1>8, ThenReads
  <2>2. /\ Ahead(r, w1) /\ q1 \in Readers /\ Ahead(q1, w2) /\ Advance(q1, w2, v2) = q2
    BY <1>2, <1>4, <2>1, ThenReads
  <2> HIDE DEF q1, q2
  <2>3. ReadUint(r, 8) = q1
    BY <2>2, ReadsUint DEF q1, w1, v1
  <2>4. ReadString(q1) = q2
    BY <1>1, <2>2, ReadsString DEF w2, v2
  <2>5. ReadId(q2) = Advance(q2, w3, v3)
    BY <1>1, <2>1, ReadsId DEF w3, v3
  <2> QED
    BY <2>1, <2>3, <2>4, <2>5 DEF ReadMessage
<1> QED
  BY <1>1, <1>5, <1>6, <1>7, <1>8 DEF Reads

\* The reply to ping is read as it was written
LEMMA ReadsPong ==
    ASSUME NEW m, m \in [kind : {"pong"}, nonce : Nat], Fits(m.nonce, 8)
    PROVE  Reads(m, Written(m), Fields(m))
<1>1. m.kind = "pong" /\ m.nonce \in Nat
  OBVIOUS
<1>2. Written(m) = Uint(m.nonce, 8) /\ Fields(m) = <<m.nonce>>
  BY <1>1 DEF Written, Fields
<1>3. Uint(m.nonce, 8) \in Seq(Byte) /\ <<m.nonce>> \in Seq(Got)
  BY <1>1, UintBytes, OneGot DEF Got
<1>4. \A r \in Readers : Ahead(r, Uint(m.nonce, 8)) =>
            ReadMessage("pong", r) = Advance(r, Uint(m.nonce, 8), <<m.nonce>>)
  BY ReadsUint DEF ReadMessage
<1> QED
  BY <1>1, <1>2, <1>3, <1>4 DEF Reads

\* findNode is read as it was written
LEMMA ReadsFindNode ==
    ASSUME NEW m, m \in [kind : {"findNode"}, id : IdType]
    PROVE  Reads(m, Written(m), Fields(m))
<1>1. m.kind = "findNode" /\ m.id \in IdType
  OBVIOUS
<1>2. Written(m) = Id(m.id) /\ Fields(m) = <<m.id>>
  BY <1>1 DEF Written, Fields
<1>3. Id(m.id) \in Seq(Byte) /\ <<m.id>> \in Seq(Got)
  BY <1>1, ReadsId, UintBytes, OneGot
<1>4. \A r \in Readers : Ahead(r, Id(m.id)) =>
            ReadMessage("findNode", r) = Advance(r, Id(m.id), <<m.id>>)
  BY <1>1, ReadsId DEF ReadMessage
<1> QED
  BY <1>1, <1>2, <1>3, <1>4 DEF Reads

\* The reply to findNode is read as it was written
LEMMA ReadsNodes ==
    ASSUME NEW m, m \in [kind : {"nodes"}, nearest : Seq(ContactType(Text))], NearestFits(m.nearest, Text)
    PROVE  Reads(m, Written(m), Fields(m))
<1>1. m.kind = "nodes"
  OBVIOUS
<1>2. Written(m) = Nearest(m.nearest) /\ Fields(m) = NearestFields(m.nearest)
  BY <1>1 DEF Written, Fields
<1>3. \A r \in Readers : ReadMessage("nodes", r) = ReadEachOf(r, ReadContact)
  BY DEF ReadMessage
<1> QED
  BY <1>1, <1>2, <1>3, ReadsNearest DEF Reads

\* storeResult is read as it was written
LEMMA ReadsStoreResult ==
    ASSUME NEW m, m \in [kind : {"storeResult"}, entry : EntryType(Text)], EntryFits(m.entry, Text)
    PROVE  Reads(m, Written(m), Fields(m))
<1>1. m.kind = "storeResult"
  OBVIOUS
<1>2. Written(m) = Entry(m.entry) /\ Fields(m) = EntryFields(m.entry)
  BY <1>1 DEF Written, Fields
<1>3. \A r \in Readers : ReadMessage("storeResult", r) = ReadEntry(r)
  BY DEF ReadMessage
<1> QED
  BY <1>1, <1>2, <1>3, ReadsEntry DEF Reads

\* A query is written as bytes, and read as it was written by the function of its name
LEMMA ReadsQuery ==
    ASSUME NEW m, m \in [kind : {"findResults", "query"}, query : Text]
    PROVE  /\ Written(m) = String(m.query) /\ Fields(m) = <<m.query>>
           /\ Written(m) \in Seq(Byte) /\ Fields(m) \in Seq(Got)
           /\ m.kind = "query" => Reads(m, Written(m), Fields(m))
<1>1. m.kind \in {"findResults", "query"} /\ m.query \in Text
  OBVIOUS
<1>2. Written(m) = String(m.query) /\ Fields(m) = <<m.query>>
  BY <1>1 DEF Written, Fields
<1>3. String(m.query) \in Seq(Byte) /\ <<m.query>> \in Seq(Got)
  BY <1>1, TextBytes, OneGot
<1>4. \A r \in Readers : Ahead(r, String(m.query)) =>
            ReadMessage("query", r) = Advance(r, String(m.query), <<m.query>>)
  BY <1>1, ReadsString DEF ReadMessage
<1> QED
  BY <1>2, <1>3, <1>4 DEF Reads

\* The reply to findResults is read as it was written
LEMMA ReadsResults ==
    ASSUME NEW m,
           m \in [kind : {"results"}, nearest : Seq(ContactType(Text)), results : Seq(EntryType(Text))],
           NearestFits(m.nearest, Text), ResultsFit(m.results, Text)
    PROVE  Reads(m, Written(m), Fields(m))
<1> DEFINE s == m.results
           w1 == Nearest(m.nearest)
           n == Uint(Len(s), 4)
           e == EachOf(s, Entry)
           w2 == n \o e
           v1 == NearestFields(m.nearest)
           v2 == <<Len(s)>> \o EachOf(s, EntryFields)
<1>1. m.kind = "results" /\ ResultsFit(s, Text) /\ Fits(Len(s), 4)
  BY DEF ResultsFit
<1>2. /\ w1 \in Seq(Byte) /\ v1 \in Seq(Got)
      /\ \A r \in Readers : Ahead(r, w1) => ReadEachOf(r, ReadContact) = Advance(r, w1, v1)
  BY ReadsNearest
<1>3. /\ w2 \in Seq(Byte) /\ v2 \in Seq(Got)
      /\ \A r \in Readers : Ahead(r, w2) => ReadEachOf(r, ReadEntry) = Advance(r, w2, v2)
  BY <1>1, ReadsEntries
<1>4. Written(m) = (w1 \o n) \o e /\ Fields(m) = v1 \o v2
  BY <1>1 DEF Written, Fields
<1>5. n \in Seq(Byte) /\ e \in Seq(Byte)
  BY <1>1, UintBytes, EntriesBytes DEF Fits
<1> HIDE DEF w1, n, e, v1, v2
<1>6. (w1 \o n) \o e = w1 \o w2
  BY <1>2, <1>5, BytesAssociate
<1> HIDE DEF w2
<1>7. w1 \o w2 \in Seq(Byte) /\ v1 \o v2 \in Seq(Got)
  BY <1>2, <1>3, ConcatProperties
<1>8. ASSUME NEW r \in Readers, Ahead(r, w1 \o w2)
      PROVE  ReadMessage("results", r) = Advance(r, w1 \o w2, v1 \o v2)
  <2> DEFINE q == Advance(r, w1, v1)
  <2>1. w1 \in Seq(Byte) /\ v1 \in Seq(Got) /\ w2 \in Seq(Byte) /\ v2 \in Seq(Got)
    BY <1>2, <1>3
  <2>2. /\ Ahead(r, w1) /\ q \in Readers /\ Ahead(q, w2)
        /\ Advance(q, w2, v2) = Advance(r, w1 \o w2, v1 \o v2)
    BY <1>8, <2>1, ThenReads
  <2> HIDE DEF q
  <2>3. ReadEachOf(r, ReadContact) = q
    BY <1>2, <2>2 DEF q
  <2>4. ReadEachOf(q, ReadEntry) = Advance(q, w2, v2)
    BY <1>3, <2>2
  <2> QED
    BY <2>2, <2>3, <2>4 DEF ReadMessage
<1> QED
  BY <1>1, <1>4, <1>6, <1>7, <1>8 DEF Reads

\* Every message that is taken for what it is is read as it was written
LEMMA MessageReads ==
    ASSUME NEW m, MessageFits(m, Text), m.kind # "findResults"
    PROVE  Reads(m, Written(m), Fields(m))
BY ReadsPing, ReadsPong, ReadsFindNode, ReadsNodes, ReadsStoreResult, ReadsQuery,
   ReadsResults DEF MessageFits

\* A reader of bytes that were written has them ahead of it
LEMMA ReaderBegins ==
    ASSUME NEW w \in Seq(Byte), NEW v \in Seq(Got)
    PROVE  /\ Reader(w) \in Readers /\ Ahead(Reader(w), w)
           /\ LET q == Advance(Reader(w), w, v) IN q.bytes = w /\ q.pos = Len(w) /\ q.got = v
<1> DEFINE r == Reader(w)
<1>1. r.bytes = w /\ r.pos = 0 /\ r.got = << >>
  BY DEF Reader
<1>2. r \in Readers
  BY DEF Reader, Readers
<1>3. Len(w) \in Nat /\ << >> \o v = v
  BY ConcatEmptySeq
<1> HIDE DEF r
<1>4. Ahead(r, w)
  BY <1>1, <1>3 DEF Ahead
<1>5. r.pos + Len(w) = Len(w) /\ r.got \o v = v
  BY <1>1, <1>3
<1> QED
  BY <1>1, <1>2, <1>4, <1>5 DEF Advance, r

\* A list of results is read off an exhausted buffer as one without elements
LEMMA NothingLeft ==
    ASSUME NEW r \in Readers, r.pos = Len(r.bytes)
    PROVE  ReadEachOf(r, ReadEntry) = Take(r, 0, 0)
<1> DEFINE counted == Take(r, 0, 0)
           Solves(g) == g = [i \in 0 .. 0 |-> IF i = 0 THEN counted ELSE ReadEntry(g[i - 1])]
           after == CHOOSE g : Solves(g)
           f == [i \in 0 .. 0 |-> counted]
<1>1. ReadUint(r, 4) = counted
  <2>1. ~Astray(r) /\ Left(r) < 4
    BY ReaderParts DEF Astray, Left
  <2> QED
    BY <2>1, Zenon DEF ReadUint
<1>2. Last(counted.got) = 0 /\ 0 # Unknown
  <2>1. counted.got = Append(r.got, 0) /\ r.got \in Seq(Got) /\ 0 \in Got
    BY ReaderParts DEF Take, Got
  <2> DEFINE g == r.got
  <2>2. g \in Seq(Got)
    BY <2>1
  <2> HIDE DEF g
  <2>3. Len(Append(g, 0)) = Len(g) + 1 /\ Append(g, 0)[Len(g) + 1] = 0
    BY <2>1, <2>2, AppendProperties
  <2> QED
    BY <2>1, <2>3 DEF Last, Unknown, g
<1>3. ReadEachOf(r, ReadEntry) = after[0]
  BY <1>1, <1>2, Zenon DEF ReadEachOf
<1> HIDE DEF counted
<1>4. Solves(f)
  OBVIOUS
<1>5. Solves(after)
  BY <1>4, Zenon
<1> HIDE DEF after
<1>6. after[0] = counted
  BY <1>5
<1> QED
  BY <1>3, <1>6 DEF counted

\* A message that came is one the nodes send, and nothing has been read of it yet
MessagesInv ==
    /\ readAs = "none" =>
            \/ message = NoMessage
            \/ message \in Sendable /\ reader = Reader(Written(message))
    /\ MessagesArrive

\* The kinds of the messages, whose nodes are nodes and whose queries are queries
LEMMA KindsOfMessages ==
    ASSUME NEW texts, NEW m, MessageFits(m, texts)
    PROVE  /\ m.kind # "none"
           /\ m.kind = "nodes" => NearestFits(m.nearest, texts)
           /\ m.kind = "findResults" => m \in [kind : {"findResults", "query"}, query : texts]
BY DEF MessageFits

\* No message is taken for none
LEMMA ExpectedIsKind ==
    ASSUME NEW k, k # "none", NEW kind \in Expected(k)
    PROVE  kind # "none"
BY DEF Expected

\* What a reader should have read of a message it takes for one of a kind
ReadWell(m, kind, q) ==
    /\ ~Astray(q)
    /\ kind = m.kind => q.pos = Len(q.bytes) /\ q.got = Fields(m)
    /\ m.kind = "nodes" /\ kind = "results" =>
            q.pos = Len(q.bytes) /\ q.got = Append(NearestFields(m.nearest), 0)

\* Every message is read as what it is, the nodes as results too, and a query within
\* its bytes
LEMMA ReceiveReads ==
    ASSUME NEW m, MessageFits(m, Text), NEW kind \in Expected(m.kind)
    PROVE  ReadWell(m, kind, ReadMessage(kind, Reader(Written(m))))
<1> DEFINE w == Written(m)
           v == Fields(m)
           r == Reader(w)
           q == Advance(r, w, v)
<1>1. CASE m.kind = "findResults"
  <2>1. kind = "findNode" /\ kind # m.kind
    BY <1>1 DEF Expected
  <2>2. w \in Seq(Byte) /\ v \in Seq(Got)
    BY <1>1, KindsOfMessages, ReadsQuery
  <2> HIDE DEF w, v
  <2>3. r \in Readers /\ r.pos <= Len(r.bytes)
    <3>1. r \in Readers /\ r.pos = 0
      BY <2>2, ReaderBegins DEF Reader
    <3> HIDE DEF r
    <3> QED
      BY <3>1, ReaderParts
  <2> HIDE DEF r
  <2>4. ~Astray(ReadMessage(kind, r))
    BY <2>1, <2>3, IdStaysWithin DEF ReadMessage
  <2> QED
    BY <1>1, <2>1, <2>4 DEF ReadWell, r, w
<1>2. CASE m.kind # "findResults"
  <2>1. /\ w \in Seq(Byte) /\ v \in Seq(Got)
        /\ r \in Readers /\ Ahead(r, w) => ReadMessage(m.kind, r) = q
    BY <1>2, MessageReads DEF Reads
  <2>2. /\ r \in Readers /\ Ahead(r, w)
        /\ q.bytes = w /\ q.pos = Len(w) /\ q.got = v
    BY <2>1, ReaderBegins
  <2>3. ReadMessage(m.kind, r) = q /\ Len(w) \in Nat
    BY <2>1, <2>2
  <2>4. CASE kind = m.kind
    <3> HIDE DEF w, v, r, q
    <3>1. ReadMessage(kind, r) = q /\ ~Astray(q)
      BY <2>2, <2>3, <2>4 DEF Astray
    <3>2. ~(m.kind = "nodes" /\ kind = "results")
      BY <2>4
    <3> QED
      BY <2>2, <3>1, <3>2 DEF ReadWell, r, w, v
  <2>5. CASE kind # m.kind
    <3>1. m.kind = "nodes" /\ kind = "results"
      BY <1>2, <2>5 DEF Expected
    <3>2. w = Nearest(m.nearest) /\ v = NearestFields(m.nearest)
      BY <3>1 DEF Written, Fields
    <3>3. ReadEachOf(r, ReadContact) = q
      BY <2>3, <3>1 DEF ReadMessage
    <3>4. q \in Readers /\ q.pos = Len(q.bytes)
      BY <2>1, <2>2, AdvanceReads
    <3> HIDE DEF w, v, r, q
    <3>5. ReadEachOf(q, ReadEntry) = Take(q, 0, 0)
      BY <3>4, NothingLeft
    <3>6. ReadMessage(kind, r) = Take(q, 0, 0)
      BY <3>1, <3>3, <3>5 DEF ReadMessage
    <3> DEFINE x == Take(q, 0, 0)
    <3>7. x.pos = q.pos + 0 /\ x.bytes = q.bytes /\ x.got = Append(q.got, 0)
      BY Zenon DEF Take
    <3>8. q.pos \in Nat
      BY <3>4, ReaderParts
    <3> HIDE DEF x
    <3>9. x.pos = Len(x.bytes) /\ x.got = Append(v, 0) /\ ~Astray(x)
      BY <2>2, <3>4, <3>7, <3>8 DEF Astray
    <3> QED
      BY <2>5, <3>2, <3>6, <3>9 DEF ReadWell, r, w, x
  <2> QED
    BY <2>4, <2>5
<1> QED
  BY <1>1, <1>2

\* Every step keeps the invariant
LEMMA MessagesInductive == MessagesInv /\ [MessagesNext]_messageVars => MessagesInv'
<1> SUFFICES ASSUME MessagesInv, [MessagesNext]_messageVars PROVE MessagesInv'
  OBVIOUS
<1>1. CASE Send
  <2>1. PICK m \in Sendable : message' = m /\ reader' = Reader(Written(m)) /\ readAs' = "none"
    BY <1>1 DEF Send
  <2>2. message' \in Sendable /\ reader' = Reader(Written(message'))
    BY <2>1, Zenon
  <2> QED
    BY <2>1, <2>2 DEF MessagesInv, MessagesArrive
<1>2. CASE Receive
  <2>1. PICK kind \in Expected(message.kind) :
            reader' = ReadMessage(kind, reader) /\ readAs' = kind
    BY <1>2 DEF Receive
  <2>2. message \in Sendable /\ reader = Reader(Written(message)) /\ message' = message
    BY <1>2 DEF Receive, MessagesInv
  <2>3. kind # "none"
    BY <2>2, SendableAssumption, KindsOfMessages, ExpectedIsKind
  <2>4. MessageFits(message, Text) => ReadWell(message, kind, reader')
    BY <2>1, <2>2, ReceiveReads
  <2>5. MessageFits(message', Text) => ReadWell(message', readAs', reader')
    BY <2>1, <2>2, <2>4
  <2> QED
    BY <2>1, <2>3, <2>5 DEF MessagesInv, MessagesArrive, ReadWell
<1>3. CASE UNCHANGED messageVars
  BY <1>3 DEF messageVars, MessagesInv, MessagesArrive
<1> QED
  BY <1>1, <1>2, <1>3 DEF MessagesNext

\* A message none of whose strings is empty is read within its bytes; taken for what it
\* is it is read as it was written and to its last byte, and the nodes that answer a
\* search for results are read as results without a result (PingArgs to
\* FindResultsReply, SearchEntry::read, SdsP2PClient::findResults).
THEOREM MessagesArriveCorrectness == MessagesSpec => []MessagesArrive
<1>1. MessagesInit => MessagesInv
  BY DEF MessagesInit, MessagesInv, MessagesArrive
<1>2. MessagesInv => MessagesArrive
  BY DEF MessagesInv
<1> QED
  BY <1>1, <1>2, MessagesInductive, PTL DEF MessagesSpec

-----------------------------------------------------------------------------
(* Requests: the characters of a form *)

\* A half of a byte is read from the digit it was sent as
LEMMA HexDigits ==
    ASSUME NEW n \in 0 .. 15
    PROVE  HexChar(n) \in Code /\ HexDigit(HexChar(n)) = n
<1>1. CASE n < 10
  <2>1. HexChar(n) = 48 + n /\ 48 + n \in 48 .. 57 /\ 48 + n \in Code
    BY <1>1 DEF HexChar, Code
  <2> QED
    BY <2>1 DEF HexDigit
<1>2. CASE ~(n < 10)
  <2>1. HexChar(n) = 55 + n /\ 55 + n \in 65 .. 70 /\ 55 + n \notin 48 .. 57 /\ 55 + n \in Code
    BY <1>2 DEF HexChar, Code
  <2> QED
    BY <2>1 DEF HexDigit
<1> QED
  BY <1>1, <1>2

\* A character is sent as one character or three
LEMMA EscapedChar ==
    ASSUME NEW c \in Code
    PROVE  EscapeChar(c) \in Seq(Code) /\ Len(EscapeChar(c)) \in Nat /\ Len(EscapeChar(c)) > 0
<1>1. c \div 16 \in 0 .. 15 /\ c % 16 \in 0 .. 15 /\ PLUS \in Code /\ PERCENT \in Code
  BY DEF Code, PLUS, PERCENT
<1>2. HexChar(c \div 16) \in Code /\ HexChar(c % 16) \in Code
  BY <1>1, HexDigits
<1>3. \/ EscapeChar(c) = <<c>>
      \/ EscapeChar(c) = <<PLUS>>
      \/ EscapeChar(c) = <<PERCENT, HexChar(c \div 16), HexChar(c % 16)>>
  BY Zenon DEF EscapeChar
<1>4. ASSUME NEW x \in Code, NEW y \in Code, NEW z \in Code
      PROVE  /\ <<x>> \in Seq(Code) /\ Len(<<x>>) = 1
             /\ <<x, y, z>> \in Seq(Code) /\ Len(<<x, y, z>>) = 3
  OBVIOUS
<1> DEFINE hi == HexChar(c \div 16)
           lo == HexChar(c % 16)
           e == EscapeChar(c)
<1> HIDE DEF hi, lo, e
<1>5. \/ e = <<c>> \/ e = <<PLUS>> \/ e = <<PERCENT, hi, lo>>
  BY <1>3 DEF hi, lo, e
<1>6. hi \in Code /\ lo \in Code
  BY <1>2 DEF hi, lo
<1>7. e \in Seq(Code) /\ (Len(e) = 1 \/ Len(e) = 3)
  BY <1>1, <1>4, <1>5, <1>6, Zenon
<1>8. e \in Seq(Code) /\ Len(e) \in Nat /\ Len(e) > 0
  <2>1. CASE Len(e) = 1
    BY <1>7, <2>1
  <2>2. CASE Len(e) = 3
    BY <1>7, <2>2
  <2> QED
    BY <1>7, <2>1, <2>2, Zenon
<1> QED
  BY <1>8, Zenon DEF e

\* A beginning of a sequence, longer by one
LEMMA OneLongerCut ==
    ASSUME NEW S, NEW t \in Seq(S), NEW k \in 1 .. Len(t)
    PROVE  Append(SubSeq(t, 1, k - 1), t[k]) = SubSeq(t, 1, k)
<1> DEFINE a == SubSeq(t, 1, k - 1)
           b == SubSeq(t, 1, k)
           c == Append(a, t[k])
<1>1. a \in Seq(S) /\ Len(a) = k - 1 /\ \A i \in 1 .. k - 1 : a[i] = t[i]
  OBVIOUS
<1>2. b \in Seq(S) /\ Len(b) = k /\ \A i \in 1 .. k : b[i] = t[i]
  OBVIOUS
<1>3. t[k] \in S /\ k \in Nat
  OBVIOUS
<1> HIDE DEF a, b
<1>4. c \in Seq(S) /\ Len(c) = k /\ c[k] = t[k] /\ \A i \in 1 .. k - 1 : c[i] = a[i]
  BY <1>1, <1>3, AppendProperties
<1> HIDE DEF c
<1>5. \A i \in 1 .. k : c[i] = b[i]
  BY <1>1, <1>2, <1>3, <1>4
<1>6. c = b
  BY <1>2, <1>4, <1>5, SameElements
<1> QED
  BY <1>6 DEF a, b, c

\* One turn of the loop takes what one character was escaped to
LEMMA TurnReads ==
    ASSUME NEW s, NEW beyond, NEW u, NEW c \in Code, NEW n \in Nat, Len(s) = n,
           u.at \in Nat, u.at + Len(EscapeChar(c)) <= n,
           \A i \in 1 .. Len(EscapeChar(c)) : s[u.at + i] = EscapeChar(c)[i]
    PROVE  /\ EscapeChar(c) \in Seq(Code) /\ Len(EscapeChar(c)) > 0
           /\ Turn(s, beyond, u) = [at |-> u.at + Len(EscapeChar(c)), text |-> Append(u.text, c)]
<1> DEFINE p == u.at
<1>1. CASE c \in 48 .. 57 \union 65 .. 90 \union 97 .. 122
  <2>1. EscapeChar(c) = <<c>>
    BY <1>1, Zenon DEF EscapeChar
  <2>2. s[p + 1] = c /\ p < n /\ <<c>> \in Seq(Code) /\ Len(<<c>>) = 1
    BY <2>1
  <2>3. c # PLUS /\ c # PERCENT /\ c # DOLLAR
    BY <1>1 DEF PLUS, PERCENT, DOLLAR
  <2>4. Turn(s, beyond, u) = [at |-> p + 1, text |-> Append(u.text, c)]
    BY <2>2, <2>3 DEF Turn
  <2> QED
    BY <2>1, <2>2, <2>4
<1>2. CASE c = SPACE
  <2>1. EscapeChar(c) = <<PLUS>> /\ PLUS \in Code
    BY <1>2 DEF EscapeChar, SPACE, PLUS, Code
  <2>2. s[p + 1] = PLUS /\ p < n /\ <<PLUS>> \in Seq(Code) /\ Len(<<PLUS>>) = 1
    BY <2>1
  <2>4. Turn(s, beyond, u) = [at |-> p + 1, text |-> Append(u.text, c)]
    BY <1>2, <2>2 DEF Turn, PLUS, PERCENT, DOLLAR
  <2> QED
    BY <2>1, <2>2, <2>4
<1>3. CASE c \notin 48 .. 57 \union 65 .. 90 \union 97 .. 122 /\ c # SPACE
  <2> DEFINE hi == HexChar(c \div 16)
             lo == HexChar(c % 16)
  <2>1. EscapeChar(c) = <<PERCENT, hi, lo>>
    BY <1>3 DEF EscapeChar
  <2>2. c \div 16 \in 0 .. 15 /\ c % 16 \in 0 .. 15 /\ 16 * (c \div 16) + (c % 16) = c
    BY DEF Code
  <2>3. /\ hi \in Code /\ lo \in Code
        /\ HexDigit(hi) = c \div 16 /\ HexDigit(lo) = c % 16
    BY <2>2, HexDigits
  <2>4. (c \div 16) % 16 = c \div 16 /\ (c % 16) % 16 = c % 16
    BY <2>2
  <2> HIDE DEF hi, lo
  <2>5. /\ <<PERCENT, hi, lo>> \in Seq(Code) /\ Len(<<PERCENT, hi, lo>>) = 3
        /\ s[p + 1] = PERCENT /\ s[p + 2] = hi /\ s[p + 3] = lo /\ p + 3 <= n
    BY <2>1, <2>3 DEF PERCENT, Code
  <2>6. p < n /\ PERCENT # PLUS /\ p + 2 <= n
    BY <2>5 DEF PERCENT, PLUS
  <2>7. Turn(s, beyond, u) =
            [at |-> p + 3, text |-> Append(u.text, 16 * (HexDigit(hi) % 16) + (HexDigit(lo) % 16))]
    BY <2>5, <2>6 DEF Turn
  <2>8. 16 * (HexDigit(hi) % 16) + (HexDigit(lo) % 16) = c
    BY <2>2, <2>3, <2>4
  <2>9. Len(EscapeChar(c)) = 3
    BY <2>1, <2>5, Zenon
  <2>10. Turn(s, beyond, u) = [at |-> u.at + Len(EscapeChar(c)), text |-> Append(u.text, c)]
    BY <2>7, <2>8, <2>9, Zenon
  <2> QED
    BY <2>10, EscapedChar
<1> QED
  BY <1>1, <1>2, <1>3

\* Where each element of a list lies in the flattened one
PartsOf(u, W, n) ==
    \A i \in 1 .. n :
        /\ Len(u[i]) = Len(u[i - 1]) + Len(W[i]) /\ Len(u[i]) <= Len(u[n])
        /\ \A k \in 1 .. Len(W[i]) : u[n][Len(u[i - 1]) + k] = W[i][k]

\* Every element of a list lies in the flattened one after those before it
LEMMA FlattenParts ==
    ASSUME NEW S, NEW W \in Seq(Seq(S)), NEW n \in Nat, Len(W) = n,
           NEW u \in [0 .. n -> Seq(S)], Joins(u, W, n)
    PROVE  PartsOf(u, W, n)
<1> DEFINE s == u[n]
           Leads(i) == Len(u[i]) <= Len(s) /\ \A k \in 1 .. Len(u[i]) : s[k] = u[i][k]
           T == {j \in 0 .. n : Leads(n - j)}
<1>1. \A i \in 0 .. n : u[i] \in Seq(S) /\ Len(u[i]) \in Nat
  OBVIOUS
<1>2. ASSUME NEW i \in 1 .. n
      PROVE  /\ i - 1 \in 0 .. n /\ Len(W[i]) \in Nat
             /\ Len(u[i]) = Len(u[i - 1]) + Len(W[i])
             /\ \A k \in 1 .. Len(u[i - 1]) : u[i][k] = u[i - 1][k]
             /\ \A k \in 1 .. Len(W[i]) : u[i][Len(u[i - 1]) + k] = W[i][k]
  <2>1. i - 1 \in 0 .. n
    OBVIOUS
  <2> DEFINE a == u[i - 1]
             b == W[i]
  <2>2. a \in Seq(S) /\ b \in Seq(S) /\ u[i] = a \o b
    <3>1. u[i] = a \o b
      BY DEF Joins
    <3>2. b \in Seq(S)
      BY ElementOfSeq
    <3>3. a \in Seq(S)
      BY <1>1, <2>1
    <3> QED
      BY <3>1, <3>2, <3>3
  <2> HIDE DEF a, b
  <2>3. /\ Len(b) \in Nat /\ Len(u[i]) = Len(a) + Len(b)
        /\ \A k \in 1 .. Len(a) : u[i][k] = a[k]
        /\ \A k \in 1 .. Len(b) : u[i][Len(a) + k] = b[k]
    BY <2>2, Joined
  <2> QED
    BY <2>1, <2>3 DEF a, b
<1>3. 0 \in T
  BY <1>1
<1>4. ASSUME NEW j \in 1 .. n, j - 1 \in T PROVE j \in T
  <2> DEFINE i == n - (j - 1)
             a == Len(u[i - 1])
  <2>1. i \in 1 .. n /\ i - 1 = n - j /\ j \in 0 .. n
    OBVIOUS
  <2>2. Leads(i)
    BY <1>4
  <2> HIDE DEF i
  <2>3. /\ a \in Nat /\ Len(W[i]) \in Nat /\ Len(u[i]) = a + Len(W[i]) /\ Len(s) \in Nat
        /\ \A k \in 1 .. a : u[i][k] = u[i - 1][k]
    BY <1>1, <1>2, <2>1
  <2> HIDE DEF a, s
  <2>4. a <= Len(s) /\ \A k \in 1 .. a : s[k] = u[i - 1][k]
    BY <2>2, <2>3
  <2>5. Leads(n - j)
    BY <2>1, <2>4 DEF a
  <2> QED
    BY <2>1, <2>5
<1> HIDE DEF T
<1>5. \A j \in 0 .. n : j \in T
  BY <1>3, <1>4, Counting
<1>6. ASSUME NEW i \in 1 .. n PROVE Leads(i)
  <2>1. n - i \in 0 .. n /\ n - (n - i) = i
    OBVIOUS
  <2> QED
    BY <1>5, <2>1 DEF T
<1> SUFFICES ASSUME NEW i \in 1 .. n
             PROVE  /\ Len(u[i]) = Len(u[i - 1]) + Len(W[i]) /\ Len(u[i]) <= Len(u[n])
                    /\ \A k \in 1 .. Len(W[i]) : u[n][Len(u[i - 1]) + k] = W[i][k]
  BY DEF PartsOf
<1> DEFINE a == Len(u[i - 1])
<1>7. /\ a \in Nat /\ Len(W[i]) \in Nat /\ Len(u[i]) = a + Len(W[i]) /\ Len(s) \in Nat
      /\ \A k \in 1 .. Len(W[i]) : u[i][a + k] = W[i][k]
  BY <1>1, <1>2
<1>8. Len(u[i]) <= Len(s) /\ \A k \in 1 .. Len(u[i]) : s[k] = u[i][k]
  BY <1>6
<1> HIDE DEF a, s
<1>9. \A k \in 1 .. Len(W[i]) : s[a + k] = W[i][k]
  BY <1>7, <1>8
<1> QED
  BY <1>7, <1>8, <1>9 DEF a, s

\* A text of a form is unescaped to what the user typed
LEMMA UnescapesEscaped ==
    ASSUME NEW t \in Seq(Code), NEW beyond
    PROVE  Unescape(Escape(t), beyond) = t
<1> DEFINE n == Len(t)
           W == [i \in DOMAIN t |-> EscapeChar(t[i])]
           s == Escape(t)
           m == Len(s)
           Solves(f) == f = [k \in 0 .. m |->
                IF k = 0 THEN [at |-> 0, text |-> << >>] ELSE Turn(s, beyond, f[k - 1])]
           turn == CHOOSE f : Solves(f)
<1>1. n \in Nat /\ DOMAIN t = 1 .. n /\ \A i \in 1 .. n : t[i] \in Code
  OBVIOUS
<1>2. \A c \in Code : EscapeChar(c) \in Seq(Code) /\ Len(EscapeChar(c)) \in Nat /\ Len(EscapeChar(c)) > 0
  BY EscapedChar
<1>3. W \in Seq(Seq(Code)) /\ Len(W) = n
  BY <1>1, <1>2
<1>4. \A i \in 1 .. n : W[i] = EscapeChar(t[i])
  BY <1>1
<1>5. s = FlattenSeq(W)
  BY Zenon DEF Escape
<1> HIDE DEF W, s
<1>6. PICK u \in [0 .. n -> Seq(Code)] : Joins(u, W, n) /\ s = u[n]
  <2>1. \E u \in [0 .. Len(W) -> Seq(Code)] : Joins(u, W, Len(W)) /\ FlattenSeq(W) = u[Len(W)]
    BY <1>3, FlattenJoins
  <2> QED
    BY <1>3, <1>5, <2>1, Zenon
<1>7. \A i \in 1 .. n :
            /\ Len(u[i]) = Len(u[i - 1]) + Len(W[i]) /\ Len(u[i]) <= m
            /\ \A k \in 1 .. Len(W[i]) : s[Len(u[i - 1]) + k] = W[i][k]
  <2>1. m = Len(u[n])
    BY <1>6
  <2> HIDE DEF n, m
  <2> QED
    <3>1. n \in Nat /\ W \in Seq(Seq(Code)) /\ Len(W) = n /\ Joins(u, W, n)
      BY <1>1, <1>3, <1>6
    <3>2. u \in [0 .. n -> Seq(Code)]
      OBVIOUS
    <3>3. PartsOf(u, W, n)
      BY <3>1, <3>2, FlattenParts
    <3>4. s = u[n] /\ m = Len(u[n])
      BY <1>6, <2>1
    <3> QED
      BY <3>3, <3>4, Zenon DEF PartsOf
<1>8. m \in Nat /\ Len(s) = m /\ Len(u[0]) = 0 /\ \A i \in 0 .. n : Len(u[i]) \in Nat
  BY <1>1, <1>6 DEF Joins
<1> HIDE DEF n, m
<1>9. \A i \in 0 .. n : i <= Len(u[i])
  <2> DEFINE T == {i \in 0 .. n : i <= Len(u[i])}
  <2>1. 0 \in T
    BY <1>1, <1>8
  <2>2. ASSUME NEW i \in 1 .. n, i - 1 \in T PROVE i \in T
    <3>1. i - 1 \in 0 .. n /\ i \in 0 .. n /\ i - 1 <= Len(u[i - 1])
      BY <1>1, <2>2
    <3>2. Len(u[i]) = Len(u[i - 1]) + Len(W[i]) /\ Len(W[i]) \in Nat /\ Len(W[i]) > 0
      BY <1>1, <1>2, <1>4, <1>7
    <3> DEFINE a == Len(u[i - 1])
               b == Len(W[i])
    <3>3. a \in Nat /\ i - 1 <= a /\ b \in Nat /\ b > 0 /\ Len(u[i]) = a + b
      BY <1>8, <3>1, <3>2
    <3> HIDE DEF a, b
    <3>4. i <= Len(u[i])
      BY <3>3
    <3> QED
      BY <3>1, <3>4
  <2> HIDE DEF T
  <2>3. \A i \in 0 .. n : i \in T
    BY <1>1, <2>1, <2>2, Counting
  <2> QED
    BY <2>3 DEF T
<1> DEFINE g == [k \in 0 .. m |->
                IF k <= n THEN [at |-> Len(u[k]), text |-> SubSeq(t, 1, k)]
                ELSE [at |-> m, text |-> t]]
<1>10. n <= m /\ Len(u[n]) = m /\ SubSeq(t, 1, n) = t
  <2>1. n \in 0 .. n
    BY <1>1
  <2>2. Len(u[n]) = m
    BY <1>6 DEF m
  <2>3. SubSeq(t, 1, n) = t
    BY <1>1 DEF n
  <2> QED
    BY <1>9, <2>1, <2>2, <2>3
<1>11. g[0] = [at |-> 0, text |-> << >>]
  <2>1. SubSeq(t, 1, 0) = << >>
    OBVIOUS
  <2> QED
    BY <1>1, <1>8, <2>1
<1>12. ASSUME NEW k \in 1 .. m PROVE g[k] = Turn(s, beyond, g[k - 1])
  <2>1. CASE k <= n
    <3> DEFINE v == g[k - 1]
               e == EscapeChar(t[k])
    <3>1. k \in 1 .. n /\ k - 1 \in 0 .. n /\ k - 1 \in 0 .. m /\ k \in 0 .. m /\ k - 1 <= n
      BY <1>1, <1>8, <1>10, <2>1
    <3>2. v.at = Len(u[k - 1]) /\ v.text = SubSeq(t, 1, k - 1)
      BY <3>1
    <3>3. g[k] = [at |-> Len(u[k]), text |-> SubSeq(t, 1, k)]
      BY <2>1, <3>1
    <3>4. t[k] \in Code /\ W[k] = e /\ v.at \in Nat
      BY <1>1, <1>4, <1>8, <3>1, <3>2
    <3>5. /\ Len(u[k]) = v.at + Len(e) /\ v.at + Len(e) <= m
          /\ \A i \in 1 .. Len(e) : s[v.at + i] = e[i]
      BY <1>7, <3>1, <3>2, <3>4
    <3> HIDE DEF g, v
    <3>6. Turn(s, beyond, v) = [at |-> v.at + Len(e), text |-> Append(v.text, t[k])]
      <4>1. v.at \in Nat /\ v.at + Len(EscapeChar(t[k])) <= m /\ m \in Nat /\ Len(s) = m
        BY <1>8, <3>4, <3>5
      <4>2. \A i \in 1 .. Len(EscapeChar(t[k])) : s[v.at + i] = EscapeChar(t[k])[i]
        BY <3>5
      <4>3. t[k] \in Code
        BY <3>4
      <4> QED
        BY <4>1, <4>2, <4>3, TurnReads, Zenon
    <3>7. Append(SubSeq(t, 1, k - 1), t[k]) = SubSeq(t, 1, k)
      BY <3>1, OneLongerCut DEF n
    <3> QED
      BY <3>2, <3>3, <3>5, <3>6, <3>7 DEF v
  <2>2. CASE ~(k <= n)
    <3>1. g[k - 1] = [at |-> m, text |-> t]
      <4>1. CASE k - 1 = n
        BY <1>1, <1>8, <1>10, <4>1
      <4>2. CASE k - 1 # n
        <5>1. k - 1 \in 0 .. m /\ ~(k - 1 <= n)
          BY <1>1, <1>8, <2>2, <4>2
        <5> QED
          BY <5>1
      <4> QED
        BY <4>1, <4>2
    <3>2. g[k] = [at |-> m, text |-> t]
      BY <1>1, <1>8, <2>2
    <3> DEFINE v == g[k - 1]
    <3>3. v.at = m
      BY <3>1
    <3> HIDE DEF v, g
    <3>4. v.at >= Len(s)
      BY <1>8, <3>3 DEF m
    <3>5. Turn(s, beyond, v) = v
      BY <1>8, <3>3, <3>4 DEF Turn, m
    <3> QED
      BY <3>1, <3>2, <3>5 DEF v
  <2> QED
    BY <2>1, <2>2
<1>13. Solves(g)
  <2> DEFINE h == [k \in 0 .. m |-> IF k = 0 THEN [at |-> 0, text |-> << >>] ELSE Turn(s, beyond, g[k - 1])]
  <2>1. ASSUME NEW k \in 0 .. m PROVE g[k] = h[k]
    <3> HIDE DEF g
    <3>1. CASE k = 0
      BY <1>11, <3>1
    <3>2. CASE k # 0
      <4>1. k \in 1 .. m
        BY <1>8, <3>2
      <4> QED
        BY <1>12, <3>2, <4>1
    <3> QED
      BY <3>1, <3>2
  <2>2. g = h
    BY <2>1
  <2> QED
    BY <2>2
<1>14. Solves(turn)
  BY <1>13, Zenon
<1>15. Unescape(s, beyond) = turn[m].text
  BY Zenon DEF Unescape, m
<1> HIDE DEF turn, g
<1>16. Alike(turn, g, m)
  BY <1>8, <1>11, <1>12, <1>14 DEF Alike
<1>17. turn[m] = g[m]
  BY <1>8, <1>16, OneSolution
<1>18. g[m].text = t
  BY <1>1, <1>8, <1>10 DEF g
<1> QED
  BY <1>15, <1>17, <1>18 DEF s

-----------------------------------------------------------------------------
(* Requests *)

\* What the parser makes of an escaped form is what the user typed
LEMMA FormUnescaped ==
    ASSUME NEW form \in Forms, NEW beyond
    PROVE  Unescaped(Escaped(form), beyond) = Filled(form) /\ ~Wrong(Escaped(form))
<1> DEFINE FieldType == [key : FieldKeys, text : Seq(Code)]
<1>0. form \in Seq(FieldType)
  BY FormsAssumption
<1>1. \A i \in DOMAIN form : form[i].text \in Seq(Code)
  <2>1. \A f \in FieldType : f.text \in Seq(Code)
    OBVIOUS
  <2> HIDE DEF FieldType
  <2>2. \A i \in DOMAIN form : form[i] \in FieldType
    BY <1>0
  <2> QED
    BY <2>1, <2>2
<1>2. DOMAIN Escaped(form) = DOMAIN form
  BY DEF Escaped
<1>3. ASSUME NEW i \in DOMAIN form
      PROVE  /\ Escaped(form)[i].key = form[i].key
             /\ Escaped(form)[i].value = Escape(form[i].text)
             /\ Escaped(form)[i].malformed = FALSE
  <2>1. Escaped(form)[i] = Piece(form[i].key, Escape(form[i].text))
    BY DEF Escaped
  <2> QED
    BY <2>1 DEF Piece
<1>4. ASSUME NEW i \in DOMAIN form
      PROVE  Piece(Escaped(form)[i].key, Unescape(Escaped(form)[i].value, beyond))
                = Piece(form[i].key, form[i].text)
  BY <1>1, <1>3, UnescapesEscaped
<1>5. Unescaped(Escaped(form), beyond) = Filled(form)
  BY <1>2, <1>4 DEF Unescaped, Filled
<1>6. ~Wrong(Escaped(form))
  BY <1>2, <1>3 DEF Wrong
<1> QED
  BY <1>5, <1>6

\* A posted form reaches its page
LEMMA PostedHandled ==
    ASSUME NEW form \in Forms, NEW headers \in Headers, NEW beyond
    PROVE  Handled(ParseRequest(Posted(form, headers), beyond)) = InsertEntry(Map(Filled(form)))
<1> DEFINE raw == Posted(form, headers)
           first == ParseFirstLine(raw, beyond)
           headed == ParseHeaders(first, raw.headers)
           req == ParseRequest(raw, beyond)
<1>1. /\ raw.method = "POST" /\ raw.words = 3 /\ raw.url = "/insert_link"
      /\ raw.query = NoPieces /\ raw.terminated /\ raw.headers = headers
      /\ raw.body = Escaped(form)
  BY DEF Posted
<1>2. headers # NoPieces /\ ~Wrong(headers)
  BY HeadersAssumption
<1>3. ~Wrong(Escaped(form)) /\ Unescaped(Escaped(form), beyond) = Filled(form)
  BY FormUnescaped
<1> HIDE DEF raw
<1>4. first = Parsed(TRUE, "POST", "/insert_link", Nothing, Nothing)
  BY <1>1 DEF ParseFirstLine
<1>5. first.ok /\ first.method = "POST" /\ first.url = "/insert_link"
  BY <1>4 DEF Parsed
<1> HIDE DEF first
<1>6. headed = Parsed(first.ok, "POST", "/insert_link", Nothing, Map(headers))
  BY <1>1, <1>2, <1>5 DEF ParseHeaders
<1>7. headed.ok /\ headed.method = "POST" /\ headed.url = "/insert_link"
  BY <1>5, <1>6 DEF Parsed
<1>8. req = IF ~raw.terminated \/ ~first.ok THEN Bad(first)
            ELSE IF raw.headers = NoPieces THEN first
            ELSE IF headed.ok /\ headed.method = "POST" THEN ParseAttrs(headed, raw.body, beyond)
            ELSE headed
  BY Zenon DEF ParseRequest, first, headed
<1> HIDE DEF headed, req
<1>9. req = ParseAttrs(headed, Escaped(form), beyond)
  BY <1>1, <1>2, <1>5, <1>7, <1>8
<1>10. req = Parsed(headed.ok, "POST", "/insert_link", Map(Filled(form)), Nothing)
  BY <1>3, <1>7, <1>9 DEF ParseAttrs
<1>11. req.ok /\ req.url = "/insert_link" /\ req.values = Map(Filled(form))
  BY <1>7, <1>10 DEF Parsed
<1>12. Handled(req) = InsertEntry(req.values)
  BY <1>11 DEF Handled
<1> QED
  BY <1>11, <1>12 DEF req, raw

\* The page of a form is told what its fields say
LEMMA MapIsFieldText ==
    ASSUME NEW form \in Forms, NEW key
    PROVE  Value(Map(Filled(form)), key) = FieldText(form, key)
<1> DEFINE pieces == Filled(form)
           map == Map(pieces)
           at == {i \in DOMAIN form : form[i].key = key}
<1>1. DOMAIN pieces = DOMAIN form
  BY DEF Filled
<1>2. ASSUME NEW i \in DOMAIN form
      PROVE  pieces[i].key = form[i].key /\ pieces[i].value = form[i].text
  <2>1. pieces[i] = Piece(form[i].key, form[i].text)
    BY DEF Filled
  <2> QED
    BY <2>1 DEF Piece
<1> HIDE DEF pieces
<1>3. {i \in DOMAIN pieces : pieces[i].key = key} = at
  BY <1>1, <1>2
<1>4. DOMAIN map = {pieces[i].key : i \in DOMAIN pieces}
  BY DEF Map
<1>5. key \in DOMAIN map <=> at # {}
  BY <1>1, <1>2, <1>4
<1>6. key \in DOMAIN map => map[key] = pieces[Max(at)].value
  BY <1>3, <1>4 DEF Map
<1>7. at # {} => Max(at) \in DOMAIN form
  <2> SUFFICES ASSUME at # {} PROVE Max(at) \in at
    OBVIOUS
  <2>1. at \subseteq 1 .. Len(form) /\ Len(form) \in Nat
    BY FormsAssumption
  <2> HIDE DEF at
  <2> QED
    BY <2>1, GreatestElement
<1>8. FieldText(form, key) = IF at = {} THEN << >> ELSE form[Max(at)].text
  BY Zenon DEF FieldText
<1> HIDE DEF at, map
<1>9. Value(map, key) = IF key \in DOMAIN map THEN map[key] ELSE << >>
  BY DEF Value
<1> QED
  BY <1>2, <1>5, <1>6, <1>7, <1>8, <1>9 DEF map, pieces

\* What the page of a form answers
FormAnswered(form, a) ==
    IF FieldText(form, "link_title") = << >> \/ FieldText(form, "link_url") = << >>
    THEN a.stored = {}
    ELSE \E se \in a.stored :
            /\ a.stored = {se}
            /\ se.title = FieldText(form, "link_title")
            /\ se.url = FieldText(form, "link_url")
            /\ se.properties = {<<key, FieldText(form, key)>> :
                        key \in {k \in PropertyKeys : FieldText(form, k) # << >>}}

\* The entry of a form has what its fields say
LEMMA FormInserted ==
    ASSUME NEW form \in Forms
    PROVE  FormAnswered(form, InsertEntry(Map(Filled(form))))
<1> DEFINE values == Map(Filled(form))
           a == InsertEntry(values)
           se == EntryOf(values)
           said == {<<key, FieldText(form, key)>> :
                        key \in {k \in PropertyKeys : FieldText(form, k) # << >>}}
           stored == {<<key, Value(values, key)>> :
                        key \in {k \in PropertyKeys : Value(values, k) # << >>}}
<1>1. \A key : Value(values, key) = FieldText(form, key)
  BY MapIsFieldText
<1> HIDE DEF values
<1>2. stored = said
  BY <1>1
<1>3. se.title = Value(values, "link_title") /\ se.url = Value(values, "link_url")
      /\ se.properties = stored
  BY DEF EntryOf
<1> HIDE DEF stored, said, se
<1>4. CASE FieldText(form, "link_title") = << >> \/ FieldText(form, "link_url") = << >>
  <2>1. a.stored = {}
    BY <1>1, <1>4 DEF InsertEntry, Answer
  <2> QED
    BY <1>4, <2>1 DEF FormAnswered, values
<1>5. CASE ~(FieldText(form, "link_title") = << >> \/ FieldText(form, "link_url") = << >>)
  <2>1. a.stored = {se}
    BY <1>1, <1>5 DEF InsertEntry, Answer, se
  <2>2. /\ se.title = FieldText(form, "link_title") /\ se.url = FieldText(form, "link_url")
        /\ se.properties = said
    BY <1>1, <1>2, <1>3
  <2> HIDE DEF a
  <2> QED
    BY <1>5, <2>1, <2>2 DEF FormAnswered, a, values, said
<1> QED
  BY <1>4, <1>5

\* What a request that stores something is
WellFormed(raw) ==
    /\ raw.terminated /\ ~Wrong(raw.headers)
    /\ raw.method = "POST" => ~Wrong(raw.body)
    /\ raw.method # "POST" => ~Wrong(raw.query)

\* Of a request that is not well formed, or tells no page anything, nothing is stored
LEMMA StoredIsWellFormed ==
    ASSUME NEW raw, NEW beyond, Handled(ParseRequest(raw, beyond)).stored # {}
    PROVE  WellFormed(raw)
<1> DEFINE first == ParseFirstLine(raw, beyond)
           headed == ParseHeaders(first, raw.headers)
           req == ParseRequest(raw, beyond)
<1>1. ASSUME NEW r PROVE ~Bad(r).ok /\ Bad(r).method = r.method
  BY DEF Parsed, Bad
<1>2. ~Wrong(NoPieces)
  BY DEF Wrong, NoPieces
<1>3. req.ok /\ req.values # Nothing
  <2>1. /\ Error.stored = {} /\ Index.stored = {} /\ File.stored = {}
        /\ \A values : ResultsView(values).stored = {}
    BY DEF Error, Index, File, ResultsView, Answer
  <2>2. InsertEntry(Nothing).stored = {}
    <3>1. Value(Nothing, "link_title") = << >>
      BY DEF Value, Nothing
    <3> QED
      BY <3>1 DEF InsertEntry, Answer
  <2> HIDE DEF req
  <2>3. ~req.ok => Handled(req) = Error
    BY DEF Handled
  <2>4. \/ Handled(req) = ResultsView(req.values) \/ Handled(req) = InsertEntry(req.values)
        \/ Handled(req) = Index \/ Handled(req) = File \/ Handled(req) = Error
    BY DEF Handled
  <2>5. Handled(req).stored # {}
    BY DEF req
  <2> QED
    BY <2>1, <2>2, <2>3, <2>4, <2>5
<1>4. req = IF ~raw.terminated \/ ~first.ok THEN Bad(first)
            ELSE IF raw.headers = NoPieces THEN first
            ELSE IF headed.ok /\ headed.method = "POST" THEN ParseAttrs(headed, raw.body, beyond)
            ELSE headed
  BY Zenon DEF ParseRequest, first, headed
<1>5. /\ first.ok /\ raw.method # "POST" => ~Wrong(raw.query)
      /\ first.method = raw.method
      /\ first.ok /\ raw.method = "POST" => first.values = Nothing
  <2> DEFINE whole == IF raw.method = "POST" /\ raw.query # NoPieces THEN "other" ELSE raw.url
             named == Parsed(TRUE, raw.method, whole, Nothing, Nothing)
             attrs == ParseAttrs(named, raw.query, beyond)
  <2>1. named.method = raw.method /\ named.values = Nothing
    BY DEF Parsed
  <2>2. first = IF raw.words <= 2 \/ raw.method \notin {"GET", "HEAD", "POST"} THEN Bad(named)
                ELSE IF raw.method = "POST" \/ raw.query = NoPieces THEN named
                ELSE attrs
    BY Zenon DEF ParseFirstLine
  <2> HIDE DEF named, first
  <2>3. attrs.method = raw.method /\ (attrs.ok => ~Wrong(raw.query))
    BY <1>1, <2>1 DEF ParseAttrs, Parsed
  <2> HIDE DEF attrs
  <2> QED
    BY <1>1, <1>2, <2>1, <2>2, <2>3
<1> HIDE DEF first
<1>6. /\ headed.ok => ~Wrong(raw.headers)
      /\ headed.method = raw.method
      /\ headed.ok => headed.values = Nothing
  BY <1>1, <1>5 DEF ParseHeaders, Parsed
<1> HIDE DEF headed, req
<1>7. raw.terminated /\ first.ok
  BY <1>1, <1>3, <1>4
<1>8. CASE raw.headers = NoPieces
  BY <1>2, <1>3, <1>4, <1>5, <1>7, <1>8 DEF WellFormed
<1>9. CASE raw.headers # NoPieces
  <2>1. headed.ok /\ headed.method = "POST" /\ req = ParseAttrs(headed, raw.body, beyond)
    BY <1>3, <1>4, <1>6, <1>7, <1>9
  <2>2. ~Wrong(raw.body)
    BY <1>1, <1>3, <2>1 DEF ParseAttrs
  <2> QED
    BY <1>6, <1>7, <2>1, <2>2 DEF WellFormed
<1> QED
  BY <1>8, <1>9

-----------------------------------------------------------------------------
(* The invariant: a form is on its way as the browser posted it *)

WebInv ==
    /\ request = NoRequest => answer = NoAnswer
    /\ typed # NoForm => typed \in Forms /\ \E headers \in Headers : request = Posted(typed, headers)
    /\ FormsReachPages

\* A posted form is a request
LEMMA NoRequestPosts ==
    ASSUME NEW form, NEW headers
    PROVE  Posted(form, headers) # NoRequest
<1>1. Posted(form, headers).method = "POST" /\ NoRequest.method = "none"
  BY DEF Posted, NoRequest
<1> QED
  BY <1>1

\* Every step keeps the invariant
LEMMA WebInvStep == WebInv /\ [WebNext]_webVars => WebInv'
<1> SUFFICES ASSUME WebInv, [WebNext]_webVars PROVE WebInv'
  OBVIOUS
<1>1. CASE PostForm
  <2>1. PICK form \in Forms, headers \in Headers :
            request' = Posted(form, headers) /\ typed' = form
    BY <1>1 DEF PostForm
  <2>2. answer' = NoAnswer
    BY <1>1 DEF PostForm, WebInv
  <2> QED
    BY <2>1, <2>2 DEF WebInv, FormsReachPages
<1>2. CASE SendRequest
  <2>1. typed' = NoForm /\ answer' = NoAnswer
    BY <1>2, NoRequestPosts DEF SendRequest, WebInv
  <2> QED
    BY <2>1 DEF WebInv, FormsReachPages
<1>3. CASE HandleRequest
  <2>1. PICK beyond \in Beyond : answer' = Handled(ParseRequest(request, beyond))
    BY <1>3 DEF HandleRequest
  <2>2. request' = request /\ typed' = typed /\ request # NoRequest
    BY <1>3 DEF HandleRequest
  <2>3. typed # NoForm => FormAnswered(typed, answer')
    <3> SUFFICES ASSUME typed # NoForm PROVE FormAnswered(typed, answer')
      OBVIOUS
    <3>1. PICK headers \in Headers : request = Posted(typed, headers)
      BY DEF WebInv
    <3>2. typed \in Forms
      BY DEF WebInv
    <3>3. answer' = InsertEntry(Map(Filled(typed)))
      BY <2>1, <3>1, <3>2, PostedHandled
    <3> QED
      BY <3>2, <3>3, FormInserted
  <2>4. answer'.stored # {} => WellFormed(request)
    BY <2>1, StoredIsWellFormed
  <2>5. FormsReachPages'
    BY <2>2, <2>3, <2>4 DEF FormsReachPages, FormAnswered, WellFormed
  <2> QED
    BY <2>2, <2>5 DEF WebInv
<1>4. CASE CloseConnection
  BY <1>4 DEF CloseConnection, WebInv, FormsReachPages
<1>5. CASE UNCHANGED webVars
  BY <1>5 DEF webVars, WebInv, FormsReachPages
<1> QED
  BY <1>1, <1>2, <1>3, <1>4, <1>5 DEF WebNext

\* The entry of a posted form is stored once with what the user typed, unless it has no
\* title or no url, and nothing is stored of a request that is not well formed
\* (parseHttpReqest, httpUnescape and insertSearchEntry).
THEOREM FormsReachPagesCorrectness == WebSpec => []FormsReachPages
<1>1. WebInit => WebInv
  BY DEF WebInit, WebInv, FormsReachPages
<1>2. WebInv => FormsReachPages
  BY DEF WebInv
<1> QED
  BY <1>1, <1>2, WebInvStep, PTL DEF WebSpec
=============================================================================
