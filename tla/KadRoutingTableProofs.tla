----------------------- MODULE KadRoutingTableProofs -----------------------
(***************************************************************************)
(* What holds of a routing table of any size, under any calls: the facts   *)
(* about identifiers and lists it needs, what the methods of a bucket      *)
(* preserve whatever the bucket, the node pushed and the clock, and the    *)
(* properties of the table.                                                *)
(***************************************************************************)
EXTENDS KadRoutingTable, SequenceTheorems, FiniteSetTheorems, WellFoundedInduction, TLAPS

-----------------------------------------------------------------------------
(* Identifiers *)

\* A non-empty set of naturals has a least element
LEMMA LeastElement ==
    ASSUME NEW T, T \subseteq Nat, T # {}
    PROVE  \E t \in T : \A u \in T : t <= u
<1> DEFINE R == {ss \in Nat \X Nat : ss[1] < ss[2]}
<1>1. PICK t \in T : \A u \in T : ~(<<u, t>> \in R)
  <2> HIDE DEF R
  <2>1. R = OpToRel(<, Nat)
    BY DEF R, OpToRel
  <2>2. IsWellFoundedOn(R, Nat)
    BY <2>1, NatLessThanWellFounded
  <2> QED
    BY <2>2, WFMin
<1>2. \A u \in T : t <= u
  <2> SUFFICES ASSUME NEW u \in T, u < t PROVE FALSE
    OBVIOUS
  <2>1. <<u, t>> \in R
    OBVIOUS
  <2> QED
    BY <1>1, <2>1
<1> QED
  BY <1>2

\* A non-empty set of naturals with an upper bound has a greatest element
LEMMA GreatestElement ==
    ASSUME NEW S, S \subseteq Nat, S # {}, NEW m \in Nat, \A x \in S : x <= m
    PROVE  \E x \in S : \A y \in S : y <= x
<1> DEFINE T == {n \in Nat : m - n \in S}
<1>1. T \subseteq Nat /\ T # {}
  <2>1. PICK x \in S : TRUE
    OBVIOUS
  <2>2. m - x \in Nat /\ m - (m - x) = x
    BY <2>1
  <2> QED
    BY <2>1, <2>2
<1>2. PICK t \in T : \A u \in T : t <= u
  <2> HIDE DEF T
  <2> QED
    BY <1>1, LeastElement
<1>3. \A y \in S : m - y \in T /\ m - t \in S
  BY <1>2
<1>4. \A y \in S : y <= m - t
  BY <1>2, <1>3
<1> QED
  BY <1>3, <1>4

\* The height of an id other than zero is its highest one bit
LEMMA HeightOfNonZero ==
    ASSUME NEW d \in KadIds, d # {}
    PROVE  /\ Height(d) \in Bits
           /\ Height(d) \in d
           /\ \A b \in d : b <= Height(d)
<1>1. d \subseteq Nat /\ \A x \in d : x <= BitLength
  BY BitLengthAssumption DEF KadIds, Bits
<1>2. \E x \in d : \A y \in d : y <= x
  BY <1>1, GreatestElement, BitLengthAssumption
<1>3. Height(d) \in d /\ \A b \in d : b <= Height(d)
  BY <1>2 DEF Height
<1> QED
  BY <1>3 DEF KadIds

\* The distance of two ids is zero exactly when they are equal
LEMMA DistanceZero ==
    ASSUME NEW a \in KadIds, NEW b \in KadIds
    PROVE  /\ Distance(a, b) \in KadIds
           /\ Distance(a, b) = {} <=> a = b
BY DEF Distance, KadIds

\* One id only is at distance d of a
LEMMA DistanceInjective ==
    ASSUME NEW a \in KadIds, NEW b \in KadIds, NEW c \in KadIds,
           Distance(a, b) = Distance(a, c)
    PROVE  b = c
BY DEF Distance, KadIds

-----------------------------------------------------------------------------
(* Buckets *)

\* The well-formed buckets: the sizes and the order that the methods rely on
BucketOK(b) ==
    /\ b \in Buckets
    /\ Len(b.nodes) <= BucketMax
    /\ Len(b.replacementNodes) <= BucketMax
    /\ b.replacementNodes # << >> => Len(b.nodes) = BucketMax
    /\ RecentFirst(b.nodes)
    /\ RecentFirst(b.replacementNodes)

ListedIds(b) == IdsOf(b.nodes) \cup IdsOf(b.replacementNodes)

\* p tells the place in s of each element of t
Rearranges(p, s, t) ==
    /\ \A i \in DOMAIN t : p[i] \in DOMAIN s /\ t[i] = s[p[i]]
    /\ \A i, j \in DOMAIN t : p[i] = p[j] => i = j
    /\ \A j \in DOMAIN s : \E i \in DOMAIN t : p[i] = j

-----------------------------------------------------------------------------
(* Sequences of nodes *)

\* A rearrangement lists the elements of the sequence, each at its own place
LEMMA RearrangementsElements ==
    ASSUME NEW S, NEW s \in Seq(S), NEW t \in Rearrangements(s)
    PROVE  /\ t \in Seq(S)
           /\ Len(t) = Len(s)
           /\ \E p : Rearranges(p, s, t)
<1>1. PICK p \in Bijection(1 .. Len(s), 1 .. Len(s)) : t = [i \in 1 .. Len(s) |-> s[p[i]]]
  BY DEF Rearrangements
<1>2. /\ p \in [1 .. Len(s) -> 1 .. Len(s)]
      /\ \A i, j \in 1 .. Len(s) : p[i] = p[j] => i = j
      /\ \A j \in 1 .. Len(s) : \E i \in 1 .. Len(s) : p[i] = j
  BY DEF Bijection, Injection, Surjection, IsInjective
<1>3. Len(s) \in Nat /\ DOMAIN s = 1 .. Len(s) /\ \A i \in 1 .. Len(s) : s[i] \in S
  BY LenProperties, ElementOfSeq
<1>4. t \in [1 .. Len(s) -> S]
  BY <1>1, <1>2, <1>3
<1>5. t \in Seq(S) /\ Len(t) = Len(s) /\ DOMAIN t = 1 .. Len(s)
  BY <1>3, <1>4, SeqDef, LenProperties
<1>6. Rearranges(p, s, t)
  BY <1>1, <1>2, <1>3, <1>5 DEF Rearranges
<1> QED
  BY <1>5, <1>6

\* std::sort keeps the nodes, lists no node twice that was listed once, and
\* leaves the list ordered
LEMMA SortedKeeps ==
    ASSUME NEW s \in Seq(KadNodes), NEW t \in Sorted(s)
    PROVE  /\ t \in Seq(KadNodes)
           /\ Len(t) = Len(s)
           /\ RecentFirst(t)
           /\ IdsOf(t) = IdsOf(s)
           /\ \A i \in DOMAIN t : \E j \in DOMAIN s : t[i] = s[j]
           /\ Distinct(s) => Distinct(t)
<1>1. t \in Rearrangements(s)
  BY DEF Sorted
<1>2. t \in Seq(KadNodes) /\ Len(t) = Len(s)
  BY <1>1, RearrangementsElements
<1>3. PICK p : Rearranges(p, s, t)
  BY <1>1, RearrangementsElements
<1>4. DOMAIN t = 1 .. Len(s) /\ DOMAIN s = 1 .. Len(s)
  BY <1>2, LenProperties
<1>5. RecentFirst(t)
  BY DEF Sorted
<1>6. IdsOf(t) = IdsOf(s)
  <2>1. IdsOf(t) \subseteq IdsOf(s)
    BY <1>3 DEF IdsOf, Rearranges
  <2>2. ASSUME NEW j \in DOMAIN s PROVE s[j].id \in IdsOf(t)
    <3>1. PICK i \in DOMAIN t : p[i] = j
      BY <1>3 DEF Rearranges
    <3> QED
      BY <1>3, <3>1 DEF IdsOf, Rearranges
  <2> QED
    BY <2>1, <2>2 DEF IdsOf
<1>7. ASSUME Distinct(s) PROVE Distinct(t)
  BY <1>3, <1>7 DEF Rearranges, Distinct
<1>8. \A i \in DOMAIN t : \E j \in DOMAIN s : t[i] = s[j]
  BY <1>3 DEF Rearranges
<1> QED
  BY <1>2, <1>5, <1>6, <1>7, <1>8

\* Appending a node
LEMMA AppendKeeps ==
    ASSUME NEW s \in Seq(KadNodes), NEW kn \in KadNodes
    PROVE  /\ Append(s, kn) \in Seq(KadNodes)
           /\ Len(Append(s, kn)) = Len(s) + 1
           /\ DOMAIN Append(s, kn) = 1 .. Len(s) + 1
           /\ \A i \in DOMAIN s : Append(s, kn)[i] = s[i]
           /\ Append(s, kn)[Len(s) + 1] = kn
           /\ IdsOf(Append(s, kn)) = IdsOf(s) \cup {kn.id}
<1>1. /\ Append(s, kn) \in Seq(KadNodes)
      /\ Len(Append(s, kn)) = Len(s) + 1
      /\ \A i \in 1 .. Len(s) : Append(s, kn)[i] = s[i]
      /\ Append(s, kn)[Len(s) + 1] = kn
  BY AppendProperties
<1>2. DOMAIN s = 1 .. Len(s) /\ DOMAIN Append(s, kn) = 1 .. Len(s) + 1 /\ Len(s) \in Nat
  BY <1>1, LenProperties
<1> QED
  BY <1>1, <1>2 DEF IdsOf

\* Erasing a place
LEMMA EraseKeeps ==
    ASSUME NEW s \in Seq(KadNodes), NEW i \in DOMAIN s
    PROVE  /\ Erase(s, i) \in Seq(KadNodes)
           /\ Len(Erase(s, i)) = Len(s) - 1
           /\ DOMAIN Erase(s, i) = 1 .. (Len(s) - 1)
           /\ IdsOf(Erase(s, i)) \subseteq IdsOf(s)
           /\ \A j \in DOMAIN Erase(s, i) : \E k \in DOMAIN s :
                k # i /\ k = (IF j < i THEN j ELSE j + 1) /\ Erase(s, i)[j] = s[k]
<1>1. Len(s) \in Nat /\ DOMAIN s = 1 .. Len(s) /\ \A j \in 1 .. Len(s) : s[j] \in KadNodes
  BY LenProperties, ElementOfSeq
<1>2. Len(s) - 1 \in Nat /\ i \in 1 .. Len(s)
  BY <1>1
<1>3. ASSUME NEW j \in 1 .. (Len(s) - 1)
      PROVE  (IF j < i THEN j ELSE j + 1) \in (1 .. Len(s)) \ {i}
  BY <1>1, <1>2
<1>4. Erase(s, i) \in [1 .. (Len(s) - 1) -> KadNodes]
  BY <1>1, <1>3 DEF Erase
<1>5. /\ Erase(s, i) \in Seq(KadNodes)
      /\ Len(Erase(s, i)) = Len(s) - 1
      /\ DOMAIN Erase(s, i) = 1 .. (Len(s) - 1)
  BY <1>2, <1>4, SeqDef, LenProperties
<1>6. ASSUME NEW j \in DOMAIN Erase(s, i)
      PROVE  \E k \in DOMAIN s :
                k # i /\ k = (IF j < i THEN j ELSE j + 1) /\ Erase(s, i)[j] = s[k]
  BY <1>1, <1>3, <1>5 DEF Erase
<1>7. IdsOf(Erase(s, i)) \subseteq IdsOf(s)
  BY <1>6 DEF IdsOf
<1> QED
  BY <1>5, <1>6, <1>7

\* Changing a node in place without changing its id
LEMMA UpdateKeeps ==
    ASSUME NEW s \in Seq(KadNodes), NEW i \in DOMAIN s, NEW kn \in KadNodes,
           kn.id = s[i].id
    PROVE  /\ [s EXCEPT ![i] = kn] \in Seq(KadNodes)
           /\ Len([s EXCEPT ![i] = kn]) = Len(s)
           /\ DOMAIN [s EXCEPT ![i] = kn] = DOMAIN s
           /\ \A j \in DOMAIN s : [s EXCEPT ![i] = kn][j].id = s[j].id
           /\ IdsOf([s EXCEPT ![i] = kn]) = IdsOf(s)
<1>1. Len(s) \in Nat /\ DOMAIN s = 1 .. Len(s) /\ s \in [1 .. Len(s) -> KadNodes]
  BY LenProperties
<1>2. [s EXCEPT ![i] = kn] \in [1 .. Len(s) -> KadNodes]
  BY <1>1
<1>3. /\ [s EXCEPT ![i] = kn] \in Seq(KadNodes)
      /\ Len([s EXCEPT ![i] = kn]) = Len(s)
      /\ DOMAIN [s EXCEPT ![i] = kn] = DOMAIN s
  BY <1>1, <1>2, SeqDef, LenProperties
<1>4. \A j \in DOMAIN s : [s EXCEPT ![i] = kn][j].id = s[j].id
  BY <1>1
<1> QED
  BY <1>3, <1>4 DEF IdsOf
-----------------------------------------------------------------------------
(* Buckets *)

\* reorder() leaves a bucket with the sizes and the ids it had, and in order
LEMMA ReorderKeeps ==
    ASSUME NEW b \in Buckets, NEW c \in Reorder(b)
    PROVE  /\ c \in Buckets
           /\ Len(c.nodes) = Len(b.nodes)
           /\ Len(c.replacementNodes) = Len(b.replacementNodes)
           /\ RecentFirst(c.nodes) /\ RecentFirst(c.replacementNodes)
           /\ IdsOf(c.nodes) = IdsOf(b.nodes)
           /\ IdsOf(c.replacementNodes) = IdsOf(b.replacementNodes)
           /\ c.nodes \in Sorted(b.nodes)
           /\ c.replacementNodes \in Sorted(b.replacementNodes)
<1>1. PICK n \in Sorted(b.nodes), r \in Sorted(b.replacementNodes) :
        c = [nodes |-> n, replacementNodes |-> r]
  BY DEF Reorder
<1>2. b.nodes \in Seq(KadNodes) /\ b.replacementNodes \in Seq(KadNodes)
  BY DEF Buckets
<1>3. /\ n \in Seq(KadNodes) /\ Len(n) = Len(b.nodes) /\ RecentFirst(n)
      /\ IdsOf(n) = IdsOf(b.nodes)
  BY <1>2, SortedKeeps
<1>4. /\ r \in Seq(KadNodes) /\ Len(r) = Len(b.replacementNodes) /\ RecentFirst(r)
      /\ IdsOf(r) = IdsOf(b.replacementNodes)
  BY <1>2, SortedKeeps
<1> QED
  BY <1>1, <1>3, <1>4 DEF Buckets

\* What a bucket is before reorder() makes it well-formed
SizesOK(b) ==
    /\ b \in Buckets
    /\ Len(b.nodes) <= BucketMax
    /\ Len(b.replacementNodes) <= BucketMax
    /\ b.replacementNodes # << >> => Len(b.nodes) = BucketMax

\* reorder() establishes the order and keeps the rest
LEMMA ReorderOK ==
    ASSUME NEW b, SizesOK(b), NEW c \in Reorder(b)
    PROVE  BucketOK(c) /\ ListedIds(c) = ListedIds(b) /\ Len(c.nodes) = Len(b.nodes)
<1>1. b \in Buckets
  BY DEF SizesOK
<1>2. c.replacementNodes # << >> => b.replacementNodes # << >>
  <2>1. c.replacementNodes \in Seq(KadNodes) /\ b.replacementNodes \in Seq(KadNodes)
    BY <1>1, ReorderKeeps DEF Buckets
  <2> QED
    BY <1>1, <2>1, ReorderKeeps, EmptySeq
<1> QED
  BY <1>1, <1>2, ReorderKeeps DEF SizesOK, BucketOK, ListedIds

\* Branch "found" of pushNode
LEMMA RenewOK ==
    ASSUME NEW b, BucketOK(b), NEW kn \in KadNodes, NEW t \in Nat,
           NEW c \in Renew(b, kn, t)
    PROVE  BucketOK(c) /\ ListedIds(c) = ListedIds(b) /\ Len(c.nodes) = Len(b.nodes)
<1>1. PICK i \in Find(b.nodes, kn.id) :
        c \in Reorder([b EXCEPT !.nodes[i] = ResetStales(SeenNow(@, t))])
  BY DEF Renew
<1> DEFINE n == b.nodes
           d == [b EXCEPT !.nodes = [n EXCEPT ![i] = ResetStales(SeenNow(n[i], t))]]
<1>2. b \in Buckets /\ n \in Seq(KadNodes) /\ i \in DOMAIN n
  BY DEF BucketOK, Buckets, Find
<1>3. n[i] \in KadNodes
  BY <1>2, ElementOfSeq, LenProperties
<1>4. /\ ResetStales(SeenNow(n[i], t)) \in KadNodes
      /\ ResetStales(SeenNow(n[i], t)).id = n[i].id
  BY <1>3 DEF KadNodes, ResetStales, SeenNow
<1>5. /\ [n EXCEPT ![i] = ResetStales(SeenNow(n[i], t))] \in Seq(KadNodes)
      /\ Len([n EXCEPT ![i] = ResetStales(SeenNow(n[i], t))]) = Len(n)
      /\ IdsOf([n EXCEPT ![i] = ResetStales(SeenNow(n[i], t))]) = IdsOf(n)
  BY <1>2, <1>4, UpdateKeeps
<1>6. SizesOK(d) /\ ListedIds(d) = ListedIds(b) /\ Len(d.nodes) = Len(b.nodes)
  BY <1>2, <1>5 DEF SizesOK, BucketOK, Buckets, ListedIds
<1>7. c \in Reorder(d)
  BY <1>1, <1>2 DEF Buckets
<1> QED
  BY <1>6, <1>7, ReorderOK

\* Branch with room in the bucket
LEMMA AdmitOK ==
    ASSUME NEW b, BucketOK(b), NEW kn \in KadNodes, NEW c \in Admit(b, kn)
    PROVE  /\ BucketOK(c)
           /\ ListedIds(c) = ListedIds(b) \cup {kn.id}
           /\ Len(c.nodes) = Len(b.nodes) + 1
           /\ ~HasNode(b, kn)
<1> DEFINE d == [b EXCEPT !.nodes = Append(b.nodes, kn)]
<1>1. ~HasNode(b, kn) /\ Len(b.nodes) < BucketMax /\ c \in Reorder(d)
  BY DEF Admit
<1>2. b \in Buckets /\ b.nodes \in Seq(KadNodes) /\ Len(b.nodes) \in Nat
  BY LenProperties DEF BucketOK, Buckets
<1>3. /\ Append(b.nodes, kn) \in Seq(KadNodes)
      /\ Len(Append(b.nodes, kn)) = Len(b.nodes) + 1
      /\ IdsOf(Append(b.nodes, kn)) = IdsOf(b.nodes) \cup {kn.id}
  BY <1>2, AppendKeeps
<1>4. /\ d \in Buckets
      /\ d.nodes = Append(b.nodes, kn)
      /\ d.replacementNodes = b.replacementNodes
  BY <1>2, <1>3 DEF Buckets
<1>5. SizesOK(d) /\ ListedIds(d) = ListedIds(b) \cup {kn.id}
  BY <1>1, <1>2, <1>3, <1>4, BucketAssumption DEF SizesOK, BucketOK, ListedIds
<1> QED
  BY <1>1, <1>3, <1>4, <1>5, ReorderOK

\* Branch that erases the stalest node
LEMMA EvictOK ==
    ASSUME NEW b, BucketOK(b), NEW kn \in KadNodes, NEW c \in Evict(b, kn)
    PROVE  /\ BucketOK(c)
           /\ ListedIds(c) \subseteq ListedIds(b) \cup {kn.id}
           /\ Len(c.nodes) = Len(b.nodes)
<1>1. PICK i \in Stalest(b.nodes) :
        c \in Reorder([b EXCEPT !.nodes = Append(Erase(@, i), kn)])
  BY DEF Evict
<1> DEFINE e == Erase(b.nodes, i)
           d == [b EXCEPT !.nodes = Append(e, kn)]
<1>2. b \in Buckets /\ b.nodes \in Seq(KadNodes) /\ Len(b.nodes) \in Nat /\ i \in DOMAIN b.nodes
  BY LenProperties DEF BucketOK, Buckets, Stalest
<1>3. e \in Seq(KadNodes) /\ Len(e) = Len(b.nodes) - 1 /\ IdsOf(e) \subseteq IdsOf(b.nodes)
  BY <1>2, EraseKeeps
<1>4. /\ Append(e, kn) \in Seq(KadNodes)
      /\ Len(Append(e, kn)) = Len(e) + 1
      /\ IdsOf(Append(e, kn)) = IdsOf(e) \cup {kn.id}
  BY <1>3, AppendKeeps
<1>5. Len(Append(e, kn)) = Len(b.nodes)
  BY <1>2, <1>3, <1>4
<1>6. /\ d \in Buckets
      /\ d.nodes = Append(e, kn)
      /\ d.replacementNodes = b.replacementNodes
  BY <1>2, <1>4 DEF Buckets
<1>7. SizesOK(d) /\ ListedIds(d) \subseteq ListedIds(b) \cup {kn.id}
  BY <1>3, <1>4, <1>5, <1>6 DEF SizesOK, BucketOK, ListedIds
<1>8. c \in Reorder(d)
  BY <1>1, <1>2 DEF Buckets
<1> HIDE DEF d
<1> QED
  BY <1>5, <1>6, <1>7, <1>8, ReorderOK

\* Branch that keeps the node among the replacements
LEMMA ParkOK ==
    ASSUME NEW b, BucketOK(b), NEW kn \in KadNodes, NEW t \in Nat,
           NEW c \in Park(b, kn, t)
    PROVE  /\ BucketOK(c)
           /\ ListedIds(c) \subseteq ListedIds(b) \cup {kn.id}
           /\ Len(c.nodes) = Len(b.nodes)
<1> DEFINE r == b.replacementNodes
           parked ==
                 IF kn.id \in IdsOf(r)
                 THEN {[r EXCEPT ![i] = SeenNow(@, t)] : i \in Find(r, kn.id)}
                 ELSE IF Len(r) < BucketMax
                      THEN {Append(r, kn)}
                      ELSE {[r EXCEPT ![Len(r)] = kn]}
<1>1. PICK q \in parked : c \in Reorder([b EXCEPT !.replacementNodes = q])
  BY DEF Park
<1>2. ~(Len(b.nodes) < BucketMax)
  BY DEF Park
<1>3. /\ b \in Buckets /\ b.nodes \in Seq(KadNodes) /\ r \in Seq(KadNodes)
      /\ Len(r) \in Nat /\ DOMAIN r = 1 .. Len(r) /\ Len(b.nodes) \in Nat
      /\ Len(b.nodes) <= BucketMax /\ Len(r) <= BucketMax
  BY LenProperties DEF BucketOK, Buckets
<1>4. Len(b.nodes) = BucketMax
  BY <1>2, <1>3, BucketAssumption
<1>5. q \in Seq(KadNodes) /\ Len(q) <= BucketMax /\ IdsOf(q) \subseteq IdsOf(r) \cup {kn.id}
  <2>1. CASE kn.id \in IdsOf(r)
    <3>1. PICK i \in Find(r, kn.id) : q = [r EXCEPT ![i] = SeenNow(r[i], t)]
      BY <2>1
    <3>2. i \in DOMAIN r /\ r[i] \in KadNodes
      BY <1>3, <3>1, ElementOfSeq DEF Find
    <3>3. SeenNow(r[i], t) \in KadNodes /\ SeenNow(r[i], t).id = r[i].id
      BY <3>2 DEF SeenNow, KadNodes
    <3> QED
      BY <1>3, <3>1, <3>2, <3>3, UpdateKeeps
  <2>2. CASE kn.id \notin IdsOf(r) /\ Len(r) < BucketMax
    <3>1. q = Append(r, kn)
      BY <2>2
    <3> QED
      BY <1>3, <2>2, <3>1, AppendKeeps, BucketAssumption
  <2>3. CASE kn.id \notin IdsOf(r) /\ ~(Len(r) < BucketMax)
    <3>1. q = [r EXCEPT ![Len(r)] = kn]
      BY <2>3
    <3>2. q \in [1 .. Len(r) -> KadNodes]
      BY <1>3, <3>1, ElementOfSeq
    <3>3. q \in Seq(KadNodes) /\ Len(q) = Len(r)
      BY <1>3, <3>2, SeqDef, LenProperties
    <3>4. \A j \in DOMAIN q : j \in DOMAIN r /\ (q[j] = kn \/ q[j] = r[j])
      BY <1>3, <3>1, <3>2
    <3> QED
      BY <1>3, <3>3, <3>4 DEF IdsOf
  <2> QED
    BY <2>1, <2>2, <2>3
<1> DEFINE d == [b EXCEPT !.replacementNodes = q]
<1> HIDE DEF parked
<1>6. d \in Buckets /\ d.nodes = b.nodes /\ d.replacementNodes = q
  BY <1>3, <1>5 DEF Buckets
<1>7. SizesOK(d) /\ ListedIds(d) \subseteq ListedIds(b) \cup {kn.id}
  BY <1>3, <1>4, <1>5, <1>6 DEF SizesOK, ListedIds
<1>8. c \in Reorder(d)
  BY <1>1
<1> HIDE DEF d
<1> QED
  BY <1>6, <1>7, <1>8, ReorderOK

\* pushNode keeps a bucket well-formed, lists nobody else than the node pushed,
\* and never shortens the list of the nodes in use
LEMMA PushNodeOK ==
    ASSUME NEW b, BucketOK(b), NEW kn \in KadNodes, NEW t \in Nat,
           NEW c \in PushNode(b, kn, t)
    PROVE  /\ BucketOK(c)
           /\ ListedIds(c) \subseteq ListedIds(b) \cup {kn.id}
           /\ Len(c.nodes) = Len(b.nodes) \/ Len(c.nodes) = Len(b.nodes) + 1
           /\ Len(c.nodes) # Len(b.nodes) => ~HasNode(b, kn)
<1>1. CASE c \in Renew(b, kn, t)
  BY <1>1, RenewOK
<1>2. CASE c \in Admit(b, kn)
  BY <1>2, AdmitOK
<1>3. CASE c \in Evict(b, kn)
  BY <1>3, EvictOK
<1>4. CASE c \in Park(b, kn, t)
  BY <1>4, ParkOK
<1> QED
  BY <1>1, <1>2, <1>3, <1>4 DEF PushNode

\* removeNode keeps a bucket well-formed and its list as long, and lists nobody new
LEMMA RemoveNodeOK ==
    ASSUME NEW b, BucketOK(b), NEW id, NEW c \in RemoveNode(b, id)
    PROVE  BucketOK(c) /\ ListedIds(c) \subseteq ListedIds(b) /\ Len(c.nodes) = Len(b.nodes)
<1> DEFINE n == b.nodes
           r == b.replacementNodes
<1>1. /\ b \in Buckets /\ n \in Seq(KadNodes) /\ r \in Seq(KadNodes)
      /\ Len(n) \in Nat /\ DOMAIN n = 1 .. Len(n) /\ Len(r) \in Nat
  BY LenProperties DEF BucketOK, Buckets
<1>2. CASE id \notin IdsOf(n)
  BY <1>2 DEF RemoveNode
<1>3. CASE id \in IdsOf(n) /\ r # << >>
  <2>1. PICK i \in Find(n, id) :
          c \in Reorder([nodes |-> Append(Erase(n, i), Head(r)), replacementNodes |-> Tail(r)])
    BY <1>3 DEF RemoveNode
  <2> DEFINE e == Erase(n, i)
             d == [nodes |-> Append(e, Head(r)), replacementNodes |-> Tail(r)]
  <2>2. i \in DOMAIN n
    BY DEF Find
  <2>3. e \in Seq(KadNodes) /\ Len(e) = Len(n) - 1 /\ IdsOf(e) \subseteq IdsOf(n)
    BY <1>1, <2>2, EraseKeeps
  <2>4. /\ Head(r) \in KadNodes /\ Tail(r) \in Seq(KadNodes) /\ Len(Tail(r)) = Len(r) - 1
        /\ Head(r).id \in IdsOf(r) /\ IdsOf(Tail(r)) \subseteq IdsOf(r)
    <3>1. /\ Head(r) = r[1] /\ Tail(r) \in Seq(KadNodes) /\ Len(Tail(r)) = Len(r) - 1
          /\ \A j \in 1 .. Len(Tail(r)) : Tail(r)[j] = r[j + 1]
          /\ Head(r) \in KadNodes
      BY <1>1, <1>3, HeadTailProperties
    <3>2. Len(r) > 0 /\ DOMAIN r = 1 .. Len(r) /\ DOMAIN Tail(r) = 1 .. Len(r) - 1
      BY <1>1, <1>3, <3>1, LenProperties, EmptySeq
    <3>3. \A j \in DOMAIN Tail(r) : j + 1 \in DOMAIN r
      BY <1>1, <3>2
    <3> QED
      BY <3>1, <3>2, <3>3 DEF IdsOf
  <2>5. /\ Append(e, Head(r)) \in Seq(KadNodes)
        /\ Len(Append(e, Head(r))) = Len(e) + 1
        /\ IdsOf(Append(e, Head(r))) = IdsOf(e) \cup {Head(r).id}
    BY <2>3, <2>4, AppendKeeps
  <2>6. Len(Append(e, Head(r))) = Len(n)
    BY <1>1, <2>3, <2>5
  <2>7. SizesOK(d) /\ ListedIds(d) \subseteq ListedIds(b) /\ Len(d.nodes) = Len(n)
    BY <1>1, <1>3, <2>3, <2>4, <2>5, <2>6, BucketAssumption DEF SizesOK, BucketOK, Buckets, ListedIds
  <2> HIDE DEF d
  <2> QED
    BY <2>1, <2>7, ReorderOK DEF d
<1>4. CASE id \in IdsOf(n) /\ r = << >>
  <2>1. PICK i \in Find(n, id) : c = [b EXCEPT !.nodes[i] = IncrementStales(@)]
    BY <1>4 DEF RemoveNode
  <2>2. i \in DOMAIN n /\ n[i] \in KadNodes
    BY <1>1, ElementOfSeq DEF Find
  <2>3. /\ IncrementStales(n[i]) \in KadNodes /\ IncrementStales(n[i]).id = n[i].id
        /\ IncrementStales(n[i]).lastSeen = n[i].lastSeen
    BY <2>2 DEF IncrementStales, KadNodes
  <2> DEFINE m == [n EXCEPT ![i] = IncrementStales(n[i])]
  <2>4. m \in Seq(KadNodes) /\ Len(m) = Len(n) /\ IdsOf(m) = IdsOf(n) /\ DOMAIN m = DOMAIN n
    BY <1>1, <2>2, <2>3, UpdateKeeps
  <2>5. \A j \in DOMAIN n : m[j].lastSeen = n[j].lastSeen
    BY <1>1, <2>2, <2>3
  <2>6. RecentFirst(m)
    BY <2>4, <2>5 DEF RecentFirst, BucketOK
  <2>7. c.nodes = m /\ c.replacementNodes = r /\ c \in Buckets
    BY <1>1, <2>1, <2>4 DEF Buckets
  <2> HIDE DEF m
  <2> QED
    BY <1>4, <2>4, <2>6, <2>7 DEF BucketOK, ListedIds
<1> QED
  BY <1>2, <1>3, <1>4

-----------------------------------------------------------------------------
(* Why a node leaves the list of the nodes in use *)

\* The change from b to c never shortens the list of the nodes in use, and drops
\* a node only if it was stale or for the first replacement
CauseOK(b, c) ==
    /\ Len(c.nodes) >= Len(b.nodes)
    /\ \A i \in DOMAIN b.nodes :
        b.nodes[i].id \notin IdsOf(c.nodes) =>
            \/ b.nodes[i].stales >= StalesThr
            \/ /\ b.replacementNodes # << >>
               /\ Head(b.replacementNodes).id \in IdsOf(c.nodes)
               /\ Len(c.replacementNodes) < Len(b.replacementNodes)

\* erase() keeps the nodes of the other places
LEMMA EraseCovers ==
    ASSUME NEW s \in Seq(KadNodes), NEW i \in DOMAIN s, NEW j \in DOMAIN s, j # i
    PROVE  s[j].id \in IdsOf(Erase(s, i))
<1>1. Len(s) \in Nat /\ DOMAIN s = 1 .. Len(s)
  BY LenProperties
<1> DEFINE k == IF j < i THEN j ELSE j - 1
<1>2. k \in 1 .. (Len(s) - 1) /\ (IF k < i THEN k ELSE k + 1) = j
  BY <1>1
<1>3. k \in DOMAIN Erase(s, i) /\ Erase(s, i)[k] = s[j]
  BY <1>2 DEF Erase
<1> QED
  BY <1>3 DEF IdsOf

\* pushNode displaces nobody but a stale node
LEMMA PushNodeCause ==
    ASSUME NEW b, BucketOK(b), NEW kn \in KadNodes, NEW t \in Nat,
           NEW c \in PushNode(b, kn, t)
    PROVE  CauseOK(b, c)
<1>1. /\ b \in Buckets /\ b.nodes \in Seq(KadNodes)
      /\ Len(b.nodes) \in Nat /\ DOMAIN b.nodes = 1 .. Len(b.nodes)
  BY LenProperties DEF BucketOK, Buckets
<1>2. Len(c.nodes) >= Len(b.nodes)
  BY <1>1, PushNodeOK
<1>3. ASSUME NEW j \in DOMAIN b.nodes, b.nodes[j].id \notin IdsOf(c.nodes)
      PROVE  b.nodes[j].stales >= StalesThr
  <2>1. b.nodes[j].id \in IdsOf(b.nodes)
    BY DEF IdsOf
  <2>2. CASE c \in Renew(b, kn, t)
    <3>1. PICK i \in Find(b.nodes, kn.id) :
            c \in Reorder([b EXCEPT !.nodes[i] = ResetStales(SeenNow(@, t))])
      BY <2>2 DEF Renew
    <3> DEFINE n == b.nodes
               m == [n EXCEPT ![i] = ResetStales(SeenNow(n[i], t))]
               d == [b EXCEPT !.nodes = m]
    <3>2. i \in DOMAIN n /\ n[i] \in KadNodes
      BY <1>1, ElementOfSeq DEF Find
    <3>3. /\ ResetStales(SeenNow(n[i], t)) \in KadNodes
          /\ ResetStales(SeenNow(n[i], t)).id = n[i].id
      BY <3>2 DEF KadNodes, ResetStales, SeenNow
    <3>4. m \in Seq(KadNodes) /\ IdsOf(m) = IdsOf(n)
      BY <1>1, <3>2, <3>3, UpdateKeeps
    <3>5. d \in Buckets /\ d.nodes = m
      BY <1>1, <3>4 DEF Buckets
    <3>6. c \in Reorder(d)
      BY <3>1, <1>1 DEF Buckets
    <3> HIDE DEF d, m
    <3>7. IdsOf(c.nodes) = IdsOf(b.nodes)
      BY <3>4, <3>5, <3>6, ReorderKeeps
    <3> QED
      BY <1>3, <2>1, <3>7
  <2>3. CASE c \in Admit(b, kn)
    <3> DEFINE d == [b EXCEPT !.nodes = Append(b.nodes, kn)]
    <3>1. c \in Reorder(d)
      BY <2>3 DEF Admit
    <3>2. /\ Append(b.nodes, kn) \in Seq(KadNodes)
          /\ IdsOf(Append(b.nodes, kn)) = IdsOf(b.nodes) \cup {kn.id}
      BY <1>1, AppendKeeps
    <3>3. d \in Buckets /\ d.nodes = Append(b.nodes, kn)
      BY <1>1, <3>2 DEF Buckets
    <3> HIDE DEF d
    <3>4. IdsOf(c.nodes) = IdsOf(b.nodes) \cup {kn.id}
      BY <3>1, <3>2, <3>3, ReorderKeeps
    <3> QED
      BY <1>3, <2>1, <3>4
  <2>4. CASE c \in Evict(b, kn)
    <3>1. PICK i \in Stalest(b.nodes) :
            c \in Reorder([b EXCEPT !.nodes = Append(Erase(@, i), kn)])
      BY <2>4 DEF Evict
    <3> DEFINE e == Erase(b.nodes, i)
               d == [b EXCEPT !.nodes = Append(e, kn)]
    <3>2. i \in DOMAIN b.nodes /\ b.nodes[i].stales >= StalesThr
      BY DEF Stalest
    <3>3. e \in Seq(KadNodes)
      BY <1>1, <3>2, EraseKeeps
    <3>4. Append(e, kn) \in Seq(KadNodes) /\ IdsOf(Append(e, kn)) = IdsOf(e) \cup {kn.id}
      BY <3>3, AppendKeeps
    <3>5. d \in Buckets /\ d.nodes = Append(e, kn)
      BY <1>1, <3>4 DEF Buckets
    <3>6. c \in Reorder(d)
      BY <1>1, <3>1 DEF Buckets
    <3>7. IdsOf(c.nodes) = IdsOf(e) \cup {kn.id}
      <4> HIDE DEF d
      <4> QED
        BY <3>4, <3>5, <3>6, ReorderKeeps
    <3>8. j = i
      BY <1>1, <1>3, <3>2, <3>7, EraseCovers
    <3> QED
      BY <3>2, <3>8
  <2>5. CASE c \in Park(b, kn, t)
    <3>1. PICK q : c \in Reorder([b EXCEPT !.replacementNodes = q])
      BY <2>5 DEF Park
    <3>2. PICK n \in Sorted(b.nodes) : c.nodes = n
      BY <1>1, <3>1 DEF Reorder, Buckets
    <3>3. IdsOf(c.nodes) = IdsOf(b.nodes)
      BY <1>1, <3>2, SortedKeeps
    <3> QED
      BY <1>3, <2>1, <3>3
  <2> QED
    BY <2>2, <2>3, <2>4, <2>5 DEF PushNode
<1> QED
  BY <1>2, <1>3 DEF CauseOK

\* removeNode displaces the node for the first replacement
LEMMA RemoveNodeCause ==
    ASSUME NEW b, BucketOK(b), NEW id, NEW c \in RemoveNode(b, id)
    PROVE  CauseOK(b, c)
<1> DEFINE n == b.nodes
           r == b.replacementNodes
<1>1. /\ b \in Buckets /\ n \in Seq(KadNodes) /\ r \in Seq(KadNodes)
      /\ Len(n) \in Nat /\ DOMAIN n = 1 .. Len(n) /\ Len(r) \in Nat
  BY LenProperties DEF BucketOK, Buckets
<1>2. Len(c.nodes) >= Len(n)
  BY <1>1, RemoveNodeOK
<1>3. ASSUME NEW j \in DOMAIN n, n[j].id \notin IdsOf(c.nodes)
      PROVE  r # << >> /\ Head(r).id \in IdsOf(c.nodes) /\ Len(c.replacementNodes) < Len(r)
  <2>1. n[j].id \in IdsOf(n)
    BY DEF IdsOf
  <2>2. CASE id \notin IdsOf(n)
    BY <1>3, <2>1, <2>2 DEF RemoveNode
  <2>3. CASE id \in IdsOf(n) /\ r # << >>
    <3>1. PICK i \in Find(n, id) :
            c \in Reorder([nodes |-> Append(Erase(n, i), Head(r)), replacementNodes |-> Tail(r)])
      BY <2>3 DEF RemoveNode
    <3> DEFINE e == Erase(n, i)
               d == [nodes |-> Append(e, Head(r)), replacementNodes |-> Tail(r)]
    <3>2. e \in Seq(KadNodes)
      BY <1>1, EraseKeeps DEF Find
    <3>3. Head(r) \in KadNodes /\ Tail(r) \in Seq(KadNodes) /\ Len(Tail(r)) = Len(r) - 1
      BY <1>1, <2>3, HeadTailProperties
    <3>4. /\ Append(e, Head(r)) \in Seq(KadNodes)
          /\ IdsOf(Append(e, Head(r))) = IdsOf(e) \cup {Head(r).id}
      BY <3>2, <3>3, AppendKeeps
    <3>5. /\ d \in Buckets /\ d.nodes = Append(e, Head(r))
          /\ d.replacementNodes = Tail(r)
      BY <3>3, <3>4 DEF Buckets
    <3> HIDE DEF d
    <3>6. c \in Reorder(d)
      BY <3>1 DEF d
    <3>7. IdsOf(c.nodes) = IdsOf(e) \cup {Head(r).id} /\ Len(c.replacementNodes) = Len(r) - 1
      BY <3>3, <3>4, <3>5, <3>6, ReorderKeeps
    <3> QED
      BY <1>1, <2>3, <3>7
  <2>4. CASE id \in IdsOf(n) /\ r = << >>
    <3>1. PICK i \in Find(n, id) : c = [b EXCEPT !.nodes[i] = IncrementStales(@)]
      BY <2>4 DEF RemoveNode
    <3>2. i \in DOMAIN n /\ n[i] \in KadNodes
      BY <1>1, ElementOfSeq DEF Find
    <3>3. IncrementStales(n[i]) \in KadNodes /\ IncrementStales(n[i]).id = n[i].id
      BY <3>2 DEF IncrementStales, KadNodes
    <3>4. IdsOf([n EXCEPT ![i] = IncrementStales(n[i])]) = IdsOf(n)
      BY <1>1, <3>2, <3>3, UpdateKeeps
    <3>5. c.nodes = [n EXCEPT ![i] = IncrementStales(n[i])]
      BY <1>1, <3>1 DEF Buckets
    <3> QED
      BY <1>3, <2>1, <3>4, <3>5
  <2> QED
    BY <2>2, <2>3, <2>4
<1> QED
  BY <1>2, <1>3 DEF CauseOK

-----------------------------------------------------------------------------
(* Buckets that are only given nodes just heard of *)

AllGood(s) == \A i \in DOMAIN s : s[i].stales < StalesThr

\* Nobody is listed twice, and while nodes wait, every listed node is good: the
\* branch that evicts a stale node, which does not look among the
\* replacements, is then taken only when there are none.
FreshOK(b) ==
    /\ Distinct(b.nodes)
    /\ Distinct(b.replacementNodes)
    /\ IdsOf(b.nodes) \cap IdsOf(b.replacementNodes) = {}
    /\ b.replacementNodes # << >> => AllGood(b.nodes)
    /\ AllGood(b.replacementNodes)

\* A list where no node can be evicted has only good nodes
LEMMA NobodyStalest ==
    ASSUME NEW s \in Seq(KadNodes), Stalest(s) = {}
    PROVE  AllGood(s)
<1>1. DOMAIN s = 1 .. Len(s) /\ Len(s) \in Nat /\ \A i \in DOMAIN s : s[i] \in KadNodes
  BY LenProperties, ElementOfSeq
<1>2. \A i \in DOMAIN s : s[i].stales \in Nat
  BY <1>1 DEF KadNodes
<1> SUFFICES ASSUME NEW k \in DOMAIN s, ~(s[k].stales < StalesThr) PROVE FALSE
  BY DEF AllGood
<1> DEFINE Worse(i) == {j \in DOMAIN s : s[j].stales > s[i].stales}
<1>3. ASSUME NEW i \in DOMAIN s
      PROVE  IsFiniteSet(Worse(i)) /\ Cardinality(Worse(i)) \in Nat
  <2>1. IsFiniteSet(DOMAIN s)
    BY <1>1, FS_Interval
  <2>2. Worse(i) \subseteq DOMAIN s
    OBVIOUS
  <2> HIDE DEF Worse
  <2> QED
    BY <2>1, <2>2, FS_Subset, FS_CardinalityType
<1>4. PICK w \in DOMAIN s :
        \A i \in DOMAIN s : Cardinality(Worse(w)) <= Cardinality(Worse(i))
  <2> DEFINE T == {Cardinality(Worse(i)) : i \in DOMAIN s}
  <2> HIDE DEF Worse
  <2>1. T \subseteq Nat /\ T # {}
    BY <1>3
  <2>2. PICK t \in T : \A u \in T : t <= u
    <3> HIDE DEF T
    <3> QED
      BY <2>1, LeastElement
  <2> QED
    BY <2>2
<1>5. ASSUME NEW j \in DOMAIN s, ~(s[j].stales <= s[w].stales) PROVE FALSE
  <2>1. Worse(j) \subseteq Worse(w) /\ j \in Worse(w) /\ j \notin Worse(j)
    BY <1>2, <1>5
  <2> HIDE DEF Worse
  <2>2. Worse(j) # Worse(w)
    BY <2>1
  <2>3. Cardinality(Worse(j)) < Cardinality(Worse(w))
    BY <1>3, <2>1, <2>2, FS_Subset
  <2> QED
    BY <1>3, <1>4, <2>3
<1> DEFINE worst == {i \in DOMAIN s : s[i].stales = s[w].stales}
<1>6. worst \subseteq Nat /\ worst # {}
  BY <1>1
<1>7. PICK f \in worst : \A i \in worst : f <= i
  <2> HIDE DEF worst
  <2> QED
    BY <1>6, LeastElement
<1>8. f \in Stalest(s)
  <2>1. f \in DOMAIN s /\ s[f].stales = s[w].stales
    BY <1>7
  <2>2. \A j \in DOMAIN s : s[j].stales <= s[f].stales
    BY <1>5, <2>1
  <2>3. s[f].stales >= StalesThr
    BY <1>2, <2>1, <2>2, BucketAssumption
  <2>4. \A j \in DOMAIN s : j < f => s[j].stales < s[f].stales
    <3> SUFFICES ASSUME NEW j \in DOMAIN s, j < f, s[j].stales = s[w].stales PROVE FALSE
      BY <1>2, <2>1, <2>2
    <3>1. j \in worst
      OBVIOUS
    <3> QED
      BY <1>1, <1>6, <1>7, <3>1
  <2> QED
    BY <2>1, <2>2, <2>3, <2>4 DEF Stalest
<1> QED
  BY <1>8

LEMMA SortedGood ==
    ASSUME NEW s \in Seq(KadNodes), AllGood(s), NEW t \in Sorted(s)
    PROVE  AllGood(t)
<1>1. \A i \in DOMAIN t : \E j \in DOMAIN s : t[i] = s[j]
  BY SortedKeeps
<1> QED
  BY <1>1 DEF AllGood

LEMMA ReorderFresh ==
    ASSUME NEW b \in Buckets, FreshOK(b), NEW c \in Reorder(b)
    PROVE  FreshOK(c)
<1>1. b.nodes \in Seq(KadNodes) /\ b.replacementNodes \in Seq(KadNodes)
  BY DEF Buckets
<1>2. /\ c.nodes \in Sorted(b.nodes) /\ c.replacementNodes \in Sorted(b.replacementNodes)
      /\ IdsOf(c.nodes) = IdsOf(b.nodes)
      /\ IdsOf(c.replacementNodes) = IdsOf(b.replacementNodes)
      /\ Len(c.replacementNodes) = Len(b.replacementNodes)
      /\ c \in Buckets
  BY ReorderKeeps
<1>3. Distinct(c.nodes) /\ Distinct(c.replacementNodes)
  BY <1>1, <1>2, SortedKeeps DEF FreshOK
<1>4. AllGood(c.replacementNodes)
  BY <1>1, <1>2, SortedGood DEF FreshOK
<1>5. c.replacementNodes # << >> => b.replacementNodes # << >>
  BY <1>1, <1>2, EmptySeq DEF Buckets
<1>6. c.replacementNodes # << >> => AllGood(c.nodes)
  BY <1>1, <1>2, <1>5, SortedGood DEF FreshOK
<1> QED
  BY <1>2, <1>3, <1>4, <1>6 DEF FreshOK

LEMMA AppendFresh ==
    ASSUME NEW s \in Seq(KadNodes), NEW kn \in KadNodes
    PROVE  /\ Distinct(s) /\ kn.id \notin IdsOf(s) => Distinct(Append(s, kn))
           /\ AllGood(s) /\ kn.stales < StalesThr => AllGood(Append(s, kn))
<1>1. DOMAIN s = 1 .. Len(s) /\ Len(s) \in Nat
  BY LenProperties
<1>2. /\ DOMAIN Append(s, kn) = 1 .. Len(s) + 1
      /\ \A i \in DOMAIN s : Append(s, kn)[i] = s[i]
      /\ Append(s, kn)[Len(s) + 1] = kn
  BY AppendKeeps
<1>3. \A i \in DOMAIN Append(s, kn) : i \in DOMAIN s \/ i = Len(s) + 1
  BY <1>1, <1>2
<1>4. ASSUME Distinct(s), kn.id \notin IdsOf(s) PROVE Distinct(Append(s, kn))
  <2>1. \A i \in DOMAIN s : s[i].id # kn.id
    BY <1>4 DEF IdsOf
  <2> QED
    BY <1>2, <1>3, <1>4, <2>1 DEF Distinct
<1>5. ASSUME AllGood(s), kn.stales < StalesThr PROVE AllGood(Append(s, kn))
  BY <1>2, <1>3, <1>5 DEF AllGood
<1> QED
  BY <1>4, <1>5

LEMMA EraseFresh ==
    ASSUME NEW s \in Seq(KadNodes), NEW i \in DOMAIN s
    PROVE  /\ Distinct(s) => Distinct(Erase(s, i)) /\ s[i].id \notin IdsOf(Erase(s, i))
           /\ AllGood(s) => AllGood(Erase(s, i))
<1> DEFINE e == Erase(s, i)
           k(j) == IF j < i THEN j ELSE j + 1
<1>1. /\ DOMAIN e = 1 .. (Len(s) - 1)
      /\ \A j \in DOMAIN e : k(j) \in DOMAIN s /\ k(j) # i /\ e[j] = s[k(j)]
  <2>1. DOMAIN e = 1 .. (Len(s) - 1)
    BY EraseKeeps
  <2>2. \A j \in DOMAIN e : \E l \in DOMAIN s : l # i /\ l = k(j) /\ e[j] = s[l]
    BY EraseKeeps
  <2> QED
    BY <2>1, <2>2
<1>2. Len(s) \in Nat /\ DOMAIN s = 1 .. Len(s)
  BY LenProperties
<1>3. \A j, l \in DOMAIN e : k(j) = k(l) => j = l
  BY <1>1, <1>2
<1> HIDE DEF e, k
<1>4. ASSUME Distinct(s) PROVE Distinct(e)
  BY <1>1, <1>3, <1>4 DEF Distinct
<1>5. ASSUME Distinct(s) PROVE s[i].id \notin IdsOf(e)
  BY <1>1, <1>5 DEF Distinct, IdsOf
<1>6. ASSUME AllGood(s) PROVE AllGood(e)
  BY <1>1, <1>6 DEF AllGood
<1> QED
  BY <1>4, <1>5, <1>6 DEF e

\* A node just heard of keeps the bucket free of duplicates
LEMMA PushNodeFresh ==
    ASSUME NEW b, BucketOK(b), FreshOK(b), NEW kn \in KadNodes, kn.stales = 0,
           NEW t \in Nat, NEW c \in PushNode(b, kn, t)
    PROVE  FreshOK(c)
<1> DEFINE n == b.nodes
           r == b.replacementNodes
<1>1. /\ b \in Buckets /\ n \in Seq(KadNodes) /\ r \in Seq(KadNodes)
      /\ Len(n) \in Nat /\ DOMAIN n = 1 .. Len(n)
      /\ Len(r) \in Nat /\ DOMAIN r = 1 .. Len(r)
      /\ kn.stales < StalesThr
  BY LenProperties, BucketAssumption DEF BucketOK, Buckets
<1>2. CASE c \in Renew(b, kn, t)
  <2>1. PICK i \in Find(n, kn.id) :
          c \in Reorder([b EXCEPT !.nodes[i] = ResetStales(SeenNow(@, t))])
    BY <1>2 DEF Renew
  <2> DEFINE x == ResetStales(SeenNow(n[i], t))
             m == [n EXCEPT ![i] = x]
             d == [b EXCEPT !.nodes = m]
  <2>2. i \in DOMAIN n /\ n[i] \in KadNodes
    BY <1>1, ElementOfSeq DEF Find
  <2>3. x \in KadNodes /\ x.id = n[i].id /\ x.stales = 0
    BY <2>2 DEF KadNodes, ResetStales, SeenNow
  <2> HIDE DEF x
  <2>4. /\ m \in Seq(KadNodes) /\ IdsOf(m) = IdsOf(n) /\ DOMAIN m = DOMAIN n
        /\ \A j \in DOMAIN n : m[j].id = n[j].id
    BY <1>1, <2>2, <2>3, UpdateKeeps
  <2>5. \A j \in DOMAIN n : m[j] = x \/ m[j] = n[j]
    BY <1>1, <2>2
  <2>6. AllGood(n) => AllGood(m)
    BY <2>3, <2>4, <2>5, BucketAssumption DEF AllGood
  <2>7. Distinct(n) => Distinct(m)
    BY <2>4 DEF Distinct
  <2>8. d \in Buckets /\ d.nodes = m /\ d.replacementNodes = r
    BY <1>1, <2>4 DEF Buckets
  <2>9. c \in Reorder(d)
    BY <1>1, <2>1 DEF Buckets, x
  <2> HIDE DEF d, m
  <2>10. FreshOK(d)
    BY <2>4, <2>6, <2>7, <2>8 DEF FreshOK
  <2> QED
    BY <2>8, <2>9, <2>10, ReorderFresh
<1>3. CASE c \in Admit(b, kn)
  <2> DEFINE m == Append(n, kn)
             d == [b EXCEPT !.nodes = m]
  <2>1. c \in Reorder(d) /\ kn.id \notin IdsOf(n) /\ Len(n) < BucketMax
    BY <1>3 DEF Admit, HasNode
  <2>2. m \in Seq(KadNodes) /\ Distinct(m)
    BY <1>1, <2>1, AppendKeeps, AppendFresh DEF FreshOK
  <2>3. r = << >>
    BY <1>1, <2>1, BucketAssumption DEF BucketOK
  <2>4. d \in Buckets /\ d.nodes = m /\ d.replacementNodes = r
    BY <1>1, <2>2 DEF Buckets
  <2> HIDE DEF d, m
  <2>5. FreshOK(d)
    BY <2>2, <2>3, <2>4 DEF FreshOK, IdsOf
  <2> QED
    BY <2>1, <2>4, <2>5, ReorderFresh
<1>4. CASE c \in Evict(b, kn)
  <2>1. PICK i \in Stalest(n) :
          c \in Reorder([b EXCEPT !.nodes = Append(Erase(@, i), kn)])
    BY <1>4 DEF Evict
  <2>2. i \in DOMAIN n /\ n[i].stales >= StalesThr /\ kn.id \notin IdsOf(n)
    BY <1>4 DEF Stalest, Evict, HasNode
  <2>3. r = << >>
    <3>1. n[i] \in KadNodes
      BY <1>1, <2>2, ElementOfSeq
    <3>2. n[i].stales \in Nat
      BY <3>1 DEF KadNodes
    <3> QED
      BY <2>2, <3>2, BucketAssumption DEF FreshOK, AllGood
  <2> DEFINE e == Erase(n, i)
             m == Append(e, kn)
             d == [b EXCEPT !.nodes = m]
  <2>4. e \in Seq(KadNodes) /\ Distinct(e) /\ kn.id \notin IdsOf(e)
    BY <1>1, <2>2, EraseKeeps, EraseFresh DEF FreshOK
  <2>5. m \in Seq(KadNodes) /\ Distinct(m)
    BY <2>4, AppendKeeps, AppendFresh
  <2>6. d \in Buckets /\ d.nodes = m /\ d.replacementNodes = r
    BY <1>1, <2>5 DEF Buckets
  <2>7. c \in Reorder(d)
    BY <1>1, <2>1 DEF Buckets
  <2> HIDE DEF d, m
  <2>8. FreshOK(d)
    BY <2>3, <2>5, <2>6 DEF FreshOK, IdsOf
  <2> QED
    BY <2>6, <2>7, <2>8, ReorderFresh
<1>5. CASE c \in Park(b, kn, t)
  <2> DEFINE parked ==
                 IF kn.id \in IdsOf(r)
                 THEN {[r EXCEPT ![i] = SeenNow(@, t)] : i \in Find(r, kn.id)}
                 ELSE IF Len(r) < BucketMax
                      THEN {Append(r, kn)}
                      ELSE {[r EXCEPT ![Len(r)] = kn]}
  <2>1. PICK q \in parked : c \in Reorder([b EXCEPT !.replacementNodes = q])
    BY <1>5 DEF Park
  <2>2. Stalest(n) = {} /\ kn.id \notin IdsOf(n)
    BY <1>5 DEF Park, HasNode
  <2>3. /\ q \in Seq(KadNodes) /\ Distinct(q) /\ AllGood(q)
        /\ IdsOf(q) \subseteq IdsOf(r) \cup {kn.id}
    <3>1. CASE kn.id \in IdsOf(r)
      <4>1. PICK i \in Find(r, kn.id) : q = [r EXCEPT ![i] = SeenNow(r[i], t)]
        BY <3>1
      <4>2. i \in DOMAIN r /\ r[i] \in KadNodes
        BY <1>1, ElementOfSeq DEF Find
      <4> DEFINE x == SeenNow(r[i], t)
      <4>3. x \in KadNodes /\ x.id = r[i].id /\ x.stales = r[i].stales
        BY <4>2 DEF SeenNow, KadNodes
      <4> HIDE DEF x
      <4>4. q = [r EXCEPT ![i] = x]
        BY <4>1 DEF x
      <4>5. /\ q \in Seq(KadNodes) /\ IdsOf(q) = IdsOf(r) /\ DOMAIN q = DOMAIN r
            /\ \A j \in DOMAIN r : q[j].id = r[j].id
        BY <1>1, <4>2, <4>3, <4>4, UpdateKeeps
      <4>6. \A j \in DOMAIN r : q[j].stales = r[j].stales
        BY <1>1, <4>2, <4>3, <4>4
      <4>7. Distinct(q)
        BY <4>5 DEF Distinct, FreshOK
      <4>8. AllGood(q)
        BY <4>5, <4>6 DEF AllGood, FreshOK
      <4> QED
        BY <4>5, <4>7, <4>8
    <3>2. CASE kn.id \notin IdsOf(r) /\ Len(r) < BucketMax
      <4>1. q = Append(r, kn)
        BY <3>2
      <4> QED
        BY <1>1, <3>2, <4>1, AppendKeeps, AppendFresh DEF FreshOK
    <3>3. CASE kn.id \notin IdsOf(r) /\ ~(Len(r) < BucketMax)
      <4>1. q = [r EXCEPT ![Len(r)] = kn]
        BY <3>3
      <4>2. q \in [1 .. Len(r) -> KadNodes]
        BY <1>1, <4>1, ElementOfSeq
      <4>3. q \in Seq(KadNodes) /\ DOMAIN q = DOMAIN r
        BY <1>1, <4>2, SeqDef
      <4>4. \A j \in DOMAIN r : IF j = Len(r) THEN q[j] = kn ELSE q[j] = r[j]
        BY <1>1, <4>1
      <4>5. \A j \in DOMAIN r : r[j].id # kn.id
        BY <3>3 DEF IdsOf
      <4>6. Distinct(q)
        BY <4>3, <4>4, <4>5 DEF Distinct, FreshOK
      <4>7. AllGood(q)
        BY <1>1, <4>3, <4>4 DEF AllGood, FreshOK
      <4>8. IdsOf(q) \subseteq IdsOf(r) \cup {kn.id}
        BY <4>3, <4>4 DEF IdsOf
      <4> QED
        BY <4>3, <4>6, <4>7, <4>8
    <3> QED
      BY <3>1, <3>2, <3>3
  <2> HIDE DEF parked
  <2>4. AllGood(n)
    BY <1>1, <2>2, NobodyStalest
  <2> DEFINE d == [b EXCEPT !.replacementNodes = q]
  <2>5. d \in Buckets /\ d.nodes = n /\ d.replacementNodes = q
    BY <1>1, <2>3 DEF Buckets
  <2>6. c \in Reorder(d)
    BY <2>1
  <2> HIDE DEF d
  <2>7. FreshOK(d)
    BY <2>2, <2>3, <2>4, <2>5 DEF FreshOK
  <2> QED
    BY <2>5, <2>6, <2>7, ReorderFresh
<1> QED
  BY <1>2, <1>3, <1>4, <1>5 DEF PushNode

\* removeNode keeps the bucket free of duplicates
LEMMA RemoveNodeFresh ==
    ASSUME NEW b, BucketOK(b), FreshOK(b), NEW id, NEW c \in RemoveNode(b, id)
    PROVE  FreshOK(c)
<1> DEFINE n == b.nodes
           r == b.replacementNodes
<1>1. /\ b \in Buckets /\ n \in Seq(KadNodes) /\ r \in Seq(KadNodes)
      /\ Len(n) \in Nat /\ DOMAIN n = 1 .. Len(n)
      /\ Len(r) \in Nat /\ DOMAIN r = 1 .. Len(r)
  BY LenProperties DEF BucketOK, Buckets
<1>2. CASE id \notin IdsOf(n)
  BY <1>2 DEF RemoveNode
<1>3. CASE id \in IdsOf(n) /\ r # << >>
  <2>1. PICK i \in Find(n, id) :
          c \in Reorder([nodes |-> Append(Erase(n, i), Head(r)), replacementNodes |-> Tail(r)])
    BY <1>3 DEF RemoveNode
  <2>2. i \in DOMAIN n /\ Len(r) > 0
    BY <1>1, <1>3, EmptySeq DEF Find
  <2> DEFINE e == Erase(n, i)
             d == [nodes |-> Append(e, Head(r)), replacementNodes |-> Tail(r)]
  <2>3. /\ Head(r) = r[1] /\ Head(r) \in KadNodes
        /\ Tail(r) \in Seq(KadNodes) /\ Len(Tail(r)) = Len(r) - 1
        /\ \A j \in 1 .. Len(Tail(r)) : Tail(r)[j] = r[j + 1]
    BY <1>1, <1>3, HeadTailProperties
  <2>4. /\ DOMAIN Tail(r) = 1 .. (Len(r) - 1)
        /\ \A j \in DOMAIN Tail(r) : j + 1 \in DOMAIN r /\ Tail(r)[j] = r[j + 1]
    BY <1>1, <2>2, <2>3, LenProperties
  <2>5. Distinct(Tail(r)) /\ AllGood(Tail(r)) /\ IdsOf(Tail(r)) \subseteq IdsOf(r)
    <3>1. Distinct(Tail(r))
      BY <1>1, <2>4 DEF FreshOK, Distinct
    <3>2. AllGood(Tail(r))
      BY <2>4 DEF FreshOK, AllGood
    <3> QED
      BY <2>4, <3>1, <3>2 DEF IdsOf
  <2>6. Head(r).id \in IdsOf(r) /\ Head(r).id \notin IdsOf(Tail(r)) /\ Head(r).stales < StalesThr
    <3>1. 1 \in DOMAIN r
      BY <1>1, <2>2
    <3>2. \A j \in DOMAIN Tail(r) : Tail(r)[j].id # r[1].id
      BY <1>1, <2>4, <3>1 DEF FreshOK, Distinct
    <3> QED
      BY <2>3, <3>1, <3>2 DEF IdsOf, FreshOK, AllGood
  <2>7. e \in Seq(KadNodes) /\ Distinct(e) /\ AllGood(e) /\ IdsOf(e) \subseteq IdsOf(n)
    BY <1>1, <1>3, <2>2, EraseKeeps, EraseFresh DEF FreshOK
  <2>8. Head(r).id \notin IdsOf(e)
    BY <2>6, <2>7 DEF FreshOK
  <2>9. /\ Append(e, Head(r)) \in Seq(KadNodes)
        /\ Distinct(Append(e, Head(r))) /\ AllGood(Append(e, Head(r)))
        /\ IdsOf(Append(e, Head(r))) = IdsOf(e) \cup {Head(r).id}
    BY <2>3, <2>6, <2>7, <2>8, AppendKeeps, AppendFresh
  <2>10. IdsOf(Append(e, Head(r))) \cap IdsOf(Tail(r)) = {}
    BY <2>5, <2>6, <2>7, <2>9 DEF FreshOK
  <2>11. d \in Buckets /\ FreshOK(d)
    BY <2>3, <2>5, <2>9, <2>10 DEF Buckets, FreshOK
  <2> HIDE DEF d
  <2> QED
    BY <2>1, <2>11, ReorderFresh DEF d
<1>4. CASE id \in IdsOf(n) /\ r = << >>
  <2>1. PICK i \in Find(n, id) : c = [b EXCEPT !.nodes[i] = IncrementStales(@)]
    BY <1>4 DEF RemoveNode
  <2>2. i \in DOMAIN n /\ n[i] \in KadNodes
    BY <1>1, ElementOfSeq DEF Find
  <2> DEFINE x == IncrementStales(n[i])
             m == [n EXCEPT ![i] = x]
  <2>3. x \in KadNodes /\ x.id = n[i].id
    BY <2>2 DEF IncrementStales, KadNodes
  <2> HIDE DEF x
  <2>4. DOMAIN m = DOMAIN n /\ \A j \in DOMAIN n : m[j].id = n[j].id
    BY <1>1, <2>2, <2>3, UpdateKeeps
  <2>5. Distinct(m)
    BY <2>4 DEF Distinct, FreshOK
  <2>6. c.nodes = m /\ c.replacementNodes = r
    BY <1>1, <2>1 DEF Buckets, x
  <2> HIDE DEF m
  <2> QED
    BY <1>4, <2>5, <2>6 DEF FreshOK, IdsOf
<1> QED
  BY <1>2, <1>3, <1>4

-----------------------------------------------------------------------------
(* The table *)

\* The nodes of a bucket belong there
PlacedAt(b, h) == \A id \in ListedIds(b) : id # SelfId /\ HeightOf(id) = h

\* The inductive invariant.  NeverFull is not inductive by itself: it needs
\* that the first bucket, which has a single id, does not list it twice.
TableInv ==
    /\ TypeOK
    /\ \A h \in Bits : BucketOK(buckets[h]) /\ PlacedAt(buckets[h], h)
    /\ Len(buckets[0].nodes) <= 1

-----------------------------------------------------------------------------
LEMMA HeightOfType ==
    ASSUME NEW id \in KadIds, id # SelfId
    PROVE  HeightOf(id) \in Bits
<1>1. Distance(SelfId, id) \in KadIds /\ Distance(SelfId, id) # {}
  BY DistanceZero, TableAssumption
<1> QED
  BY <1>1, HeightOfNonZero DEF HeightOf

\* The bucket of height zero has a single id
LEMMA OneIdAtHeightZero ==
    ASSUME NEW x \in KadIds, NEW y \in KadIds, x # SelfId, y # SelfId,
           HeightOf(x) = 0, HeightOf(y) = 0
    PROVE  x = y
<1>1. ASSUME NEW z \in KadIds, z # SelfId, HeightOf(z) = 0
      PROVE  Distance(SelfId, z) = {0}
  <2>1. Distance(SelfId, z) \in KadIds /\ Distance(SelfId, z) # {}
    BY <1>1, DistanceZero, TableAssumption
  <2>2. 0 \in Distance(SelfId, z) /\ \A b \in Distance(SelfId, z) : b <= 0
    BY <1>1, <2>1, HeightOfNonZero DEF HeightOf
  <2>3. \A b \in Distance(SelfId, z) : b \in Nat
    BY <2>1 DEF KadIds, Bits
  <2> QED
    BY <2>2, <2>3
<1>2. Distance(SelfId, x) = Distance(SelfId, y)
  BY <1>1
<1> QED
  BY <1>2, DistanceInjective, TableAssumption

\* A call of pushNode on the table
LEMMA TablePushOK ==
    ASSUME TableInv, NEW kn \in KadNodes, TablePush(kn)
    PROVE  /\ buckets' \in [Bits -> Buckets]
           /\ \A h \in Bits : BucketOK(buckets'[h]) /\ PlacedAt(buckets'[h], h)
           /\ Len(buckets'[0].nodes) <= 1
<1> DEFINE k == HeightOf(kn.id)
<1>1. CASE IsSelf(kn)
  BY <1>1 DEF TablePush, TableInv, TypeOK
<1>2. CASE ~IsSelf(kn)
  <2>1. kn.id \in KadIds /\ kn.id # SelfId
    BY <1>2 DEF IsSelf, KadNodes
  <2>2. k \in Bits
    BY <2>1, HeightOfType
  <2>3. PICK c \in PushNode(buckets[k], kn, now) : buckets' = [buckets EXCEPT ![k] = c]
    BY <1>2 DEF TablePush
  <2>4. /\ BucketOK(c)
        /\ ListedIds(c) \subseteq ListedIds(buckets[k]) \cup {kn.id}
        /\ Len(c.nodes) = Len(buckets[k].nodes) \/ Len(c.nodes) = Len(buckets[k].nodes) + 1
        /\ Len(c.nodes) # Len(buckets[k].nodes) => ~HasNode(buckets[k], kn)
    <3>1. BucketOK(buckets[k]) /\ now \in Nat
      BY <2>2 DEF TableInv, TypeOK
    <3> QED
      BY <2>3, <3>1, PushNodeOK
  <2>5. PlacedAt(c, k)
    BY <2>1, <2>2, <2>4 DEF PlacedAt, TableInv
  <2>6. k = 0 => Len(c.nodes) <= 1
    <3>1. SUFFICES ASSUME k = 0, Len(c.nodes) > 1 PROVE FALSE
      <4>1. Len(c.nodes) \in Nat
        BY <2>4, LenProperties DEF BucketOK, Buckets
      <4> QED
        BY <4>1
    <3> DEFINE n == buckets[0].nodes
    <3>2. n \in Seq(KadNodes) /\ Len(n) <= 1 /\ Len(n) \in Nat /\ DOMAIN n = 1 .. Len(n)
      BY <2>2, <3>1, LenProperties DEF TableInv, BucketOK, Buckets
    <3>3. Len(n) = 1 /\ ~HasNode(buckets[0], kn)
      <4>1. Len(c.nodes) = Len(n) \/ Len(c.nodes) = Len(n) + 1
        BY <2>4, <3>1
      <4>2. Len(c.nodes) # Len(n) /\ Len(n) = 1
        <5> HIDE DEF n
        <5> QED
          BY <4>1, <3>1, <3>2
      <4> QED
        BY <2>4, <3>1, <4>2
    <3>4. n[1] \in KadNodes /\ n[1].id \in IdsOf(n)
      BY <3>2, <3>3, ElementOfSeq DEF IdsOf
    <3>5. n[1].id \in KadIds /\ n[1].id # SelfId /\ HeightOf(n[1].id) = 0
      BY <2>2, <3>1, <3>4 DEF TableInv, PlacedAt, ListedIds, KadNodes
    <3>6. n[1].id = kn.id
      BY <2>1, <3>1, <3>5, OneIdAtHeightZero
    <3> QED
      BY <3>3, <3>4, <3>6 DEF HasNode
  <2>7. buckets \in [Bits -> Buckets] /\ c \in Buckets
    BY <2>4 DEF TableInv, TypeOK, BucketOK
  <2>8. 0 \in Bits
    BY BitLengthAssumption DEF Bits
  <2> HIDE DEF k
  <2> QED
    BY <2>2, <2>3, <2>4, <2>5, <2>6, <2>7, <2>8 DEF TableInv
<1> QED
  BY <1>1, <1>2

\* A call of removeNode on the table
LEMMA TableRemoveOK ==
    ASSUME TableInv, NEW id \in KadIds, TableRemove(id)
    PROVE  /\ buckets' \in [Bits -> Buckets]
           /\ \A h \in Bits : BucketOK(buckets'[h]) /\ PlacedAt(buckets'[h], h)
           /\ Len(buckets'[0].nodes) <= 1
<1> DEFINE k == HeightOf(id)
<1>1. CASE id = SelfId
  BY <1>1 DEF TableRemove, TableInv, TypeOK
<1>2. CASE id # SelfId
  <2>1. k \in Bits
    BY <1>2, HeightOfType
  <2>2. PICK c \in RemoveNode(buckets[k], id) : buckets' = [buckets EXCEPT ![k] = c]
    BY <1>2 DEF TableRemove
  <2>3. /\ BucketOK(c) /\ ListedIds(c) \subseteq ListedIds(buckets[k])
        /\ Len(c.nodes) = Len(buckets[k].nodes)
    BY <2>1, <2>2, RemoveNodeOK DEF TableInv
  <2>4. PlacedAt(c, k)
    BY <2>1, <2>3 DEF PlacedAt, TableInv
  <2>5. buckets \in [Bits -> Buckets] /\ c \in Buckets
    BY <2>3 DEF TableInv, TypeOK, BucketOK
  <2>6. 0 \in Bits
    BY BitLengthAssumption DEF Bits
  <2> HIDE DEF k
  <2> QED
    BY <2>1, <2>2, <2>3, <2>4, <2>5, <2>6 DEF TableInv
<1> QED
  BY <1>1, <1>2

LEMMA TableInit == Init => TableInv
<1> SUFFICES ASSUME Init PROVE TableInv
  OBVIOUS
<1>1. EmptyBucket \in Buckets /\ Len(EmptyBucket.nodes) = 0 /\ Len(EmptyBucket.replacementNodes) = 0
  BY EmptySeq DEF EmptyBucket, Buckets
<1>2. BucketOK(EmptyBucket) /\ ListedIds(EmptyBucket) = {}
  BY <1>1, BucketAssumption DEF BucketOK, EmptyBucket, RecentFirst, ListedIds, IdsOf
<1>3. 0 \in Bits
  BY BitLengthAssumption DEF Bits
<1>4. TypeOK
  BY <1>1 DEF Init, TypeOK
<1> QED
  BY <1>1, <1>2, <1>3, <1>4 DEF Init, TableInv, PlacedAt
LEMMA NewKadNodeType ==
    ASSUME NEW c \in [id : KadIds, address : Addresses]
    PROVE  NewKadNode(c.id, c.address) \in KadNodes
BY DEF NewKadNode, KadNodes

\* A snapshot holds node records
LEMMA PlacesType ==
    ASSUME TypeOK, NEW p \in Places
    PROVE  NodeAt(p) \in KadNodes
<1>1. PICK h \in Bits : p \in {h} \X DOMAIN buckets[h].nodes
  BY DEF Places
<1>2. buckets[h].nodes \in Seq(KadNodes)
  BY DEF TypeOK, Buckets
<1>3. p[1] = h /\ p[2] \in DOMAIN buckets[h].nodes
  BY <1>1
<1> QED
  BY <1>2, <1>3, ElementOfSeq, LenProperties DEF NodeAt

\* One step of the program about contacts just heard of
LEMMA FreshStep == TableInv /\ FreshNext => TableInv'
<1> SUFFICES ASSUME TableInv, FreshNext PROVE TableInv'
  OBVIOUS
<1>1. ASSUME NEW c \in ConfigPeers, PushConfigPeer(c) PROVE TableInv'
  <2>1. NewKadNode(c.id, c.address) \in KadNodes
    BY NewKadNodeType, TableAssumption
  <2> QED
    BY <1>1, <2>1, TablePushOK DEF PushConfigPeer, TableInv, TypeOK
<1>2. CASE SetSelfNodeAddress
  BY <1>2 DEF SetSelfNodeAddress, TableInv, TypeOK
<1>3. ASSUME NEW c \in Contacts, PushContact(c) PROVE TableInv'
  <2>1. NewKadNode(c.id, c.address) \in KadNodes
    BY NewKadNodeType, TableAssumption
  <2> QED
    BY <1>3, <2>1, TablePushOK DEF PushContact, TableInv, TypeOK
<1>4. ASSUME NEW c \in Contacts, RemoveContact(c) PROVE TableInv'
  <2>1. c.id \in KadIds
    BY TableAssumption
  <2> QED
    BY <1>4, <2>1, TableRemoveOK DEF RemoveContact, TableInv, TypeOK
<1>5. CASE Tick
  BY <1>5 DEF Tick, TableInv, TypeOK
<1> QED
  BY <1>1, <1>2, <1>3, <1>4, <1>5 DEF FreshNext

\* Any step of the program
LEMMA TableStep == TableInv /\ [Next]_tableVars => TableInv'
<1> SUFFICES ASSUME TableInv, [Next]_tableVars PROVE TableInv'
  OBVIOUS
<1>1. CASE FreshNext
  BY <1>1, FreshStep
<1>2. ASSUME NEW targets \in TargetSets, NEW count \in Counts, Snapshot(targets, count)
      PROVE  TableInv'
  <2>1. {NodeAt(p) : p \in UNION {GetClosestTo(t, count) : t \in targets}} \subseteq KadNodes
    BY PlacesType DEF GetClosestTo, TableInv
  <2> QED
    BY <1>2, <2>1 DEF Snapshot, TableInv, TypeOK
<1>3. ASSUME NEW kn \in held, PushHeld(kn) PROVE TableInv'
  <2>1. kn \in KadNodes
    BY DEF TableInv, TypeOK
  <2> QED
    BY <1>3, <2>1, TablePushOK DEF PushHeld, TableInv, TypeOK
<1>4. ASSUME NEW kn \in held, RemoveHeld(kn) PROVE TableInv'
  <2>1. kn.id \in KadIds
    BY DEF TableInv, TypeOK, KadNodes
  <2> QED
    BY <1>4, <2>1, TableRemoveOK DEF RemoveHeld, TableInv, TypeOK
<1>5. ASSUME NEW copies \in SUBSET held, Release(copies) PROVE TableInv'
  BY <1>5 DEF Release, TableInv, TypeOK
<1>6. CASE UNCHANGED tableVars
  BY <1>6 DEF tableVars, TableInv, TypeOK
<1> QED
  BY <1>1, <1>2, <1>3, <1>4, <1>5, <1>6 DEF Next

\* The inductive invariant holds in every state of every behaviour of the table
\* and its callers: all the theorems below follow from it.
THEOREM TableInvariance == Spec => []TableInv
<1>1. Init => TableInv
  BY TableInit
<1>2. TableInv /\ [Next]_tableVars => TableInv'
  BY TableStep
<1> QED
  BY <1>1, <1>2, PTL DEF Spec

\* Every variable keeps its type
THEOREM TypeCorrectness == Spec => []TypeOK
<1>1. TableInv => TypeOK
  BY DEF TableInv
<1> QED
  BY <1>1, TableInvariance, PTL

\* A node is always in the bucket of its distance to the local node, where
\* pushNode and removeNode look for it
THEOREM PlacementCorrectness == Spec => []Placed
<1>1. TableInv => Placed
  BY DEF TableInv, PlacedAt, ListedIds, Placed
<1> QED
  BY <1>1, TableInvariance, PTL

\* No list outgrows the bucket size, and nodes wait only behind a full list
THEOREM ReplacementsCorrectness == Spec => []ReplacementsWait
<1>1. TableInv => ReplacementsWait
  BY DEF TableInv, BucketOK, ReplacementsWait, IsFull
<1> QED
  BY <1>1, TableInvariance, PTL

\* The lists of a bucket stay ordered by recency
THEOREM OrderCorrectness == Spec => []MostRecentFirst
<1>1. TableInv => MostRecentFirst
  BY DEF TableInv, BucketOK, MostRecentFirst
<1> QED
  BY <1>1, TableInvariance, PTL

\* isFull() is false in every reachable state, for every size of id and bucket
THEOREM NeverFullCorrectness == Spec => []NeverFull
<1>1. TableInv => NeverFull
  <2>1. 0 \in Bits
    BY BitLengthAssumption DEF Bits
  <2>2. TableInv => Len(buckets[0].nodes) <= 1 /\ BucketMax > 1
    BY BucketAssumption DEF TableInv
  <2>3. TableInv => Len(buckets[0].nodes) # BucketMax
    BY <2>2, BucketAssumption
  <2> QED
    BY <2>1, <2>3 DEF NeverFull, TableIsFull, IsFull
<1> QED
  BY <1>1, TableInvariance, PTL

-----------------------------------------------------------------------------
(* What an answer leaves out *)

\* The places of a table are finitely many
LEMMA PlacesFinite == ASSUME TypeOK PROVE IsFiniteSet(Places)
<1> DEFINE At(h) == {h} \X DOMAIN buckets[h].nodes
           All == {At(h) : h \in Bits}
<1>1. ASSUME NEW h \in Bits PROVE IsFiniteSet(At(h))
  <2>1. buckets[h].nodes \in Seq(KadNodes)
    BY DEF TypeOK, Buckets
  <2>2. IsFiniteSet(DOMAIN buckets[h].nodes)
    BY <2>1, LenProperties, FS_Interval
  <2> QED
    BY <2>2, FS_Singleton, FS_Product
<1>2. IsFiniteSet(Bits)
  BY FS_Interval, BitLengthAssumption DEF Bits
<1>3. [h \in Bits |-> At(h)] \in Surjection(Bits, All)
  BY DEF Surjection
<1> HIDE DEF At
<1>4. IsFiniteSet(All)
  BY <1>2, <1>3, FS_Surjection
<1>5. \A X \in All : IsFiniteSet(X)
  BY <1>1
<1>6. IsFiniteSet(UNION All)
  BY <1>4, <1>5, FS_UNION
<1> QED
  BY <1>6 DEF Places, At

\* A place is a pair of numbers
LEMMA PlaceNumbers ==
    ASSUME TypeOK, NEW p \in Places
    PROVE  p[1] \in Bits /\ p[2] \in Nat /\ p = <<p[1], p[2]>>
<1>1. PICK h \in Bits : \E i \in DOMAIN buckets[h].nodes : p = <<h, i>>
  BY DEF Places
<1>2. buckets[h].nodes \in Seq(KadNodes)
  BY DEF TypeOK, Buckets
<1> QED
  BY <1>1, <1>2, LenProperties

\* The places are visited in an order: no place before itself, and none between
\* two others out of turn
LEMMA VisitedTransitive ==
    ASSUME TypeOK, NEW t \in KadIds, t # SelfId
    PROVE  /\ \A p \in Places : ~VisitedBefore(p, p, t)
           /\ \A p, q, r \in Places :
                VisitedBefore(p, q, t) /\ VisitedBefore(q, r, t) => VisitedBefore(p, r, t)
<1>1. \A p \in Places : p[1] \in Int /\ p[2] \in Int /\ Turn(p[1], t) \in Int
  BY PlaceNumbers, HeightOfType DEF Turn, Bits
<1>2. \A p, q \in Places : p[1] = q[1] => Turn(p[1], t) = Turn(q[1], t)
  OBVIOUS
<1> QED
  BY <1>1, <1>2 DEF VisitedBefore

\* Of two places one is visited before the other
LEMMA VisitedTotal ==
    ASSUME TypeOK, NEW t \in KadIds, t # SelfId, NEW p \in Places, NEW q \in Places
    PROVE  p = q \/ VisitedBefore(p, q, t) \/ VisitedBefore(q, p, t)
<1>1. p[1] \in Int /\ p[2] \in Int /\ q[1] \in Int /\ q[2] \in Int /\ HeightOf(t) \in Int
  BY PlaceNumbers, HeightOfType DEF Bits
<1>2. Turn(p[1], t) \in Int /\ Turn(q[1], t) \in Int
  BY <1>1 DEF Turn
<1>3. ASSUME NEW g \in Int, NEW h \in Int, NEW k \in Int, k = HeightOf(t),
             Turn(g, t) = Turn(h, t)
      PROVE  g = h
  <2>1. CASE g < k /\ h < k
    BY <1>3, <2>1 DEF Turn
  <2>2. CASE g < k /\ ~(h < k)
    BY <1>3, <2>2 DEF Turn
  <2>3. CASE ~(g < k) /\ h < k
    BY <1>3, <2>3 DEF Turn
  <2>4. CASE ~(g < k) /\ ~(h < k)
    BY <1>3, <2>4 DEF Turn
  <2> QED
    BY <2>1, <2>2, <2>3, <2>4
<1>4. p[1] = q[1] /\ p[2] = q[2] => p = q
  BY PlaceNumbers
<1> QED
  BY <1>1, <1>2, <1>3, <1>4 DEF VisitedBefore

\* An answer has no more nodes than were asked for: the places are visited one
\* after another, and each has a number of places before it of its own
LEMMA AnswerSize ==
    ASSUME TypeOK, NEW t \in KadIds, NEW count \in Nat
    PROVE  /\ IsFiniteSet(GetClosestTo(t, count))
           /\ Cardinality(GetClosestTo(t, count)) <= count
<1> DEFINE Before(x) == {y \in Places : VisitedBefore(y, x, t)}
           answer == GetClosestTo(t, count)
           rank == [q \in answer |-> Cardinality(Before(q)) + 1]
<1>1. CASE t = SelfId
  BY <1>1, FS_EmptySet DEF GetClosestTo
<1>2. CASE t # SelfId
  <2>1. \A q \in answer : q \in Places /\ Cardinality(Before(q)) < count
    BY <1>2 DEF GetClosestTo
  <2>2. \A q \in Places : IsFiniteSet(Before(q)) /\ Cardinality(Before(q)) \in Nat
    BY PlacesFinite, FS_Subset, FS_CardinalityType
  <2>3. ASSUME NEW p \in Places, NEW q \in Places, VisitedBefore(p, q, t)
        PROVE  Cardinality(Before(p)) # Cardinality(Before(q))
    <3>1. Before(p) \subseteq Before(q)
      BY <1>2, <2>3, VisitedTransitive
    <3>2. p \in Before(q) /\ p \notin Before(p)
      BY <1>2, <2>3, VisitedTransitive
    <3> HIDE DEF Before
    <3> QED
      BY <2>2, <3>1, <3>2, FS_Subset
  <2>4. \A p, q \in answer : rank[p] = rank[q] => p = q
    <3> HIDE DEF Before, answer
    <3> SUFFICES ASSUME NEW p \in answer, NEW q \in answer, rank[p] = rank[q], p # q
                 PROVE  FALSE
      OBVIOUS
    <3>1. Cardinality(Before(p)) = Cardinality(Before(q))
      BY <2>1, <2>2
    <3>2. VisitedBefore(p, q, t) \/ VisitedBefore(q, p, t)
      BY <1>2, <2>1, VisitedTotal
    <3> QED
      BY <2>1, <2>3, <3>1, <3>2
  <2>5. rank \in [answer -> 1 .. count]
    <3>1. \A q \in answer : Cardinality(Before(q)) + 1 \in 1 .. count
      <4> HIDE DEF Before
      <4> QED
        BY <2>1, <2>2
    <3> HIDE DEF Before
    <3> QED
      BY <3>1
  <2> HIDE DEF rank, answer
  <2>6. rank \in Injection(answer, 1 .. count)
    BY <2>4, <2>5 DEF Injection, IsInjective
  <2>7. IsFiniteSet(1 .. count) /\ Cardinality(1 .. count) = count
    BY FS_Interval
  <2> QED
    BY <2>6, <2>7, FS_Injection DEF answer
<1> QED
  BY <1>1, <1>2

\* The nodes of one bucket are nearer to each other than to the local node:
\* their ids agree with each other on the highest bit that tells them from it
LEMMA CloserInBucket ==
    ASSUME NEW x \in KadIds, NEW t \in KadIds, x # SelfId, t # SelfId,
           HeightOf(x) = HeightOf(t)
    PROVE  Less(Distance(x, t), Distance(SelfId, t))
<1> DEFINE h == HeightOf(t)
<1>1. SelfId \in KadIds
  BY TableAssumption
<1>2. h \in Distance(SelfId, t)
  BY <1>1, DistanceZero, HeightOfNonZero DEF HeightOf
<1>3. h \in Distance(SelfId, x) /\ Height(Distance(SelfId, x)) = h
  BY <1>1, DistanceZero, HeightOfNonZero DEF HeightOf
<1>4. Distance(Distance(x, t), Distance(SelfId, t)) = Distance(SelfId, x)
  BY DEF Distance
<1>5. Distance(x, t) # Distance(SelfId, t)
  BY <1>2, <1>3 DEF Distance
<1> QED
  BY <1>2, <1>3, <1>4, <1>5 DEF Less

\* An answer that leaves out a node of the bucket of its target has no node of
\* another bucket: each node of that bucket is visited before it
LEMMA OneBucketAnswer ==
    ASSUME TableInv, NEW t \in KadIds, t # SelfId, NEW count \in Counts,
           NEW p \in Places, p \notin GetClosestTo(t, count), p[1] = HeightOf(t),
           NEW q \in GetClosestTo(t, count)
    PROVE  q[1] = p[1]
<1> DEFINE Before(x) == {y \in Places : VisitedBefore(y, x, t)}
<1>1. /\ q \in Places
      /\ Cardinality(Before(q)) < count
      /\ ~(Cardinality(Before(p)) < count)
  BY DEF GetClosestTo
<1>2. IsFiniteSet(Before(p)) /\ IsFiniteSet(Before(q))
  BY PlacesFinite, FS_Subset DEF TableInv
<1>3. ASSUME q[1] # p[1] PROVE Before(p) \subseteq Before(q)
  <2>1. \A y \in Places : y[1] \in Nat
    BY BitLengthAssumption DEF Places, Bits
  <2>2. HeightOf(t) \in Nat
    BY <2>1
  <2>3. ASSUME NEW y \in Before(p) PROVE y \in Before(q)
    <3>1. y \in Places /\ VisitedBefore(y, p, t)
      OBVIOUS
    <3>2. y[1] = p[1]
      BY <2>1, <2>2, <3>1 DEF VisitedBefore, Turn
    <3>3. Turn(y[1], t) < Turn(q[1], t)
      BY <1>1, <1>3, <2>1, <2>2, <3>2 DEF Turn
    <3> QED
      BY <3>1, <3>3 DEF VisitedBefore
  <2> QED
    BY <2>3
<1>4. count \in Nat
  BY TableAssumption
<1> HIDE DEF Before
<1> QED
  BY <1>1, <1>2, <1>3, <1>4, FS_Subset, FS_CardinalityType

\* What a table answers of a target's bucket is nearer to the target than the node
\* that answers, if anything of that bucket is left out
LEMMA AnswersAreNearer == TableInv => AnswersProgress
<1> SUFFICES ASSUME TableInv, NEW t \in KadIds \ {SelfId}, NEW count \in Counts,
                    NEW p \in Places \ GetClosestTo(t, count), p[1] = HeightOf(t),
                    NEW q \in GetClosestTo(t, count)
             PROVE  Less(Distance(NodeAt(q).id, t), Distance(SelfId, t))
  BY DEF AnswersProgress
<1>1. q[1] = HeightOf(t) /\ q \in Places
  BY OneBucketAnswer DEF GetClosestTo
<1>2. NodeAt(q).id \in KadIds
  BY <1>1, PlacesType DEF TableInv, KadNodes
<1>3. q[1] \in Bits /\ q[2] \in DOMAIN buckets[q[1]].nodes
  BY <1>1 DEF Places
<1>4. NodeAt(q).id # SelfId /\ HeightOf(NodeAt(q).id) = HeightOf(t)
  BY <1>1, <1>3 DEF TableInv, PlacedAt, ListedIds, IdsOf, NodeAt
<1> QED
  BY <1>2, <1>4, CloserInBucket

\* In a table of any size, a node that does not answer all it has near a target
\* answers only nodes closer to the target than itself
THEOREM AnswersProgressCorrectness == Spec => []AnswersProgress
<1> QED
  BY AnswersAreNearer, TableInvariance, PTL

-----------------------------------------------------------------------------
(* Why a node leaves its bucket *)

\* Nothing changes, nobody is displaced
LEMMA SameBucketCause == ASSUME NEW b, BucketOK(b) PROVE CauseOK(b, b)
<1>1. Len(b.nodes) \in Nat
  BY LenProperties DEF BucketOK, Buckets
<1> QED
  BY <1>1 DEF CauseOK, IdsOf

LEMMA TablePushCause ==
    ASSUME TableInv, NEW kn \in KadNodes, TablePush(kn)
    PROVE  \A h \in Bits : CauseOK(buckets[h], buckets'[h])
<1>1. CASE IsSelf(kn)
  BY <1>1, SameBucketCause DEF TablePush, TableInv
<1>2. CASE ~IsSelf(kn)
  <2> DEFINE k == HeightOf(kn.id)
  <2>1. k \in Bits
    BY <1>2, HeightOfType DEF IsSelf, KadNodes
  <2>2. PICK c \in PushNode(buckets[k], kn, now) : buckets' = [buckets EXCEPT ![k] = c]
    BY <1>2 DEF TablePush
  <2>3. BucketOK(buckets[k]) /\ now \in Nat
    BY <2>1 DEF TableInv, TypeOK
  <2>4. CauseOK(buckets[k], c)
    BY <2>2, <2>3, PushNodeCause
  <2>5. buckets \in [Bits -> Buckets] /\ \A h \in Bits : CauseOK(buckets[h], buckets[h])
    BY SameBucketCause DEF TableInv, TypeOK
  <2> HIDE DEF k
  <2> QED
    BY <2>1, <2>2, <2>4, <2>5
<1> QED
  BY <1>1, <1>2

LEMMA TableRemoveCause ==
    ASSUME TableInv, NEW id \in KadIds, TableRemove(id)
    PROVE  \A h \in Bits : CauseOK(buckets[h], buckets'[h])
<1>1. CASE id = SelfId
  BY <1>1, SameBucketCause DEF TableRemove, TableInv
<1>2. CASE id # SelfId
  <2> DEFINE k == HeightOf(id)
  <2>1. k \in Bits
    BY <1>2, HeightOfType
  <2>2. PICK c \in RemoveNode(buckets[k], id) : buckets' = [buckets EXCEPT ![k] = c]
    BY <1>2 DEF TableRemove
  <2>3. CauseOK(buckets[k], c)
    BY <2>1, <2>2, RemoveNodeCause DEF TableInv
  <2>4. buckets \in [Bits -> Buckets] /\ \A h \in Bits : CauseOK(buckets[h], buckets[h])
    BY SameBucketCause DEF TableInv, TypeOK
  <2> HIDE DEF k
  <2> QED
    BY <2>1, <2>2, <2>3, <2>4
<1> QED
  BY <1>1, <1>2

LEMMA CauseStep ==
    TableInv /\ [Next]_tableVars => \A h \in Bits : CauseOK(buckets[h], buckets'[h])
<1> SUFFICES ASSUME TableInv, [Next]_tableVars
             PROVE  \A h \in Bits : CauseOK(buckets[h], buckets'[h])
  OBVIOUS
<1>1. CASE UNCHANGED buckets
  BY <1>1, SameBucketCause DEF TableInv
<1>2. ASSUME NEW c \in ConfigPeers \cup Contacts, TablePush(NewKadNode(c.id, c.address))
      PROVE  \A h \in Bits : CauseOK(buckets[h], buckets'[h])
  <2>1. NewKadNode(c.id, c.address) \in KadNodes
    BY NewKadNodeType, TableAssumption
  <2> QED
    BY <1>2, <2>1, TablePushCause
<1>3. ASSUME NEW c \in Contacts, TableRemove(c.id)
      PROVE  \A h \in Bits : CauseOK(buckets[h], buckets'[h])
  BY <1>3, TableRemoveCause, TableAssumption
<1>4. ASSUME NEW kn \in held, TablePush(kn) \/ TableRemove(kn.id)
      PROVE  \A h \in Bits : CauseOK(buckets[h], buckets'[h])
  <2>1. kn \in KadNodes /\ kn.id \in KadIds
    BY DEF TableInv, TypeOK, KadNodes
  <2> QED
    BY <1>4, <2>1, TablePushCause, TableRemoveCause
<1> QED
  BY <1>1, <1>2, <1>3, <1>4
  DEF Next, FreshNext, PushConfigPeer, SetSelfNodeAddress, PushContact, RemoveContact,
      Snapshot, PushHeld, RemoveHeld, Release, Tick, tableVars

\* In a table of any size, a node that answers keeps its place against any
\* newcomer, and the number of the neighbours in use never shrinks
THEOREM DisplacementCorrectness == Spec => DisplacedForCause
<1>1. TableInv /\ [Next]_tableVars =>
        [\A h \in Bits :
            LET b  == buckets[h]
                b2 == buckets'[h]
            IN  /\ Len(b2.nodes) >= Len(b.nodes)
                /\ \A i \in DOMAIN b.nodes :
                    b.nodes[i].id \notin IdsOf(b2.nodes) =>
                        \/ b.nodes[i].stales >= StalesThr
                        \/ /\ b.replacementNodes # << >>
                           /\ Head(b.replacementNodes).id \in IdsOf(b2.nodes)
                           /\ Len(b2.replacementNodes) < Len(b.replacementNodes)]_tableVars
  BY CauseStep DEF CauseOK
<1> QED
  BY <1>1, TableInvariance, PTL DEF Spec, DisplacedForCause

-----------------------------------------------------------------------------
(* Tables that are only told of contacts just heard of *)

FreshInv == TableInv /\ \A h \in Bits : FreshOK(buckets[h])

LEMMA TablePushFresh ==
    ASSUME FreshInv, NEW kn \in KadNodes, kn.stales = 0, TablePush(kn)
    PROVE  \A h \in Bits : FreshOK(buckets'[h])
<1>1. CASE IsSelf(kn)
  BY <1>1 DEF TablePush, FreshInv
<1>2. CASE ~IsSelf(kn)
  <2> DEFINE k == HeightOf(kn.id)
  <2>1. k \in Bits
    BY <1>2, HeightOfType DEF IsSelf, KadNodes
  <2>2. PICK c \in PushNode(buckets[k], kn, now) : buckets' = [buckets EXCEPT ![k] = c]
    BY <1>2 DEF TablePush
  <2>3. BucketOK(buckets[k]) /\ FreshOK(buckets[k]) /\ now \in Nat
    BY <2>1 DEF FreshInv, TableInv, TypeOK
  <2>4. FreshOK(c)
    BY <2>2, <2>3, PushNodeFresh
  <2>5. buckets \in [Bits -> Buckets]
    BY DEF FreshInv, TableInv, TypeOK
  <2> HIDE DEF k
  <2> QED
    BY <2>1, <2>2, <2>4, <2>5 DEF FreshInv
<1> QED
  BY <1>1, <1>2

LEMMA TableRemoveFresh ==
    ASSUME FreshInv, NEW id \in KadIds, TableRemove(id)
    PROVE  \A h \in Bits : FreshOK(buckets'[h])
<1>1. CASE id = SelfId
  BY <1>1 DEF TableRemove, FreshInv
<1>2. CASE id # SelfId
  <2> DEFINE k == HeightOf(id)
  <2>1. k \in Bits
    BY <1>2, HeightOfType
  <2>2. PICK c \in RemoveNode(buckets[k], id) : buckets' = [buckets EXCEPT ![k] = c]
    BY <1>2 DEF TableRemove
  <2>3. BucketOK(buckets[k]) /\ FreshOK(buckets[k])
    BY <2>1 DEF FreshInv, TableInv
  <2>4. FreshOK(c)
    BY <2>2, <2>3, RemoveNodeFresh
  <2>5. buckets \in [Bits -> Buckets]
    BY DEF FreshInv, TableInv, TypeOK
  <2> HIDE DEF k
  <2> QED
    BY <2>1, <2>2, <2>4, <2>5 DEF FreshInv
<1> QED
  BY <1>1, <1>2

\* In a table that is only told of contacts just heard of, of any size, no id
\* is ever listed twice.  The runs show that old copies break it.
THEOREM FreshListedOnce == FreshSpec => []ListedOnce
<1>1. Init => FreshInv
  <2>1. IdsOf(<< >>) = {} /\ Distinct(<< >>) /\ AllGood(<< >>)
    BY DEF IdsOf, Distinct, AllGood
  <2>2. FreshOK(EmptyBucket)
    BY <2>1 DEF FreshOK, EmptyBucket
  <2> QED
    BY <2>2, TableInit DEF Init, FreshInv
<1>2. FreshInv /\ [FreshNext]_tableVars => FreshInv'
  <2> SUFFICES ASSUME FreshInv, [FreshNext]_tableVars PROVE FreshInv'
    OBVIOUS
  <2>1. TableInv'
    BY TableStep DEF FreshInv, Next
  <2>2. CASE UNCHANGED buckets
    BY <2>1, <2>2 DEF FreshInv
  <2>3. ASSUME NEW c \in ConfigPeers \cup Contacts, TablePush(NewKadNode(c.id, c.address))
        PROVE  FreshInv'
    <3>1. NewKadNode(c.id, c.address) \in KadNodes /\ NewKadNode(c.id, c.address).stales = 0
      BY NewKadNodeType, TableAssumption DEF NewKadNode
    <3>2. \A h \in Bits : FreshOK(buckets'[h])
      BY <2>3, <3>1, TablePushFresh
    <3> QED
      BY <2>1, <3>2 DEF FreshInv
  <2>4. ASSUME NEW c \in Contacts, TableRemove(c.id)
        PROVE  FreshInv'
    <3>1. \A h \in Bits : FreshOK(buckets'[h])
      BY <2>4, TableRemoveFresh, TableAssumption
    <3> QED
      BY <2>1, <3>1 DEF FreshInv
  <2> QED
    BY <2>2, <2>3, <2>4
    DEF FreshNext, PushConfigPeer, SetSelfNodeAddress, PushContact, RemoveContact, Tick, tableVars
<1>3. FreshInv => ListedOnce
  BY DEF FreshInv, FreshOK, ListedOnce
<1> QED
  BY <1>1, <1>2, <1>3, PTL DEF FreshSpec
=============================================================================
