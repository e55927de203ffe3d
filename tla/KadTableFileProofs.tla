------------------------- MODULE KadTableFileProofs -------------------------
(***************************************************************************)
(* What holds of a routing table of any size over restarts, wherever the   *)
(* file ends that it is read from.                                         *)
(***************************************************************************)
EXTENDS KadTableFile, KadRoutingTableProofs

\* A table as the calls leave it, in memory or in the file
GoodBuckets(bs) ==
    /\ bs \in [Bits -> Buckets]
    /\ \A h \in Bits : BucketOK(bs[h]) /\ PlacedAt(bs[h], h) /\ FreshOK(bs[h])
    /\ Len(bs[0].nodes) <= 1

\* The inductive invariant: what can be read from the file is good too
FileInv == FreshInv /\ GoodBuckets(savedBuckets)

-----------------------------------------------------------------------------
(* The beginning of a list *)

LEMMA PrefixKeeps ==
    ASSUME NEW s \in Seq(KadNodes), NEW n \in 0 .. Len(s)
    PROVE  /\ Prefix(s, n) \in Seq(KadNodes)
           /\ Len(Prefix(s, n)) = n
           /\ DOMAIN Prefix(s, n) = 1 .. n
           /\ \A i \in 1 .. n : Prefix(s, n)[i] = s[i] /\ i \in DOMAIN s
<1>1. Len(s) \in Nat /\ DOMAIN s = 1 .. Len(s) /\ \A i \in DOMAIN s : s[i] \in KadNodes
  BY LenProperties, ElementOfSeq
<1>2. 1 \in Int /\ n \in Int /\ \A i \in 1 .. n : s[i] \in KadNodes /\ i \in DOMAIN s
  BY <1>1
<1> HIDE DEF Prefix
<1>3. /\ Prefix(s, n) \in Seq(KadNodes)
      /\ Len(Prefix(s, n)) = IF 1 <= n THEN n - 1 + 1 ELSE 0
      /\ \A i \in 1 .. n - 1 + 1 : Prefix(s, n)[i] = s[1 + i - 1]
  BY <1>2, SubSeqProperties DEF Prefix
<1>4. Len(Prefix(s, n)) = n
  BY <1>1, <1>3
<1>5. \A i \in 1 .. n : Prefix(s, n)[i] = s[i]
  <2>1. n - 1 + 1 = n /\ \A i \in 1 .. n : 1 + i - 1 = i
    BY <1>1
  <2> QED
    BY <1>3, <2>1
<1> QED
  BY <1>2, <1>3, <1>4, <1>5, LenProperties

LEMMA PrefixGood ==
    ASSUME NEW s \in Seq(KadNodes), NEW n \in 0 .. Len(s)
    PROVE  /\ IdsOf(Prefix(s, n)) \subseteq IdsOf(s)
           /\ RecentFirst(s) => RecentFirst(Prefix(s, n))
           /\ Distinct(s) => Distinct(Prefix(s, n))
           /\ AllGood(s) => AllGood(Prefix(s, n))
<1>1. /\ DOMAIN Prefix(s, n) = 1 .. n
      /\ \A i \in 1 .. n : Prefix(s, n)[i] = s[i] /\ i \in DOMAIN s
  BY PrefixKeeps
<1> QED
  BY <1>1 DEF IdsOf, RecentFirst, Distinct, AllGood

\* A bucket of which only the nodes, or some of them, are read
LEMMA NodesOnlyGood ==
    ASSUME NEW b, BucketOK(b), FreshOK(b), NEW n \in 0 .. Len(b.nodes)
    PROVE  LET c == [nodes |-> Prefix(b.nodes, n), replacementNodes |-> << >>]
           IN  /\ BucketOK(c) /\ FreshOK(c)
               /\ ListedIds(c) \subseteq ListedIds(b)
               /\ Len(c.nodes) <= Len(b.nodes)
<1> DEFINE c == [nodes |-> Prefix(b.nodes, n), replacementNodes |-> << >>]
<1>1. b.nodes \in Seq(KadNodes) /\ Len(b.nodes) \in Nat /\ Len(b.nodes) <= BucketMax
  BY LenProperties DEF BucketOK, Buckets
<1>2. c.nodes \in Seq(KadNodes) /\ Len(c.nodes) = n
  BY <1>1, PrefixKeeps
<1>3. /\ << >> \in Seq(KadNodes) /\ Len(<< >>) = 0
      /\ RecentFirst(<< >>) /\ Distinct(<< >>) /\ AllGood(<< >>) /\ IdsOf(<< >>) = {}
  BY EmptySeq DEF RecentFirst, Distinct, AllGood, IdsOf
<1>4. /\ IdsOf(c.nodes) \subseteq IdsOf(b.nodes)
      /\ RecentFirst(c.nodes) /\ Distinct(c.nodes)
  BY <1>1, PrefixGood DEF BucketOK, FreshOK
<1>5. c \in Buckets /\ c.replacementNodes = << >>
  BY <1>2, <1>3 DEF Buckets
<1>6. n <= BucketMax /\ 0 <= BucketMax /\ n <= Len(b.nodes)
  BY <1>1, BucketAssumption
<1> HIDE DEF c
<1>7. BucketOK(c)
  BY <1>2, <1>3, <1>4, <1>5, <1>6 DEF BucketOK
<1>8. FreshOK(c)
  BY <1>3, <1>4, <1>5 DEF FreshOK
<1>9. ListedIds(c) \subseteq ListedIds(b)
  BY <1>3, <1>4, <1>5 DEF ListedIds
<1> QED
  BY <1>2, <1>6, <1>7, <1>8, <1>9 DEF c

\* A bucket whose nodes are all read, and some of its replacements
LEMMA ReplacementsCutGood ==
    ASSUME NEW b, BucketOK(b), FreshOK(b), NEW r \in 0 .. Len(b.replacementNodes)
    PROVE  LET c == [nodes |-> b.nodes, replacementNodes |-> Prefix(b.replacementNodes, r)]
           IN  BucketOK(c) /\ FreshOK(c) /\ ListedIds(c) \subseteq ListedIds(b)
<1> DEFINE c == [nodes |-> b.nodes, replacementNodes |-> Prefix(b.replacementNodes, r)]
<1>1. /\ b.nodes \in Seq(KadNodes)
      /\ b.replacementNodes \in Seq(KadNodes)
      /\ Len(b.replacementNodes) \in Nat /\ Len(b.replacementNodes) <= BucketMax
  BY LenProperties DEF BucketOK, Buckets
<1>2. c.replacementNodes \in Seq(KadNodes) /\ Len(c.replacementNodes) = r
  BY <1>1, PrefixKeeps
<1>3. /\ IdsOf(c.replacementNodes) \subseteq IdsOf(b.replacementNodes)
      /\ RecentFirst(c.replacementNodes) /\ Distinct(c.replacementNodes)
      /\ AllGood(c.replacementNodes)
  BY <1>1, PrefixGood DEF BucketOK, FreshOK
<1>4. c.replacementNodes # << >> => b.replacementNodes # << >>
  <2>1. SUFFICES ASSUME b.replacementNodes = << >> PROVE c.replacementNodes = << >>
    OBVIOUS
  <2>2. r = 0
    BY <1>1, <2>1, EmptySeq
  <2> HIDE DEF c
  <2> QED
    BY <1>2, <2>2, EmptySeq
<1>5. c \in Buckets /\ c.nodes = b.nodes
  BY <1>1, <1>2 DEF Buckets
<1>6. r <= BucketMax
  BY <1>1, BucketAssumption
<1> HIDE DEF c
<1>7. BucketOK(c)
  BY <1>2, <1>3, <1>4, <1>5, <1>6 DEF BucketOK
<1>8. FreshOK(c)
  BY <1>3, <1>4, <1>5 DEF FreshOK
<1>9. ListedIds(c) \subseteq ListedIds(b)
  BY <1>3, <1>5 DEF ListedIds
<1> QED
  BY <1>7, <1>8, <1>9 DEF c

-----------------------------------------------------------------------------
(* The file *)

LEMMA EmptyBucketGood ==
    /\ EmptyBucket \in Buckets /\ BucketOK(EmptyBucket) /\ FreshOK(EmptyBucket)
    /\ ListedIds(EmptyBucket) = {} /\ Len(EmptyBucket.nodes) = 0
<1>1. EmptyBucket \in Buckets /\ Len(EmptyBucket.nodes) = 0 /\ Len(EmptyBucket.replacementNodes) = 0
  BY EmptySeq DEF EmptyBucket, Buckets
<1>2. IdsOf(<< >>) = {} /\ Distinct(<< >>) /\ AllGood(<< >>)
  BY DEF IdsOf, Distinct, AllGood
<1>3. BucketOK(EmptyBucket) /\ ListedIds(EmptyBucket) = {}
  BY <1>1, BucketAssumption DEF BucketOK, EmptyBucket, RecentFirst, ListedIds, IdsOf
<1> QED
  BY <1>1, <1>2, <1>3 DEF FreshOK, EmptyBucket

LEMMA BucketsInMemoryGood == FreshInv => GoodBuckets(buckets)
BY DEF FreshInv, TableInv, TypeOK, GoodBuckets

\* A file that ends anywhere holds a good table
LEMMA CutGood ==
    ASSUME FreshInv, NEW h \in Bits,
           NEW n \in 0 .. Len(buckets[h].nodes), NEW r \in 0 .. Len(buckets[h].replacementNodes)
    PROVE  GoodBuckets(Cut(h, n, r))
<1> DEFINE last == CutBucket(buckets[h], n, r)
<1>1. GoodBuckets(buckets)
  BY BucketsInMemoryGood
<1>2. BucketOK(buckets[h]) /\ FreshOK(buckets[h]) /\ PlacedAt(buckets[h], h)
  BY <1>1 DEF GoodBuckets
<1>3. /\ BucketOK(last) /\ FreshOK(last)
      /\ ListedIds(last) \subseteq ListedIds(buckets[h])
      /\ Len(last.nodes) <= Len(buckets[h].nodes)
  <2>1. buckets[h].nodes \in Seq(KadNodes) /\ Len(buckets[h].nodes) \in Nat
    BY <1>2, LenProperties DEF BucketOK, Buckets
  <2>2. CASE n = Len(buckets[h].nodes)
    <3>1. Prefix(buckets[h].nodes, n) = buckets[h].nodes
      BY <2>1, <2>2, SubSeqFull DEF Prefix
    <3>2. last = [nodes |-> buckets[h].nodes,
                  replacementNodes |-> Prefix(buckets[h].replacementNodes, r)]
      BY <2>2, <3>1 DEF CutBucket
    <3>3. last.nodes = buckets[h].nodes
      BY <3>2
    <3> HIDE DEF last
    <3> QED
      BY <1>2, <2>1, <3>2, <3>3, ReplacementsCutGood
  <2>3. CASE n # Len(buckets[h].nodes)
    <3>1. last = [nodes |-> Prefix(buckets[h].nodes, n), replacementNodes |-> << >>]
      BY <2>3 DEF CutBucket
    <3> HIDE DEF last
    <3> QED
      BY <1>2, <3>1, NodesOnlyGood
  <2> QED
    BY <2>2, <2>3
<1>4. PlacedAt(last, h)
  BY <1>2, <1>3 DEF PlacedAt
<1> HIDE DEF last
<1>5. Cut(h, n, r) =
        [k \in Bits |-> IF k < h THEN buckets[k] ELSE IF k > h THEN EmptyBucket ELSE last]
  BY DEF Cut, last
<1>6. ASSUME NEW k \in Bits
      PROVE  /\ Cut(h, n, r)[k] \in Buckets
             /\ BucketOK(Cut(h, n, r)[k]) /\ FreshOK(Cut(h, n, r)[k])
             /\ PlacedAt(Cut(h, n, r)[k], k)
             /\ k = 0 => Len(Cut(h, n, r)[k].nodes) <= 1
  <2>1. k \in Int /\ h \in Int
    BY BitLengthAssumption DEF Bits
  <2>2. CASE k < h
    <3>1. Cut(h, n, r)[k] = buckets[k]
      BY <1>5, <2>1, <2>2
    <3> QED
      BY <1>1, <3>1 DEF GoodBuckets
  <2>3. CASE k = h
    <3>1. Cut(h, n, r)[k] = last
      BY <1>5, <2>1, <2>3
    <3>2. k = 0 => Len(buckets[h].nodes) <= 1
      BY <1>1, <2>3 DEF GoodBuckets
    <3>3. Len(last.nodes) \in Nat /\ Len(buckets[h].nodes) \in Nat
      BY <1>2, <1>3, LenProperties DEF BucketOK, Buckets
    <3>4. k = 0 => Len(last.nodes) <= 1
      BY <1>3, <3>2, <3>3
    <3> QED
      BY <1>3, <1>4, <2>3, <3>1, <3>4 DEF BucketOK
  <2>4. CASE k > h
    <3>1. Cut(h, n, r)[k] = EmptyBucket
      BY <1>5, <2>1, <2>4
    <3>2. PlacedAt(EmptyBucket, k) /\ Len(EmptyBucket.nodes) <= 1
      BY EmptyBucketGood DEF PlacedAt
    <3> QED
      BY <3>1, <3>2, EmptyBucketGood
  <2> QED
    BY <2>1, <2>2, <2>3, <2>4
<1>7. 0 \in Bits
  BY BitLengthAssumption DEF Bits
<1>8. Cut(h, n, r) \in [Bits -> Buckets]
  <2>1. Cut(h, n, r) = [k \in Bits |-> Cut(h, n, r)[k]]
    BY <1>5
  <2> QED
    BY <1>6, <2>1
<1> QED
  BY <1>6, <1>7, <1>8 DEF GoodBuckets

-----------------------------------------------------------------------------
LEMMA FileInitially == FileInit => FileInv
<1> SUFFICES ASSUME FileInit PROVE FileInv
  OBVIOUS
<1>1. 0 \in Bits
  BY BitLengthAssumption DEF Bits
<1>2. \A h \in Bits : PlacedAt(EmptyBucket, h)
  BY EmptyBucketGood DEF PlacedAt
<1>3. GoodBuckets([h \in Bits |-> EmptyBucket])
  BY <1>1, <1>2, EmptyBucketGood DEF GoodBuckets
<1>4. TableInv /\ \A h \in Bits : FreshOK(buckets[h])
  BY TableInit, EmptyBucketGood DEF FileInit, Init
<1> QED
  BY <1>3, <1>4 DEF FileInit, FileInv, FreshInv

\* The calls of the program on the table in memory
LEMMA FreshInvStep == FreshInv /\ FreshNext => FreshInv'
<1> SUFFICES ASSUME FreshInv, FreshNext PROVE FreshInv'
  OBVIOUS
<1>1. TableInv'
  BY FreshStep DEF FreshInv
<1>2. CASE UNCHANGED buckets
  BY <1>1, <1>2 DEF FreshInv
<1>3. ASSUME NEW c \in ConfigPeers \cup Contacts, TablePush(NewKadNode(c.id, c.address))
      PROVE  FreshInv'
  <2>1. NewKadNode(c.id, c.address) \in KadNodes /\ NewKadNode(c.id, c.address).stales = 0
    BY NewKadNodeType, TableAssumption DEF NewKadNode
  <2>2. \A h \in Bits : FreshOK(buckets'[h])
    BY <1>3, <2>1, TablePushFresh
  <2> QED
    BY <1>1, <2>2 DEF FreshInv
<1>4. ASSUME NEW c \in Contacts, TableRemove(c.id)
      PROVE  FreshInv'
  <2>1. \A h \in Bits : FreshOK(buckets'[h])
    BY <1>4, TableRemoveFresh, TableAssumption
  <2> QED
    BY <1>1, <2>1 DEF FreshInv
<1> QED
  BY <1>2, <1>3, <1>4
  DEF FreshNext, PushConfigPeer, SetSelfNodeAddress, PushContact, RemoveContact, Tick

LEMMA FileStep == FileInv /\ [FileNext \/ Table]_fileVars => FileInv'
<1> SUFFICES ASSUME FileInv, [FileNext \/ Table]_fileVars PROVE FileInv'
  OBVIOUS
<1>1. GoodBuckets(buckets)
  BY BucketsInMemoryGood DEF FileInv
<1>2. CASE WriteFile
  <2>1. GoodBuckets(savedBuckets)'
    BY <1>1, <1>2 DEF WriteFile, GoodBuckets
  <2> QED
    BY <1>2, <2>1 DEF WriteFile, tableVars, FileInv, FreshInv, TableInv, TypeOK
<1>3. ASSUME NEW h \in Bits, NEW n \in 0 .. Len(buckets[h].nodes),
             NEW r \in 0 .. Len(buckets[h].replacementNodes), WriteFileCut(h, n, r)
      PROVE  FileInv'
  <2>1. GoodBuckets(Cut(h, n, r))
    BY CutGood DEF FileInv
  <2>2. GoodBuckets(savedBuckets)'
    BY <1>3, <2>1 DEF WriteFileCut, GoodBuckets
  <2> QED
    BY <1>3, <2>2 DEF WriteFileCut, tableVars, FileInv, FreshInv, TableInv, TypeOK
<1>4. CASE ReadFile
  <2>1. TypeOK'
    BY <1>4 DEF ReadFile, FileInv, FreshInv, TableInv, TypeOK, GoodBuckets
  <2>2. GoodBuckets(buckets)' /\ GoodBuckets(savedBuckets)'
    BY <1>4 DEF ReadFile, FileInv, GoodBuckets
  <2> QED
    BY <2>1, <2>2 DEF FileInv, FreshInv, TableInv, GoodBuckets
<1>5. CASE Table
  <2>1. FreshInv'
    BY <1>5, FreshInvStep DEF Table, FileInv
  <2>2. GoodBuckets(savedBuckets)'
    BY <1>5 DEF Table, FileInv, GoodBuckets
  <2> QED
    BY <2>1, <2>2 DEF FileInv
<1>6. CASE UNCHANGED fileVars
  BY <1>6 DEF fileVars, tableVars, FileInv, FreshInv, TableInv, TypeOK, GoodBuckets
<1> QED
  BY <1>2, <1>3, <1>4, <1>5, <1>6 DEF FileNext

\* Wherever a file ends, and whatever is done to the table between restarts,
\* the table in memory and the one in the file are good
THEOREM FileInvariance == RestartsSpec => []FileInv
<1> QED
  BY FileInitially, FileStep, PTL DEF RestartsSpec

\* No id is ever listed twice in a table that is only told of contacts just
\* heard of, however often the process is killed while it writes the file
THEOREM RestartsListOnce == RestartsSpec => []ListedOnce
<1>1. FileInv => ListedOnce
  BY DEF FileInv, FreshInv, FreshOK, ListedOnce
<1> QED
  BY <1>1, FileInvariance, PTL

\* A table read from a file is a table as pushNode and removeNode need it:
\* nodes in their buckets, lists in order and no longer than the bucket size,
\* and replacements only behind a full list
THEOREM RestartsKeepOrder == RestartsSpec => [](TypeOK /\ Placed /\ ReplacementsWait /\ MostRecentFirst)
<1>1. FileInv => TypeOK /\ Placed /\ ReplacementsWait /\ MostRecentFirst
  BY DEF FileInv, FreshInv, TableInv, PlacedAt, ListedIds, Placed, BucketOK, ReplacementsWait,
         IsFull, MostRecentFirst
<1> QED
  BY <1>1, FileInvariance, PTL

\* With nodes read from a file, however cut, the answers of getClosestTo bring a
\* lookup nearer to its target all the same
THEOREM RestartsProgress == RestartsSpec => []AnswersProgress
<1>1. FileInv => AnswersProgress
  BY AnswersAreNearer DEF FileInv, FreshInv
<1> QED
  BY <1>1, FileInvariance, PTL
=============================================================================
