---------------------------- MODULE RoundsProofs ----------------------------
(***************************************************************************)
(* What holds of the lookups, the searches and the publish task on one     *)
(* routing table, for any ids, replies and numbers of neighbours.          *)
(*                                                                         *)
(* TasksInv is the inductive invariant: beside that of the table, that     *)
(* what the tasks hold was copied from it or made of a contact, that no    *)
(* two nodes in a set of theirs were seen at the same time, and that each  *)
(* node asked has answered, failed, or is still waited for.  From it, the  *)
(* tasks implement the specification of the table, whose invariant they    *)
(* therefore keep.                                                         *)
(***************************************************************************)
EXTENDS Rounds, KadRoutingTableProofs

-----------------------------------------------------------------------------
(* Lists and answers *)

\* SetToSeq lists each element of a finite set at one place
LEMMA SetToSeqLists ==
    ASSUME NEW S, IsFiniteSet(S)
    PROVE  /\ SetToSeq(S) \in Seq(S)
           /\ Len(SetToSeq(S)) = Cardinality(S)
           /\ DOMAIN SetToSeq(S) = 1 .. Cardinality(S)
           /\ ToSet(SetToSeq(S)) = S
<1> DEFINE n == Cardinality(S)
           f == SetToSeq(S)
<1>1. n \in Nat /\ \E g \in [1 .. n -> S] : IsInjective(g)
  BY FS_CardinalityType DEF ExistsBijection, Bijection, Injection
<1>2. f \in [1 .. n -> S] /\ IsInjective(f)
  BY <1>1 DEF SetToSeq
<1> HIDE DEF f
<1>3. IsFiniteSet(1 .. n) /\ Cardinality(1 .. n) = n
  BY <1>1, FS_Interval
<1>4. f \in Surjection(1 .. n, S)
  BY <1>2, <1>3, FS_Injection DEF Injection
<1> HIDE DEF n
<1>5. f \in Seq(S) /\ Len(f) = n /\ DOMAIN f = 1 .. n
  BY <1>1, <1>2, LenProperties
<1>6. ToSet(f) = S
  BY <1>2, <1>4 DEF ToSet, Surjection
<1> QED
  BY <1>5, <1>6 DEF f, n

\* A list of elements of a set is one of any wider set
LEMMA WiderSeq ==
    ASSUME NEW S, NEW T, S \subseteq T, NEW s \in Seq(S)
    PROVE  s \in Seq(T)
<1>1. /\ Len(s) \in Nat /\ s = [i \in 1 .. Len(s) |-> s[i]]
      /\ \A i \in 1 .. Len(s) : s[i] \in T
  OBVIOUS
<1> QED
  BY <1>1

\* Sorting by distance keeps the elements of a list
LEMMA ByDistanceKeeps ==
    ASSUME NEW S, NEW s \in Seq(S), NEW id, NEW t \in ByDistance(s, id)
    PROVE  t \in Seq(S) /\ Len(t) = Len(s) /\ ToSet(t) = ToSet(s)
<1>1. t \in Rearrangements(s)
  BY DEF ByDistance
<1>2. t \in Seq(S) /\ Len(t) = Len(s)
  BY <1>1, RearrangementsElements
<1>3. PICK p : Rearranges(p, s, t)
  BY <1>1, RearrangementsElements
<1>4. ToSet(t) \subseteq ToSet(s)
  BY <1>3 DEF Rearranges, ToSet
<1>5. ASSUME NEW j \in DOMAIN s PROVE s[j] \in ToSet(t)
  <2>1. PICK i \in DOMAIN t : p[i] = j
    BY <1>3 DEF Rearranges
  <2> QED
    BY <1>3, <2>1 DEF Rearranges, ToSet
<1> QED
  BY <1>2, <1>4, <1>5 DEF ToSet

\* The nodes copied for a target
CopiesFor(id, count) == {NodeAt(p) : p \in GetClosestTo(id, count)}

\* An answer of getClosestTo, in whatever order, lists the copies for its target
LEMMA ClosestLists ==
    ASSUME TypeOK, NEW id \in KadIds, NEW count \in Nat, NEW nodes \in Closest(id, count)
    PROVE  /\ nodes \in Seq(CopiesFor(id, count))
           /\ Len(nodes) = Cardinality(GetClosestTo(id, count))
           /\ Len(nodes) <= count
           /\ ToSet(nodes) = CopiesFor(id, count)
<1> DEFINE S == GetClosestTo(id, count)
           places == SetToSeq(S)
           copies == [i \in DOMAIN places |-> NodeAt(places[i])]
<1>1. IsFiniteSet(S) /\ Cardinality(S) <= count
  BY AnswerSize
<1>2. /\ places \in Seq(S) /\ Len(places) = Cardinality(S) /\ ToSet(places) = S
      /\ DOMAIN places = 1 .. Cardinality(S) /\ Cardinality(S) \in Nat
  BY <1>1, SetToSeqLists, FS_CardinalityType
<1> HIDE DEF S, places
<1>3. copies \in Seq({NodeAt(p) : p \in S}) /\ Len(copies) = Cardinality(S)
  BY <1>2
<1>4. ToSet(copies) = {NodeAt(p) : p \in S}
  BY <1>2 DEF ToSet
<1>5. nodes \in ByDistance(copies, id)
  BY DEF Closest, places, S
<1> HIDE DEF copies
<1> QED
  BY <1>1, <1>3, <1>4, <1>5, ByDistanceKeeps DEF CopiesFor, S

-----------------------------------------------------------------------------
(* The inductive invariant *)

\* The nodes a lookup or a round makes of contacts just heard of
FreshNodes == {NewKadNode(c.id, c.address) : c \in Contacts}

\* To the sets of the tasks no two of these nodes are one
SeenApart(nodes) == \A m, n \in nodes : m.lastSeen = n.lastSeen => m = n

\* What the lookup has in its hands it took from the table or made of a contact
\* just heard of
LookupCopies ==
    /\ pc # "idle" => Running
    /\ LookupHolds \subseteq held \cup FreshNodes
    /\ ToSet(discovered) \subseteq FreshNodes
    /\ SeenApart(probed)

LookupInv == LookupTypeOK /\ LookupCopies

\* The types of what a round has
TypeOf(r) ==
    /\ stage[r] \in {"idle", "sending", "reaping", "collected", "applying", "aborted"}
    /\ targets[r] \subseteq KadNodes /\ heard[r] \subseteq KadIds /\ lost[r] \subseteq KadIds
    /\ flight[r] \subseteq asked[r] /\ asked[r] \subseteq targets[r] /\ left[r] \subseteq targets[r]

\* What a round has in its hands it took or made likewise
CopiesOf(r) ==
    /\ stage[r] # "idle" => Running
    /\ targets[r] \subseteq held \cup FreshNodes
    /\ SeenApart(targets[r])

\* Who was asked has answered, failed or is waited for
FlightOf(r) ==
    /\ IsFiniteSet(flight[r])
    /\ Ids(asked[r]) \subseteq heard[r] \cup lost[r] \cup Ids(flight[r])
    /\ stage[r] = "idle" => asked[r] = {} /\ flight[r] = {} /\ left[r] = {}
    /\ stage[r] \in {"collected", "applying"} => asked[r] = targets[r]
    /\ stage[r] \in {"sending", "collected", "applying"} =>
            /\ Cardinality(Ids(flight[r])) < Alpha
            /\ r = "publish" /\ asked[r] = targets[r] => flight[r] = {}

ListTypes ==
    /\ list \in [DOMAIN list -> SUBSET KadIds] /\ DOMAIN list \subseteq targets["publish"]
    /\ kept \subseteq batch /\ batch \subseteq KadIds

\* Every entry that had a neighbour is with a target or stored here
Lists ==
    /\ stage["publish"] = "idle" => list = << >> /\ kept = {} /\ batch = {}
    /\ stage["publish"] # "idle" =>
            /\ DOMAIN list = targets["publish"]
            /\ \A entry \in batch :
                entry \in kept \/ \E kn \in targets["publish"] : entry \in list[kn]

RoundInv ==
    /\ RoundTypeOK
    /\ \A r \in Rounders : CopiesOf(r) /\ FlightOf(r)
    /\ Lists

TasksInv == TableInv /\ LookupInv /\ RoundInv

-----------------------------------------------------------------------------
(* The tasks call the table *)

\* What a task makes of a contact is a node
LEMMA FreshNodesType == FreshNodes \subseteq KadNodes
BY NewKadNodeType, TableAssumption DEF FreshNodes

\* Pushing or removing a node a task may have in its hands is a call of the table
LEMMA TaskCalls ==
    ASSUME NEW kn \in held \cup FreshNodes, Running,
           TableRemove(kn.id) \/ TablePush(kn),
           UNCHANGED <<selfAddress, unread, held, now>>
    PROVE  Next
<1>1. CASE kn \in held
  BY <1>1 DEF PushHeld, RemoveHeld, Next
<1>2. CASE kn \in FreshNodes
  <2>1. PICK c \in Contacts : kn = NewKadNode(c.id, c.address)
    BY <1>2 DEF FreshNodes
  <2>2. kn.id = c.id
    BY <2>1 DEF NewKadNode
  <2> QED
    BY <2>1, <2>2 DEF PushContact, RemoveContact, FreshNext, Next
<1> QED
  BY <1>1, <1>2

\* The targets of the lookups are ids
LEMMA NextTarget ==
    ASSUME LookupTypeOK, BeginLookup
    PROVE  target' \in KadIds /\ bits' \in 0 .. (BitLength - 1)
<1>1. bits \in 0 .. (BitLength - 1) /\ BitLength \in Nat /\ BitLength > 0
  BY BitLengthAssumption DEF LookupTypeOK
<1>2. (BitLength - bits) .. (BitLength - 1) \subseteq Bits
  BY <1>1 DEF Bits
<1>3. SelfId \subseteq Bits
  BY TableAssumption DEF KadIds
<1>4. IdNBitsFarFrom(SelfId, bits) \subseteq Bits
  BY <1>2, <1>3 DEF IdNBitsFarFrom, Distance
<1>5. (bits + 1) % BitLength \in 0 .. (BitLength - 1)
  BY <1>1
<1> QED
  BY <1>4, <1>5 DEF BeginLookup, KadIds

\* Every step of a lookup is a call of the table, or none
LEMMA LookupCalls == TasksInv /\ Lookup => [Next]_tableVars
<1> SUFFICES ASSUME TasksInv, Lookup PROVE [Next]_tableVars
  OBVIOUS
<1>1. CASE BeginLookup
  <2>1. {target'} \in TargetSets /\ Alpha \in Counts
    BY <1>1, NextTarget, LookupAssumption DEF TasksInv, LookupInv
  <2> QED
    BY <1>1, <2>1 DEF BeginLookup, Next
<1>2. CASE Apply
  <2>1. PICK kn \in todo : TableRemove(kn.id) \/ TablePush(kn)
    BY <1>2 DEF Apply
  <2>2. kn \in held \cup FreshNodes /\ Running
    BY <1>2 DEF Apply, TasksInv, LookupInv, LookupTypeOK, LookupCopies, LookupHolds
  <2> QED
    BY <1>2, <2>1, <2>2, TaskCalls DEF Apply
<1>3. CASE EndLookup(RoundsHold(Rounders))
  <2>1. /\ held' = held \ (held \ RoundsHold(Rounders))
        /\ held \ RoundsHold(Rounders) \in SUBSET held
    BY <1>3 DEF EndLookup
  <2> QED
    BY <1>3, <2>1 DEF EndLookup, Release, Next
<1>4. CASE ReapReply \/ ReapFailure \/ PingSelf \/ NextWave \/ GiveUp \/ TakeLock
  BY <1>4 DEF ReapReply, ReapFailure, PingSelf, NextWave, GiveUp, TakeLock
<1> QED
  BY <1>1, <1>2, <1>3, <1>4 DEF Lookup, Locks, Task, LookupStep

\* What the invariant says of one of the rounds
LEMMA RoundParts ==
    ASSUME RoundInv, NEW r \in Rounders
    PROVE  TypeOf(r) /\ CopiesOf(r) /\ FlightOf(r) /\ ListTypes /\ Lists
BY DEF RoundInv, RoundTypeOK, TypeOf, ListTypes

\* Nothing changes of the rounds but what round r has
Only(r) ==
    /\ stage' = [stage EXCEPT ![r] = stage'[r]]
    /\ targets' = [targets EXCEPT ![r] = targets'[r]]
    /\ asked' = [asked EXCEPT ![r] = asked'[r]]
    /\ flight' = [flight EXCEPT ![r] = flight'[r]]
    /\ heard' = [heard EXCEPT ![r] = heard'[r]]
    /\ lost' = [lost EXCEPT ![r] = lost'[r]]
    /\ left' = [left EXCEPT ![r] = left'[r]]

\* So the other stays as it is
LEMMA OtherStays ==
    ASSUME RoundInv, NEW r \in Rounders, Only(r), NEW s \in Rounders \ {r}
    PROVE  UNCHANGED <<stage[s], targets[s], asked[s], flight[s], heard[s], lost[s], left[s]>>
BY DEF RoundInv, RoundTypeOK, Only

\* So is every step of a search or of the publish task
LEMMA RoundCalls == TasksInv /\ Round => [Next]_tableVars
<1> SUFFICES ASSUME TasksInv, Round PROVE [Next]_tableVars
  OBVIOUS
<1>1. CASE BeginSearch
  <2>1. PICK query \in Queries : Snapshot({query}, KClosest)
    BY <1>1 DEF BeginSearch
  <2>2. {query} \in TargetSets /\ KClosest \in Counts
    BY LookupAssumption, RoundsAssumption
  <2> QED
    BY <2>1, <2>2 DEF Next
<1>2. CASE BeginPublish
  <2>1. PICK entries \in Batches : Snapshot(ToSet(entries), KClosest)
    BY <1>2 DEF BeginPublish
  <2>2. ToSet(entries) \in TargetSets /\ KClosest \in Counts
    BY RoundsAssumption
  <2> QED
    BY <2>1, <2>2 DEF Next
<1>3. ASSUME NEW r \in Rounders, RoundApplies(r) PROVE Next
  <2>1. PICK kn \in left[r] : TableRemove(kn.id) \/ TablePush(kn)
    BY <1>3 DEF RoundApplies
  <2>2. kn \in held \cup FreshNodes /\ Running
    BY <1>3, RoundParts DEF RoundApplies, TasksInv, TypeOf, CopiesOf
  <2> QED
    BY <1>3, <2>1, <2>2, TaskCalls DEF RoundApplies
<1>4. ASSUME NEW r \in Rounders, EndRound(r) PROVE Next
  <2> DEFINE still == LookupHolds \cup RoundsHold(Rounders \ {r})
  <2>1. held' = held \ (held \ still) /\ held \ still \in SUBSET held
    BY <1>4 DEF EndRound
  <2> QED
    BY <1>4, <2>1 DEF EndRound, Release, Next
<1>5. ASSUME NEW r \in Rounders,
             SendNext(r) \/ ReapAnswer(r) \/ ReapError(r) \/ RoundPingsSelf(r) \/ RoundOver(r)
                \/ RoundLocks(r)
      PROVE  UNCHANGED tableVars
  BY <1>5 DEF SendNext, ReapAnswer, ReapError, RoundPingsSelf, RoundOver, RoundLocks, lookupVars
<1> QED
  BY <1>1, <1>2, <1>3, <1>4, <1>5 DEF Round, RoundStep

\* Every step of the tasks is a call of the table, or none
LEMMA TasksCall == TasksInv /\ [TasksNext]_tasksVars => [Next]_tableVars
<1> SUFFICES ASSUME TasksInv, [TasksNext]_tasksVars PROVE [Next]_tableVars
  OBVIOUS
<1>1. CASE Contacted
  BY <1>1 DEF Contacted, FreshNext, Next
<1>2. CASE UNCHANGED tasksVars
  BY <1>2 DEF tasksVars, lookupVars
<1> QED
  BY <1>1, <1>2, LookupCalls, RoundCalls DEF TasksNext

-----------------------------------------------------------------------------
(* The lookup *)

\* Another may take copies, and drop those the lookup does not hold
LEMMA LookupUndisturbed ==
    ASSUME LookupInv, UNCHANGED taskVars, held \cap LookupHolds \subseteq held',
           Running => Running'
    PROVE  LookupInv'
<1>1. LookupTypeOK'
  BY DEF LookupInv, LookupTypeOK, taskVars
<1>2. LookupCopies'
  <2>1. LookupHolds' = LookupHolds
    BY DEF LookupHolds, taskVars
  <2>2. LookupHolds' \subseteq held' \cup FreshNodes
    BY <2>1 DEF LookupInv, LookupCopies
  <2> QED
    BY <2>2 DEF LookupInv, LookupCopies, taskVars
<1> QED
  BY <1>1, <1>2 DEF LookupInv

\* The others may call the table, as long as the copies of the rounds stay held
LEMMA RoundUndisturbed ==
    ASSUME RoundInv, UNCHANGED roundVars, held \cap RoundsHold(Rounders) \subseteq held',
           Running => Running'
    PROVE  RoundInv'
<1>1. RoundTypeOK' /\ Lists'
  BY DEF RoundInv, RoundTypeOK, Lists, roundVars, mapVars
<1>2. ASSUME NEW r \in Rounders PROVE CopiesOf(r)' /\ FlightOf(r)'
  <2>1. CopiesOf(r) /\ FlightOf(r)
    BY DEF RoundInv
  <2>2. targets'[r] = targets[r] /\ targets[r] \subseteq RoundsHold(Rounders)
    BY DEF RoundsHold, roundVars
  <2>3. CopiesOf(r)'
    BY <2>1, <2>2 DEF CopiesOf, roundVars
  <2>4. FlightOf(r)'
    BY <2>1 DEF FlightOf, Ids, roundVars
  <2> QED
    BY <2>3, <2>4
<1> QED
  BY <1>1, <1>2 DEF RoundInv

\* The set has at most one node of each second
LEMMA InsertApart ==
    ASSUME NEW s, SeenApart(s), NEW kn
    PROVE  /\ SeenApart(SetInsert(s, kn))
           /\ SetInsert(s, kn) \subseteq s \cup {kn}
           /\ s \subseteq SetInsert(s, kn)
           /\ SetFind(SetInsert(s, kn), kn) # {}
<1>1. CASE SetFind(s, kn) = {}
  BY <1>1 DEF SetFind, SetInsert, SeenApart
<1>2. CASE SetFind(s, kn) # {}
  BY <1>2 DEF SetFind, SetInsert, SeenApart
<1> QED
  BY <1>1, <1>2

\* A wave is of nodes the lookup may have
LEMMA EnterLoopInv ==
    ASSUME LookupInv, NEW wave \in Seq(KadNodes), Len(wave) <= Alpha, EnterLoop(wave),
           ToSet(wave) \subseteq held' \cup FreshNodes,
           probed \subseteq held' \cup FreshNodes,
           UNCHANGED <<probed, failed, todo>>, Running',
           target' \in KadIds, bits' \in 0 .. (BitLength - 1)
    PROVE  LookupInv'
<1>1. alphaClosest' = wave /\ reaped' = 0 /\ discovered' = << >>
  BY DEF EnterLoop
<1>2. Len(wave) \in Nat
  BY LenProperties
<1>3. pc' \in {"probing", "collected"}
  BY DEF EnterLoop
<1>4. LookupTypeOK'
  <2>1. discovered' \in Seq(KadNodes) /\ reaped' \in 0 .. Len(alphaClosest')
    BY <1>1, <1>2, EmptySeq
  <2> QED
    BY <1>1, <1>3, <2>1 DEF LookupInv, LookupTypeOK
<1>5. LookupCopies'
  <2>1. ToSet(discovered') = {}
    BY <1>1 DEF ToSet
  <2>2. LookupHolds' = ToSet(wave) \cup probed
    BY <1>1 DEF LookupHolds
  <2> QED
    BY <2>1, <2>2 DEF LookupInv, LookupCopies
<1> QED
  BY <1>4, <1>5 DEF LookupInv

\* Copies are node records
LEMMA CopiesType ==
    ASSUME TypeOK, NEW id, NEW count
    PROVE  CopiesFor(id, count) \subseteq KadNodes
BY PlacesType DEF CopiesFor, GetClosestTo

\* What is taken together for some targets holds what is taken for each of them
LEMMA SnapshotTakes ==
    ASSUME NEW ids, NEW count, Snapshot(ids, count), NEW id \in ids
    PROVE  CopiesFor(id, count) \subseteq held' /\ held \subseteq held'
BY DEF Snapshot, CopiesFor

\* A lookup begins with the copies its snapshot took
LEMMA BeginLookupInv == ASSUME TasksInv, BeginLookup PROVE LookupInv'
<1>1. LookupInv /\ TypeOK /\ pc = "idle"
  BY DEF TasksInv, TableInv, BeginLookup
<1>2. target' \in KadIds /\ bits' \in 0 .. (BitLength - 1)
  BY <1>1, NextTarget DEF LookupInv
<1>3. PICK id \in KadIds : id = target'
  BY <1>2
<1>4. Snapshot({id}, Alpha) /\ \E wave \in Closest(id, Alpha) : EnterLoop(wave)
  BY <1>3 DEF BeginLookup
<1>5. PICK wave \in Closest(id, Alpha) : EnterLoop(wave)
  BY <1>4
<1>6. Alpha \in Nat
  BY LookupAssumption
<1>7. wave \in Seq(KadNodes) /\ Len(wave) <= Alpha /\ ToSet(wave) = CopiesFor(id, Alpha)
  BY <1>1, <1>6, ClosestLists, CopiesType, WiderSeq
<1>8. ToSet(wave) \subseteq held' /\ held \subseteq held'
  BY <1>4, <1>7, SnapshotTakes
<1>9. probed \subseteq held' \cup FreshNodes
  BY <1>1, <1>8 DEF LookupInv, LookupCopies, LookupHolds
<1>10. Running' /\ UNCHANGED <<probed, failed, todo>>
  BY <1>1 DEF BeginLookup, Snapshot, Running
<1> QED
  BY <1>1, <1>2, <1>5, <1>7, <1>8, <1>9, <1>10, EnterLoopInv

\* What a reply tells of is listed
LEMMA NewsLists ==
    ASSUME NEW reply \in Replies, NEW s
    PROVE  /\ SetToSeq(News(reply, s)) \in Seq(FreshNodes)
           /\ ToSet(SetToSeq(News(reply, s))) \subseteq FreshNodes
<1> DEFINE told == {NewKadNode(c.id, c.address) : c \in reply}
<1>1. reply \subseteq Contacts /\ IsFiniteSet(reply)
  BY LookupAssumption
<1>2. [c \in reply |-> NewKadNode(c.id, c.address)] \in Surjection(reply, told)
  BY DEF Surjection
<1>3. IsFiniteSet(told)
  BY <1>1, <1>2, FS_Surjection
<1>4. News(reply, s) \subseteq told /\ told \subseteq FreshNodes
  BY <1>1 DEF News, FreshNodes
<1>5. IsFiniteSet(News(reply, s))
  BY <1>3, <1>4, FS_Subset
<1>6. /\ SetToSeq(News(reply, s)) \in Seq(News(reply, s))
      /\ ToSet(SetToSeq(News(reply, s))) = News(reply, s)
  BY <1>5, SetToSeqLists
<1> QED
  BY <1>4, <1>6, WiderSeq

\* One more of the wave is probed
LEMMA ProbedOne ==
    ASSUME LookupInv, pc = "probing", reaped < Len(alphaClosest), reaped' = reaped + 1,
           probed' = SetInsert(probed, alphaClosest[reaped'])
    PROVE  /\ reaped' \in 0 .. Len(alphaClosest)
           /\ alphaClosest[reaped'] \in KadNodes /\ alphaClosest[reaped'] \in ToSet(alphaClosest)
           /\ probed \subseteq probed' /\ SeenApart(probed')
           /\ probed' \subseteq probed \cup ToSet(alphaClosest) /\ probed' \subseteq KadNodes
<1>1. /\ alphaClosest \in Seq(KadNodes) /\ Len(alphaClosest) \in Nat
      /\ DOMAIN alphaClosest = 1 .. Len(alphaClosest)
      /\ reaped \in 0 .. Len(alphaClosest) /\ probed \subseteq KadNodes
  BY LenProperties DEF LookupInv, LookupTypeOK
<1>2. reaped' \in 1 .. Len(alphaClosest)
  BY <1>1
<1>3. alphaClosest[reaped'] \in KadNodes /\ alphaClosest[reaped'] \in ToSet(alphaClosest)
  BY <1>1, <1>2, ElementOfSeq DEF ToSet
<1>4. SeenApart(probed)
  BY DEF LookupInv, LookupCopies
<1> QED
  BY <1>1, <1>2, <1>3, <1>4, InsertApart

\* A turn of a wave, answered or not, tells of no more than contacts just heard of
LEMMA ReapInv ==
    ASSUME LookupInv, pc = "probing", reaped < Len(alphaClosest), reaped' = reaped + 1,
           probed' = SetInsert(probed, alphaClosest[reaped']),
           NEW news \in Seq(FreshNodes), discovered' = discovered \o news,
           failed' \subseteq KadIds,
           UNCHANGED <<tableVars, pc, bits, target, alphaClosest, todo>>
    PROVE  LookupInv'
<1>1. /\ reaped' \in 0 .. Len(alphaClosest)
      /\ alphaClosest[reaped'] \in KadNodes /\ alphaClosest[reaped'] \in ToSet(alphaClosest)
      /\ probed \subseteq probed' /\ SeenApart(probed')
      /\ probed' \subseteq probed \cup ToSet(alphaClosest) /\ probed' \subseteq KadNodes
  BY ProbedOne
<1>2. discovered' \in Seq(KadNodes) /\ ToSet(discovered') \subseteq FreshNodes
  <2>1. /\ discovered \in Seq(KadNodes) /\ news \in Seq(KadNodes)
        /\ ToSet(discovered) \subseteq FreshNodes
    BY FreshNodesType, WiderSeq DEF LookupInv, LookupTypeOK, LookupCopies
  <2>2. \A i \in 1 .. Len(discovered) : discovered[i] \in FreshNodes
    BY <2>1, LenProperties DEF ToSet
  <2>3. \A i \in 1 .. Len(news) : news[i] \in FreshNodes
    BY ElementOfSeq
  <2>4. \A i \in 1 .. Len(discovered \o news) : (discovered \o news)[i] \in FreshNodes
    BY <2>1, <2>2, <2>3
  <2> QED
    BY <2>1, <2>4 DEF ToSet
<1>3. LookupTypeOK'
  BY <1>1, <1>2 DEF LookupInv, LookupTypeOK
<1>4. LookupCopies'
  BY <1>1, <1>2 DEF LookupInv, LookupCopies, LookupHolds, Running, tableVars
<1> QED
  BY <1>3, <1>4 DEF LookupInv

\* The next wave, made of what the replies told
LEMMA NextWaveInv == ASSUME TasksInv, NextWave PROVE LookupInv'
<1>1. LookupInv /\ pc = "probing"
  BY DEF TasksInv, NextWave
<1>2. PICK s \in ByDistance(discovered, target) : EnterLoop(FirstAlpha(s))
  BY DEF NextWave
<1>3. /\ discovered \in Seq(KadNodes) /\ ToSet(discovered) \subseteq FreshNodes
      /\ Alpha \in Nat /\ Alpha # 0
  BY <1>1, LookupAssumption DEF LookupInv, LookupTypeOK, LookupCopies
<1>4. s \in Seq(KadNodes) /\ Len(s) = Len(discovered) /\ ToSet(s) \subseteq FreshNodes
  BY <1>3, ByDistanceKeeps
<1> DEFINE wave == FirstAlpha(s)
<1>5. /\ wave \in Seq(KadNodes) /\ Len(wave) <= Alpha
      /\ ToSet(wave) \subseteq ToSet(s) /\ Len(wave) <= Len(s)
  <2> DEFINE m == IF Len(s) < Alpha THEN Len(s) ELSE Alpha
  <2>1. Len(s) \in Nat /\ DOMAIN s = 1 .. Len(s) /\ \A i \in 1 .. Len(s) : s[i] \in KadNodes
    BY <1>4, LenProperties, ElementOfSeq
  <2>2. m \in Nat /\ m <= Alpha /\ m <= Len(s)
    BY <1>3, <2>1
  <2>3. wave = SubSeq(s, 1, m)
    BY DEF FirstAlpha
  <2> HIDE DEF wave, m
  <2>4. /\ wave \in Seq(KadNodes) /\ Len(wave) = m /\ DOMAIN wave = 1 .. m
        /\ \A i \in 1 .. m : wave[i] = s[i]
    BY <1>4, <2>1, <2>2, <2>3
  <2>5. ToSet(wave) \subseteq ToSet(s)
    BY <2>1, <2>2, <2>4 DEF ToSet
  <2> QED
    BY <2>2, <2>4, <2>5
<1>8. /\ UNCHANGED <<probed, failed, todo>> /\ Running'
      /\ target' \in KadIds /\ bits' \in 0 .. (BitLength - 1)
      /\ probed \subseteq held' \cup FreshNodes
  BY <1>1 DEF NextWave, LookupInv, LookupTypeOK, LookupCopies, LookupHolds, Running, tableVars
<1>9. ToSet(wave) \subseteq held' \cup FreshNodes
  BY <1>4, <1>5
<1> HIDE DEF wave
<1> QED
  BY <1>1, <1>2, <1>5, <1>8, <1>9, EnterLoopInv DEF wave

\* A step of the lookup keeps both invariants
LEMMA LookupKept == ASSUME TasksInv, Lookup PROVE LookupInv' /\ RoundInv'
<1>1. LookupInv /\ RoundInv /\ UNCHANGED roundVars
  BY DEF TasksInv, Lookup, Locks
<1>2. CASE BeginLookup
  <2>1. held \cap RoundsHold(Rounders) \subseteq held' /\ (Running => Running')
    BY <1>2 DEF BeginLookup, Snapshot, Running
  <2> QED
    BY <1>1, <1>2, <2>1, BeginLookupInv, RoundUndisturbed
<1>3. ASSUME UNCHANGED tableVars PROVE RoundInv'
  BY <1>1, <1>3, RoundUndisturbed DEF tableVars, Running
<1>4. CASE ReapReply
  <2>1. PICK reply \in Replies : discovered' = discovered \o SetToSeq(News(reply, probed'))
    BY <1>4 DEF ReapReply
  <2>2. PICK s : s = probed'
    OBVIOUS
  <2>3. PICK news \in Seq(FreshNodes) : discovered' = discovered \o news
    BY <2>1, <2>2, NewsLists
  <2>4. failed' \subseteq KadIds
    BY <1>1, <1>4 DEF ReapReply, LookupInv, LookupTypeOK
  <2>5. LookupInv'
    BY <1>1, <1>4, <2>3, <2>4, ReapInv DEF ReapReply
  <2> QED
    BY <1>3, <1>4, <2>5 DEF ReapReply
<1>5. CASE ReapFailure
  <2>1. failed' \subseteq KadIds
    <3>1. alphaClosest[reaped'] \in KadNodes
      BY <1>1, <1>5, ProbedOne DEF ReapFailure
    <3> QED
      BY <1>1, <1>5, <3>1 DEF ReapFailure, LookupInv, LookupTypeOK, KadNodes
  <2>2. << >> \in Seq(FreshNodes) /\ discovered' = discovered \o << >>
    BY <1>1, <1>5, EmptySeq DEF ReapFailure, LookupInv, LookupTypeOK
  <2>3. LookupInv'
    BY <1>1, <1>5, <2>1, <2>2, ReapInv DEF ReapFailure
  <2> QED
    BY <1>3, <1>5, <2>3 DEF ReapFailure
<1>6. CASE PingSelf \/ GiveUp \/ TakeLock
  <2>1. LookupTypeOK'
    BY <1>1, <1>6 DEF PingSelf, GiveUp, TakeLock, LookupInv, LookupTypeOK
  <2>2. LookupCopies'
    BY <1>1, <1>6
    DEF PingSelf, GiveUp, TakeLock, LookupInv, LookupCopies, LookupHolds, Running, tableVars
  <2> QED
    BY <1>3, <1>6, <2>1, <2>2 DEF PingSelf, GiveUp, TakeLock, LookupInv
<1>7. CASE NextWave
  BY <1>3, <1>7, NextWaveInv DEF NextWave
<1>8. CASE Apply
  <2>1. LookupTypeOK'
    BY <1>1, <1>8 DEF Apply, LookupInv, LookupTypeOK
  <2>2. LookupCopies'
    BY <1>1, <1>8 DEF Apply, LookupInv, LookupCopies, LookupHolds, Running
  <2>3. RoundInv'
    BY <1>1, <1>8, RoundUndisturbed DEF Apply, Running
  <2> QED
    BY <2>1, <2>2, <2>3 DEF LookupInv
<1>9. CASE EndLookup(RoundsHold(Rounders))
  <2>1. LookupTypeOK'
    BY <1>1, <1>9, EmptySeq, TableAssumption, LookupAssumption
    DEF EndLookup, LookupInv, LookupTypeOK
  <2>2. LookupCopies'
    BY <1>1, <1>9 DEF EndLookup, LookupInv, LookupCopies, LookupHolds, ToSet, SeenApart
  <2>3. RoundInv'
    BY <1>1, <1>9, RoundUndisturbed DEF EndLookup, Running
  <2> QED
    BY <2>1, <2>2, <2>3 DEF LookupInv
<1> QED
  BY <1>2, <1>4, <1>5, <1>6, <1>7, <1>8, <1>9 DEF Lookup, Locks, Task, LookupStep

-----------------------------------------------------------------------------
(* The rounds *)

\* The first of some nodes of each second are set apart
LEMMA InsertAllApart ==
    ASSUME NEW T, NEW nodes \in Seq(T)
    PROVE  InsertAll({}, nodes) \subseteq ToSet(nodes) /\ SeenApart(InsertAll({}, nodes))
<1> DEFINE first(j) == \A k \in 1 .. (j - 1) : nodes[k].lastSeen # nodes[j].lastSeen
<1>1. DOMAIN nodes = 1 .. Len(nodes) /\ Len(nodes) \in Nat
  BY LenProperties
<1>2. \A n \in InsertAll({}, nodes) : \E j \in DOMAIN nodes : n = nodes[j] /\ first(j)
  BY DEF InsertAll
<1>3. ASSUME NEW i \in DOMAIN nodes, NEW j \in DOMAIN nodes, first(i), first(j),
             nodes[i].lastSeen = nodes[j].lastSeen
      PROVE  i = j
  BY <1>1, <1>3
<1> HIDE DEF first
<1> QED
  BY <1>2, <1>3 DEF ToSet, SeenApart

\* Of two ids one at most is less than the other
LEMMA LessOneWay ==
    ASSUME NEW a \in KadIds, NEW b \in KadIds, Less(a, b)
    PROVE  ~Less(b, a)
<1>1. Distance(a, b) \in KadIds /\ Distance(a, b) # {} /\ Distance(a, b) = Distance(b, a)
  BY DistanceZero DEF Less, Distance
<1>2. Height(Distance(a, b)) \in Distance(a, b)
  BY <1>1, HeightOfNonZero
<1> QED
  BY <1>1, <1>2 DEF Less, Distance

\* Of the contacts of a reply one at most is inserted
LEMMA InsertReplyApart ==
    ASSUME NEW s, SeenApart(s), NEW reply \in Replies
    PROVE  /\ SeenApart(InsertReply(s, reply))
           /\ s \subseteq InsertReply(s, reply)
           /\ InsertReply(s, reply) \subseteq s \cup FreshNodes
<1> DEFINE told == {NewKadNode(c.id, c.address) : c \in reply}
           new == {kn \in told : /\ SetFind(s, kn) = {}
                                 /\ \A n \in told : n = kn \/ Less(kn.id, n.id)}
<1>1. told \subseteq FreshNodes
  BY LookupAssumption DEF FreshNodes
<1>2. InsertReply(s, reply) = s \cup new
  BY DEF InsertReply
<1>3. \A m, n \in new : m = n
  <2> SUFFICES ASSUME NEW m \in new, NEW n \in new, m # n PROVE FALSE
    OBVIOUS
  <2>1. Less(m.id, n.id) /\ Less(n.id, m.id)
    OBVIOUS
  <2>2. m.id \in KadIds /\ n.id \in KadIds
    BY <1>1, FreshNodesType DEF KadNodes
  <2> QED
    BY <2>1, <2>2, LessOneWay
<1>4. \A m \in new : \A n \in s : m.lastSeen # n.lastSeen
  BY DEF SetFind
<1>5. new \subseteq told
  OBVIOUS
<1> HIDE DEF new, told
<1> QED
  BY <1>1, <1>2, <1>3, <1>4, <1>5 DEF SeenApart

\* The entries that have a neighbour
WithNeighbour(entries) == {id \in ToSet(entries) : GetClosestTo(id, KClosest) # {}}

\* The map the loop over the entries leaves: its keys are copies of neighbours, no
\* two seen at the same second, and it has every entry that has a neighbour
LEMMA MapOfLists ==
    ASSUME TypeOK, NEW entries \in Seq(KadIds), NEW map \in PublishMaps(entries)
    PROVE  /\ DOMAIN map \subseteq UNION {CopiesFor(id, KClosest) : id \in ToSet(entries)}
           /\ SeenApart(DOMAIN map)
           /\ \A kn \in DOMAIN map : map[kn] \subseteq WithNeighbour(entries)
           /\ \A id \in WithNeighbour(entries) : \E kn \in DOMAIN map : id \in map[kn]
<1>1. PICK orders \in Orders(entries) : map = MapOf(entries, orders)
  BY DEF PublishMaps
<1> DEFINE turns == UNION {{i} \X DOMAIN orders[i] : i \in DOMAIN orders}
           N(t) == orders[t[1]][t[2]]
           Before(t, u) == t[1] < u[1] \/ (t[1] = u[1] /\ t[2] < u[2])
           firsts == {u \in turns : \A v \in turns : Before(v, u) => N(v).lastSeen # N(u).lastSeen}
           given(kn) == {u \in turns : N(u).lastSeen = kn.lastSeen}
<1>2. /\ DOMAIN map = {N(t) : t \in firsts}
      /\ \A kn \in DOMAIN map : map[kn] = {entries[t[1]] : t \in given(kn)}
  BY <1>1 DEF MapOf
<1>3. /\ DOMAIN entries = 1 .. Len(entries) /\ Len(entries) \in Nat
      /\ \A i \in DOMAIN entries : entries[i] \in KadIds /\ entries[i] \in ToSet(entries)
  BY LenProperties, ElementOfSeq DEF ToSet
<1>4. DOMAIN orders = DOMAIN entries
      /\ \A i \in DOMAIN entries : orders[i] \in Closest(entries[i], KClosest)
  BY DEF Orders
<1>5. KClosest \in Nat
  BY RoundsAssumption, TableAssumption
<1>6. ASSUME NEW i \in DOMAIN entries
      PROVE  /\ DOMAIN orders[i] = 1 .. Len(orders[i]) /\ Len(orders[i]) \in Nat
             /\ Len(orders[i]) = Cardinality(GetClosestTo(entries[i], KClosest))
             /\ \A j \in DOMAIN orders[i] : orders[i][j] \in CopiesFor(entries[i], KClosest)
  <2>1. /\ orders[i] \in Seq(CopiesFor(entries[i], KClosest))
        /\ Len(orders[i]) = Cardinality(GetClosestTo(entries[i], KClosest))
    BY <1>3, <1>4, <1>5, ClosestLists
  <2> QED
    BY <2>1, LenProperties, ElementOfSeq
<1>7. \A t \in turns :
        /\ t[1] \in DOMAIN entries /\ t[2] \in DOMAIN orders[t[1]]
        /\ t[1] \in Nat /\ t[2] \in Nat /\ t = <<t[1], t[2]>>
  BY <1>3, <1>4, <1>6
<1>8. \A i \in DOMAIN entries : \A j \in DOMAIN orders[i] : <<i, j>> \in turns
  BY <1>4
<1> HIDE DEF turns
<1>9. DOMAIN map \subseteq UNION {CopiesFor(id, KClosest) : id \in ToSet(entries)}
  BY <1>2, <1>3, <1>6, <1>7
<1>10. SeenApart(DOMAIN map)
  <2>1. ASSUME NEW t \in firsts, NEW u \in firsts, N(t).lastSeen = N(u).lastSeen PROVE t = u
    <3>1. ~Before(t, u) /\ ~Before(u, t)
      BY <2>1
    <3>2. t[1] = u[1] /\ t[2] = u[2]
      BY <1>7, <3>1
    <3> QED
      BY <1>7, <3>2
  <2> HIDE DEF firsts, N
  <2> QED
    BY <1>2, <2>1 DEF SeenApart
<1>11. ASSUME NEW kn \in DOMAIN map, NEW id \in map[kn] PROVE id \in WithNeighbour(entries)
  <2>1. PICK t \in turns : id = entries[t[1]]
    BY <1>2
  <2>2. PICK i \in DOMAIN entries : i = t[1]
    BY <1>7
  <2>3. DOMAIN orders[i] # {}
    BY <1>7, <2>2
  <2>4. Len(orders[i]) # 0
    BY <1>6, <2>3
  <2>5. GetClosestTo(id, KClosest) # {}
    BY <1>6, <2>1, <2>2, <2>4, FS_EmptySet
  <2> QED
    BY <1>3, <2>1, <2>2, <2>5 DEF WithNeighbour
<1>12. ASSUME NEW id \in WithNeighbour(entries) PROVE \E kn \in DOMAIN map : id \in map[kn]
  <2>1. PICK i \in DOMAIN entries : id = entries[i]
    BY DEF WithNeighbour, ToSet
  <2>2. IsFiniteSet(GetClosestTo(id, KClosest)) /\ GetClosestTo(id, KClosest) # {}
    BY <1>3, <1>5, <2>1, AnswerSize DEF WithNeighbour
  <2>3. Len(orders[i]) # 0
    BY <1>6, <2>1, <2>2, FS_EmptySet
  <2>4. 1 \in DOMAIN orders[i]
    BY <1>6, <2>3
  <2> DEFINE s == orders[i][1].lastSeen
             rows == {t[1] : t \in {u \in turns : N(u).lastSeen = s}}
  <2>5. <<i, 1>> \in turns /\ N(<<i, 1>>).lastSeen = s
    BY <1>8, <2>4
  <2>6. i \in rows
    BY <2>5
  <2>7. rows \subseteq Nat
    BY <1>7
  <2> HIDE DEF rows
  <2>8. PICK r \in rows : \A x \in rows : r <= x
    BY <2>6, <2>7, LeastElement
  <2> DEFINE cols == {t[2] : t \in {u \in turns : N(u).lastSeen = s /\ u[1] = r}}
  <2>9. cols \subseteq Nat /\ cols # {}
    BY <1>7, <2>8 DEF rows
  <2> HIDE DEF cols
  <2>10. PICK c \in cols : \A x \in cols : c <= x
    BY <2>9, LeastElement
  <2>11. PICK u \in turns : N(u).lastSeen = s /\ u[1] = r /\ u[2] = c
    BY <2>10 DEF cols
  <2>12. ASSUME NEW v \in turns, Before(v, u), N(v).lastSeen = s PROVE FALSE
    <3>1. v[1] \in rows
      BY <2>12 DEF rows
    <3>2. r <= v[1] /\ v[1] = r
      BY <1>7, <2>8, <2>11, <2>12, <3>1
    <3>3. v[2] \in cols
      BY <2>12, <3>2 DEF cols
    <3> QED
      BY <1>7, <2>10, <2>11, <2>12, <3>2, <3>3
  <2>13. u \in firsts
    BY <2>11, <2>12
  <2>14. N(u) \in DOMAIN map
    BY <1>2, <2>13
  <2>15. <<i, 1>> \in given(N(u)) /\ id = entries[<<i, 1>>[1]]
    BY <2>1, <2>5, <2>11
  <2> HIDE DEF N, given, firsts
  <2> QED
    BY <1>2, <2>14, <2>15
<1> QED
  BY <1>9, <1>10, <1>11, <1>12

\* The ids of finitely many nodes are finitely many, and there are no more of fewer
LEMMA IdsFinite ==
    ASSUME NEW S, IsFiniteSet(S)
    PROVE  IsFiniteSet(Ids(S)) /\ Cardinality(Ids(S)) \in Nat
<1>1. [kn \in S |-> kn.id] \in Surjection(S, Ids(S))
  BY DEF Surjection, Ids
<1> QED
  BY <1>1, FS_Surjection, FS_CardinalityType

\* Nobody is asked when a round begins
LEMMA NoIds == Ids({}) = {} /\ Cardinality(Ids({})) < Alpha
BY FS_EmptySet, LookupAssumption DEF Ids

\* When one round changes it is enough to look at that one
LEMMA OneRound ==
    ASSUME RoundInv, NEW r \in Rounders, Only(r), TypeOf(r)', CopiesOf(r)', FlightOf(r)',
           ListTypes', Lists', held \cap RoundsHold(Rounders \ {r}) \subseteq held',
           Running => Running'
    PROVE  RoundInv'
<1>1. RoundTypeOK'
  <2>1. \A s \in Rounders : TypeOf(s)'
    <3> SUFFICES ASSUME NEW s \in Rounders \ {r} PROVE TypeOf(s)'
      OBVIOUS
    <3>1. TypeOf(s)
      BY RoundParts
    <3> QED
      BY <3>1, OtherStays DEF TypeOf
  <2>2. \A s \in Rounders :
            /\ targets'[s] \subseteq KadNodes /\ asked'[s] \subseteq KadNodes
            /\ flight'[s] \subseteq KadNodes /\ left'[s] \subseteq KadNodes
    BY <2>1 DEF TypeOf
  <2>3. /\ stage' \in [Rounders ->
                {"idle", "sending", "reaping", "collected", "applying", "aborted"}]
        /\ targets' \in [Rounders -> SUBSET KadNodes] /\ asked' \in [Rounders -> SUBSET KadNodes]
        /\ flight' \in [Rounders -> SUBSET KadNodes] /\ left' \in [Rounders -> SUBSET KadNodes]
        /\ heard' \in [Rounders -> SUBSET KadIds] /\ lost' \in [Rounders -> SUBSET KadIds]
    BY <2>1, <2>2 DEF RoundInv, RoundTypeOK, Only, TypeOf
  <2> QED
    BY <2>1, <2>3 DEF RoundTypeOK, TypeOf, ListTypes
<1>2. ASSUME NEW s \in Rounders \ {r} PROVE CopiesOf(s)' /\ FlightOf(s)'
  <2>1. CopiesOf(s) /\ FlightOf(s)
    BY DEF RoundInv
  <2>2. UNCHANGED <<stage[s], targets[s], asked[s], flight[s], heard[s], lost[s], left[s]>>
    BY OtherStays
  <2>3. held \cap targets[s] \subseteq held'
    BY DEF RoundsHold
  <2>4. CopiesOf(s)'
    BY <2>1, <2>2, <2>3 DEF CopiesOf
  <2>5. FlightOf(s)'
    BY <2>1, <2>2 DEF FlightOf, Ids
  <2> QED
    BY <2>4, <2>5
<1> QED
  BY <1>1, <1>2 DEF RoundInv

\* The map of the publish task stays as it was made while its round goes on, and a
\* search has nothing to do with it
LEMMA MapStays ==
    ASSUME RoundInv, NEW r \in Rounders, Only(r), UNCHANGED mapVars,
           r = "publish" => stage[r] # "idle" /\ stage'[r] # "idle" /\ targets'[r] = targets[r]
    PROVE  ListTypes' /\ Lists'
<1>1. ListTypes /\ Lists /\ "publish" \in Rounders
  BY RoundParts DEF Rounders
<1>2. CASE r = "publish"
  BY <1>1, <1>2 DEF ListTypes, Lists, mapVars
<1>3. CASE r # "publish"
  <2>1. stage'["publish"] = stage["publish"] /\ targets'["publish"] = targets["publish"]
    BY <1>1, <1>3, OtherStays
  <2> QED
    BY <1>1, <2>1 DEF ListTypes, Lists, mapVars
<1> QED
  BY <1>2, <1>3

\* Where a round is when it begins
LEMMA Begun ==
    ASSUME RoundInv, NEW r \in Rounders, Begins(r)
    PROVE  /\ stage[r] = "idle" /\ stage'[r] = "sending"
           /\ asked'[r] = {} /\ flight'[r] = {} /\ left'[r] = {}
           /\ heard'[r] = heard[r] /\ lost'[r] = lost[r]
           /\ heard'[r] \subseteq KadIds /\ lost'[r] \subseteq KadIds
           /\ FlightOf(r)'
<1>1. TypeOf(r) /\ FlightOf(r) /\ stage[r] = "idle"
  BY RoundParts DEF Begins
<1>2. /\ stage'[r] = "sending"
      /\ asked'[r] = {} /\ flight'[r] = {} /\ left'[r] = {}
      /\ heard'[r] = heard[r] /\ lost'[r] = lost[r]
  BY <1>1 DEF Begins, FlightOf, RoundInv, RoundTypeOK
<1>3. FlightOf(r)'
  BY <1>2, NoIds, FS_EmptySet DEF FlightOf
<1> QED
  BY <1>1, <1>2, <1>3 DEF TypeOf

\* A search begins with nodes its snapshot took, no two seen at the same time
LEMMA BeginSearchInv == ASSUME TasksInv, BeginSearch PROVE RoundInv'
<1>1. RoundInv /\ TypeOK /\ Begins("search") /\ "search" \in Rounders /\ UNCHANGED mapVars
  BY DEF TasksInv, TableInv, BeginSearch, Rounders
<1> DEFINE r == "search"
<1> HIDE DEF r
<1>2. PICK query \in Queries :
        /\ Snapshot({query}, KClosest)
        /\ \E nodes \in Closest(query, KClosest) :
            targets' = [targets EXCEPT ![r] = InsertAll({}, nodes)]
  BY DEF BeginSearch, r
<1>3. PICK nodes \in Closest(query, KClosest) :
        targets' = [targets EXCEPT ![r] = InsertAll({}, nodes)]
  BY <1>2
<1>4. query \in KadIds /\ KClosest \in Nat
  BY RoundsAssumption, TableAssumption
<1>5. nodes \in Seq(CopiesFor(query, KClosest)) /\ ToSet(nodes) = CopiesFor(query, KClosest)
  BY <1>1, <1>4, ClosestLists
<1>6. r \in Rounders /\ Begins(r) /\ r # "publish"
  BY <1>1 DEF r
<1>7. Only(r) /\ targets'[r] = InsertAll({}, nodes)
  BY <1>1, <1>3, <1>6 DEF Only, Begins, RoundInv, RoundTypeOK
<1>8. targets'[r] \subseteq CopiesFor(query, KClosest) /\ SeenApart(targets'[r])
  BY <1>5, <1>7, InsertAllApart
<1>9. targets'[r] \subseteq held' /\ targets'[r] \subseteq KadNodes /\ held \subseteq held'
  BY <1>1, <1>2, <1>8, SnapshotTakes, CopiesType
<1>10. Running' /\ Running
  BY <1>2 DEF Snapshot, Running
<1>11. TypeOf(r)' /\ FlightOf(r)'
  BY <1>1, <1>6, <1>9, Begun DEF TypeOf
<1>12. CopiesOf(r)'
  BY <1>8, <1>9, <1>10 DEF CopiesOf
<1>13. ListTypes' /\ Lists'
  BY <1>1, <1>6, <1>7, MapStays
<1> QED
  BY <1>1, <1>6, <1>7, <1>9, <1>10, <1>11, <1>12, <1>13, OneRound

\* A publish begins with a map that has every entry with a neighbour
LEMMA BeginPublishInv == ASSUME TasksInv, BeginPublish PROVE RoundInv'
<1>1. RoundInv /\ TypeOK /\ Begins("publish") /\ "publish" \in Rounders
  BY DEF TasksInv, TableInv, BeginPublish, Rounders
<1>2. PICK entries \in Batches :
        /\ Snapshot(ToSet(entries), KClosest)
        /\ batch' = {id \in ToSet(entries) : GetClosestTo(id, KClosest) # {}}
        /\ \E map \in PublishMaps(entries) :
            LET here == {kn \in DOMAIN map : kn.lastSeen = 0}
                there == (DOMAIN map) \ here
            IN  /\ targets' = [targets EXCEPT !["publish"] = there]
                /\ list' = [kn \in there |-> map[kn]]
                /\ kept' = UNION {map[kn] : kn \in here}
  BY DEF BeginPublish
<1>3. PICK map \in PublishMaps(entries) :
        LET here == {kn \in DOMAIN map : kn.lastSeen = 0}
            there == (DOMAIN map) \ here
        IN  /\ targets' = [targets EXCEPT !["publish"] = there]
            /\ list' = [kn \in there |-> map[kn]]
            /\ kept' = UNION {map[kn] : kn \in here}
  BY <1>2
<1> DEFINE here == {kn \in DOMAIN map : kn.lastSeen = 0}
           there == (DOMAIN map) \ here
<1>4. /\ targets' = [targets EXCEPT !["publish"] = there]
      /\ list' = [kn \in there |-> map[kn]]
      /\ kept' = UNION {map[kn] : kn \in here}
  BY <1>3
<1>5. entries \in Seq(KadIds) /\ ToSet(entries) \subseteq KadIds
  BY RoundsAssumption, LenProperties, ElementOfSeq DEF ToSet
<1>6. /\ DOMAIN map \subseteq UNION {CopiesFor(id, KClosest) : id \in ToSet(entries)}
      /\ SeenApart(DOMAIN map)
      /\ \A kn \in DOMAIN map : map[kn] \subseteq batch'
      /\ \A id \in batch' : \E kn \in DOMAIN map : id \in map[kn]
  BY <1>1, <1>2, <1>5, MapOfLists DEF WithNeighbour
<1>7. DOMAIN map \subseteq held' /\ DOMAIN map \subseteq KadNodes /\ held \subseteq held'
  <2>1. \A id \in ToSet(entries) :
            CopiesFor(id, KClosest) \subseteq held' /\ CopiesFor(id, KClosest) \subseteq KadNodes
    BY <1>1, <1>2, SnapshotTakes, CopiesType
  <2>2. held \subseteq held'
    BY <1>2 DEF Snapshot
  <2> QED
    BY <1>6, <2>1, <2>2
<1>8. /\ there \subseteq DOMAIN map /\ here \subseteq DOMAIN map
      /\ \A kn \in DOMAIN map : kn \in there \/ kn \in here
  OBVIOUS
<1> HIDE DEF there, here
<1> DEFINE r == "publish"
<1> HIDE DEF r
<1>9. r \in Rounders /\ Begins(r) /\ r = "publish"
  BY <1>1 DEF r
<1>10. Only(r) /\ targets'[r] = there
  <2>1. targets' = [targets EXCEPT ![r] = there]
    BY <1>4, <1>9
  <2> HIDE DEF there
  <2>2. targets'[r] = there
    BY <1>1, <1>9, <2>1 DEF RoundInv, RoundTypeOK
  <2>3. UNCHANGED <<asked, flight, heard, lost, left>> /\ stage' = [stage EXCEPT ![r] = "sending"]
    BY <1>9 DEF Begins
  <2>4. Only(r)
    BY <1>1, <1>9, <2>1, <2>2, <2>3 DEF Only, RoundInv, RoundTypeOK
  <2> QED
    BY <2>2, <2>4
<1>11. batch' \subseteq KadIds /\ kept' \subseteq batch'
  <2>1. batch' \subseteq KadIds
    BY <1>2, <1>5
  <2>2. \A kn \in here : map[kn] \subseteq batch'
    BY <1>6, <1>8
  <2> QED
    BY <1>4, <2>1, <2>2
<1>12. DOMAIN list' = there /\ \A kn \in there : list'[kn] = map[kn]
  BY <1>4
<1>13. list' \in [DOMAIN list' -> SUBSET KadIds]
  BY <1>4, <1>6, <1>8, <1>11, <1>12
<1>14. Running' /\ Running
  BY <1>2 DEF Snapshot, Running
<1>15. targets'[r] \subseteq held' /\ targets'[r] \subseteq KadNodes
  BY <1>7, <1>8, <1>10
<1>16. TypeOf(r)' /\ FlightOf(r)' /\ stage'[r] = "sending"
  BY <1>1, <1>9, <1>15, Begun DEF TypeOf
<1>17. CopiesOf(r)'
  BY <1>6, <1>8, <1>10, <1>14, <1>15 DEF CopiesOf, SeenApart
<1>18. ListTypes'
  BY <1>9, <1>10, <1>11, <1>12, <1>13 DEF ListTypes
<1>19. Lists'
  <2>1. ASSUME NEW id \in batch', id \notin kept'
        PROVE  \E kn \in there : id \in list'[kn]
    <3>1. PICK kn \in DOMAIN map : id \in map[kn]
      BY <1>6, <2>1
    <3>2. kn \in there
      BY <1>4, <1>8, <2>1, <3>1
    <3> QED
      BY <1>12, <3>1, <3>2
  <2> QED
    BY <1>9, <1>10, <1>12, <1>16, <2>1 DEF Lists
<1> QED
  BY <1>1, <1>7, <1>9, <1>10, <1>14, <1>16, <1>17, <1>18, <1>19, OneRound

\* One more target is asked: it is waited for
LEMMA SendNextInv == ASSUME RoundInv, NEW r \in Rounders, SendNext(r) PROVE RoundInv'
<1>1. TypeOf(r) /\ CopiesOf(r) /\ FlightOf(r)
  BY RoundParts
<1>2. PICK kn \in targets[r] \ asked[r] :
        /\ asked' = [asked EXCEPT ![r] = @ \cup {kn}]
        /\ \E others \in {flight[r], {n \in flight[r] : n.id # kn.id}} :
            flight' = [flight EXCEPT ![r] = others \cup {kn}]
  BY DEF SendNext
<1>3. PICK others \in {flight[r], {n \in flight[r] : n.id # kn.id}} :
        flight' = [flight EXCEPT ![r] = others \cup {kn}]
  BY <1>2
<1>4. /\ stage[r] = "sending"
      /\ stage' = IF FlightOver(r, flight'[r], asked'[r]) THEN [stage EXCEPT ![r] = "reaping"] ELSE stage
      /\ UNCHANGED <<lookupVars, targets, heard, lost, left, mapVars>>
  BY DEF SendNext
<1>5. asked'[r] = asked[r] \cup {kn} /\ flight'[r] = others \cup {kn}
  BY <1>2, <1>3 DEF RoundInv, RoundTypeOK
<1>6. /\ stage'[r] \in {"sending", "reaping"}
      /\ stage'[r] = "sending" => ~FlightOver(r, flight'[r], asked'[r])
  BY <1>4 DEF RoundInv, RoundTypeOK
<1>7. Only(r) /\ targets'[r] = targets[r] /\ heard'[r] = heard[r] /\ lost'[r] = lost[r]
      /\ left'[r] = left[r] /\ UNCHANGED <<held, selfAddress>>
  BY <1>2, <1>3, <1>4 DEF Only, RoundInv, RoundTypeOK, lookupVars, tableVars
<1>8. /\ flight'[r] \subseteq flight[r] \cup {kn} /\ kn \in flight'[r]
      /\ Ids(flight[r]) \cup {kn.id} \subseteq Ids(flight'[r])
  BY <1>3, <1>5 DEF Ids
<1>9. IsFiniteSet(flight'[r])
  BY <1>1, <1>8, FS_AddElement, FS_Subset DEF FlightOf
<1>10. TypeOf(r)'
  BY <1>1, <1>2, <1>5, <1>6, <1>7, <1>8 DEF TypeOf
<1>11. CopiesOf(r)'
  BY <1>1, <1>4, <1>6, <1>7 DEF CopiesOf, Running
<1>12. FlightOf(r)'
  <2>1. Ids(asked'[r]) \subseteq heard'[r] \cup lost'[r] \cup Ids(flight'[r])
    <3>1. Ids(asked'[r]) = Ids(asked[r]) \cup {kn.id}
      BY <1>5 DEF Ids
    <3> QED
      BY <1>1, <1>7, <1>8, <3>1 DEF FlightOf
  <2>2. Cardinality(Ids(flight'[r])) \in Nat /\ Alpha \in Nat
    BY <1>9, IdsFinite, LookupAssumption
  <2>3. stage'[r] = "sending" =>
            Cardinality(Ids(flight'[r])) < Alpha /\ (r = "publish" => asked'[r] # targets'[r])
    BY <1>6, <1>7, <2>2 DEF FlightOver
  <2> QED
    BY <1>6, <1>9, <2>1, <2>3 DEF FlightOf
<1>13. ListTypes' /\ Lists'
  BY <1>4, <1>6, <1>7, MapStays
<1> QED
  BY <1>7, <1>10, <1>11, <1>12, <1>13, OneRound DEF Running

\* A future has been waited for: its node is heard or lost
LEMMA ReapedInv ==
    ASSUME RoundInv, NEW r \in Rounders, NEW kn \in flight[r], Due(r, kn), Waited(r, kn), Only(r),
           heard[r] \subseteq heard'[r], lost[r] \subseteq lost'[r],
           heard'[r] \cup lost'[r] = heard[r] \cup lost[r] \cup {kn.id},
           targets[r] \subseteq targets'[r], targets'[r] \subseteq targets[r] \cup FreshNodes,
           SeenApart(targets'[r]), r = "publish" => targets'[r] = targets[r],
           UNCHANGED <<lookupVars, asked, left, mapVars>>
    PROVE  RoundInv'
<1>1. TypeOf(r) /\ CopiesOf(r) /\ FlightOf(r)
  BY RoundParts
<1>2. kn \in KadNodes /\ kn.id \in KadIds
  BY <1>1 DEF TypeOf, KadNodes
<1>3. /\ stage[r] = "reaping" /\ stage'[r] \in {"sending", "reaping"}
      /\ flight'[r] = flight[r] \ {kn} /\ (stage'[r] = "sending" => flight'[r] = {})
  BY DEF Due, Waited, RoundInv, RoundTypeOK
<1>4. UNCHANGED <<held, selfAddress>>
  BY DEF lookupVars, tableVars
<1>5. TypeOf(r)'
  <2>1. targets'[r] \subseteq KadNodes /\ flight'[r] \subseteq asked'[r]
        /\ asked'[r] \subseteq targets'[r] /\ left'[r] \subseteq targets'[r]
    BY <1>1, <1>3, FreshNodesType DEF TypeOf
  <2>2. heard'[r] \subseteq KadIds /\ lost'[r] \subseteq KadIds
    BY <1>1, <1>2 DEF TypeOf
  <2> QED
    BY <1>3, <2>1, <2>2 DEF TypeOf
<1>6. CopiesOf(r)'
  BY <1>1, <1>3, <1>4 DEF CopiesOf, Running
<1>7. FlightOf(r)'
  <2>1. IsFiniteSet(flight'[r])
    BY <1>1, <1>3, FS_Subset DEF FlightOf
  <2>2. Ids(flight[r]) \subseteq Ids(flight'[r]) \cup {kn.id}
    BY <1>3 DEF Ids
  <2>3. Ids(asked'[r]) \subseteq heard'[r] \cup lost'[r] \cup Ids(flight'[r])
    BY <1>1, <2>2 DEF FlightOf
  <2>4. stage'[r] = "sending" => Cardinality(Ids(flight'[r])) < Alpha /\ flight'[r] = {}
    BY <1>3, NoIds
  <2> QED
    BY <1>3, <2>1, <2>3, <2>4 DEF FlightOf
<1>8. ListTypes' /\ Lists'
  BY <1>3, MapStays
<1> QED
  BY <1>4, <1>5, <1>6, <1>7, <1>8, OneRound DEF Running

\* A step of a round that leaves what it holds, and whom it waits for, as they are
LEMMA RoundOnInv ==
    ASSUME RoundInv, NEW r \in Rounders, stage[r] # "idle",
           stage' = [stage EXCEPT ![r] = stage'[r]], left' = [left EXCEPT ![r] = left'[r]],
           stage'[r] \in {"collected", "applying", "aborted"},
           stage'[r] # "aborted" => /\ stage[r] \in {"sending", "collected", "applying"}
                                    /\ asked[r] = targets[r],
           left'[r] \subseteq targets[r], Running' = Running,
           UNCHANGED <<held, targets, asked, flight, heard, lost, mapVars>>
    PROVE  RoundInv'
<1>1. TypeOf(r) /\ CopiesOf(r) /\ FlightOf(r)
  BY RoundParts
<1>2. Only(r)
  BY DEF Only, RoundInv, RoundTypeOK
<1>3. TypeOf(r)'
  BY <1>1 DEF TypeOf
<1>4. CopiesOf(r)'
  BY <1>1 DEF CopiesOf
<1>5. FlightOf(r)'
  BY <1>1 DEF FlightOf
<1>6. ListTypes' /\ Lists'
  BY <1>2, MapStays
<1> QED
  BY <1>2, <1>3, <1>4, <1>5, <1>6, OneRound

\* The round is over: nothing is left of it
LEMMA EndRoundInv == ASSUME RoundInv, NEW r \in Rounders, EndRound(r) PROVE RoundInv'
<1>1. TypeOf(r) /\ ListTypes /\ Lists
  BY RoundParts
<1>2. /\ stage'[r] = "idle" /\ targets'[r] = {} /\ asked'[r] = {} /\ flight'[r] = {}
      /\ heard'[r] = {} /\ lost'[r] = {} /\ left'[r] = {}
  BY DEF EndRound, RoundInv, RoundTypeOK
<1>3. Only(r)
  BY DEF EndRound, Only, RoundInv, RoundTypeOK
<1>4. TypeOf(r)'
  BY <1>2 DEF TypeOf
<1>5. CopiesOf(r)'
  BY <1>2 DEF CopiesOf, SeenApart
<1>6. FlightOf(r)'
  BY <1>2, FS_EmptySet DEF FlightOf, Ids
<1>7. ListTypes' /\ Lists'
  <2>1. CASE r = "publish"
    BY <1>2, <2>1 DEF EndRound, ListTypes, Lists
  <2>2. CASE r # "publish"
    BY <1>3, <2>2, MapStays DEF EndRound
  <2> QED
    BY <2>1, <2>2
<1>8. held \cap RoundsHold(Rounders \ {r}) \subseteq held' /\ Running' = Running
  BY DEF EndRound, Running
<1> QED
  BY <1>3, <1>4, <1>5, <1>6, <1>7, <1>8, OneRound

\* A step of a round keeps both invariants
LEMMA RoundStepKept ==
    ASSUME TasksInv, NEW r \in Rounders, RoundStep(r)
    PROVE  LookupInv' /\ RoundInv'
<1>1. LookupInv /\ RoundInv /\ TypeOf(r) /\ CopiesOf(r) /\ FlightOf(r)
  BY RoundParts DEF TasksInv
<1>2. ASSUME UNCHANGED <<selfAddress, held, taskVars>> PROVE LookupInv'
  BY <1>1, <1>2, LookupUndisturbed DEF Running
<1>3. ASSUME UNCHANGED lookupVars PROVE LookupInv' /\ UNCHANGED <<held, selfAddress>>
  BY <1>2, <1>3 DEF lookupVars, tableVars
<1>4. CASE SendNext(r)
  BY <1>1, <1>3, <1>4, SendNextInv DEF SendNext
<1>5. CASE ReapAnswer(r)
  <2>1. PICK kn \in flight[r] :
            Due(r, kn) /\ Waited(r, kn) /\ heard' = [heard EXCEPT ![r] = @ \cup {kn.id}]
    BY <1>5 DEF ReapAnswer
  <2>2. UNCHANGED <<lookupVars, asked, lost, left, mapVars>>
    BY <1>5 DEF ReapAnswer
  <2>3. PICK t :
            /\ targets' = [targets EXCEPT ![r] = t]
            /\ targets[r] \subseteq t /\ t \subseteq targets[r] \cup FreshNodes
            /\ SeenApart(t) /\ (r = "publish" => t = targets[r])
    <3>1. CASE r = "publish" /\ UNCHANGED targets
      <4>1. targets' = [targets EXCEPT ![r] = targets[r]]
        BY <1>1, <3>1 DEF RoundInv, RoundTypeOK
      <4> QED
        BY <1>1, <4>1 DEF CopiesOf
    <3>2. CASE /\ r = "search"
               /\ \E reply \in Replies : targets' = [targets EXCEPT ![r] = InsertReply(@, reply)]
      <4>1. PICK reply \in Replies :
                targets' = [targets EXCEPT ![r] = InsertReply(targets[r], reply)]
        BY <3>2
      <4>2. SeenApart(targets[r]) /\ r # "publish"
        BY <1>1, <3>2 DEF CopiesOf
      <4> DEFINE t == InsertReply(targets[r], reply)
      <4>3. /\ targets[r] \subseteq t /\ t \subseteq targets[r] \cup FreshNodes
            /\ SeenApart(t)
        BY <4>2, InsertReplyApart
      <4> HIDE DEF t
      <4> QED
        BY <4>1, <4>2, <4>3 DEF t
    <3> QED
      BY <1>5, <3>1, <3>2 DEF ReapAnswer
  <2>4. /\ targets'[r] = t
        /\ heard'[r] = heard[r] \cup {kn.id} /\ lost'[r] = lost[r]
    BY <1>1, <2>1, <2>2, <2>3 DEF RoundInv, RoundTypeOK
  <2>5. Only(r)
    BY <1>1, <2>1, <2>2, <2>3 DEF Only, Waited, RoundInv, RoundTypeOK
  <2>6. RoundInv'
    BY <1>1, <2>1, <2>2, <2>3, <2>4, <2>5, ReapedInv
  <2> QED
    BY <1>3, <2>2, <2>6
<1>6. CASE ReapError(r)
  <2>1. PICK kn \in flight[r] :
            Due(r, kn) /\ Waited(r, kn) /\ lost' = [lost EXCEPT ![r] = @ \cup {kn.id}]
    BY <1>6 DEF ReapError
  <2>2. UNCHANGED <<lookupVars, targets, asked, heard, left, mapVars>>
    BY <1>6 DEF ReapError
  <2>3. lost'[r] = lost[r] \cup {kn.id}
    BY <1>1, <2>1 DEF RoundInv, RoundTypeOK
  <2>4. Only(r) /\ SeenApart(targets[r])
    BY <1>1, <2>1, <2>2 DEF Only, Waited, RoundInv, RoundTypeOK, CopiesOf
  <2>5. RoundInv'
    BY <1>1, <2>1, <2>2, <2>3, <2>4, ReapedInv
  <2> QED
    BY <1>3, <2>2, <2>5
<1>7. CASE RoundPingsSelf(r) \/ RoundOver(r) \/ RoundLocks(r)
  <2>1. UNCHANGED <<lookupVars, targets, asked, flight, heard, lost, mapVars>>
    BY <1>7 DEF RoundPingsSelf, RoundOver, RoundLocks
  <2>2. stage[r] # "idle"
    BY <1>1, <1>7 DEF RoundPingsSelf, RoundOver, RoundLocks, FlightOf
  <2>3. /\ stage'[r] \in {"collected", "applying", "aborted"}
        /\ stage' = [stage EXCEPT ![r] = stage'[r]] /\ left' = [left EXCEPT ![r] = left'[r]]
        /\ left'[r] \in {left[r], targets[r]}
        /\ stage'[r] # "aborted" => RoundOver(r) \/ RoundLocks(r)
    BY <1>1, <1>7 DEF RoundPingsSelf, RoundOver, RoundLocks, RoundInv, RoundTypeOK
  <2>4. stage'[r] # "aborted" => stage[r] \in {"sending", "collected"} /\ asked[r] = targets[r]
    BY <1>1, <2>3 DEF RoundOver, RoundLocks, TypeOf, FlightOf
  <2>5. left'[r] \subseteq targets[r]
    BY <1>1, <2>3 DEF TypeOf
  <2>6. UNCHANGED <<held, selfAddress>>
    BY <2>1 DEF lookupVars, tableVars
  <2>7. RoundInv'
    BY <1>1, <2>1, <2>2, <2>3, <2>4, <2>5, <2>6, RoundOnInv DEF Running
  <2> QED
    BY <1>3, <2>1, <2>7
<1>8. CASE RoundApplies(r)
  <2>1. /\ UNCHANGED <<selfAddress, held, taskVars, stage, targets, asked, flight, heard, lost, mapVars>>
        /\ stage[r] = "applying" /\ \E kn \in left[r] : left' = [left EXCEPT ![r] = @ \ {kn}]
    BY <1>8 DEF RoundApplies
  <2>2. /\ stage' = [stage EXCEPT ![r] = stage'[r]] /\ left' = [left EXCEPT ![r] = left'[r]]
        /\ left'[r] \subseteq left[r] /\ stage'[r] = "applying"
    BY <1>1, <2>1 DEF RoundInv, RoundTypeOK
  <2>3. asked[r] = targets[r] /\ left'[r] \subseteq targets[r]
    BY <1>1, <2>1, <2>2 DEF TypeOf, FlightOf
  <2>4. RoundInv'
    BY <1>1, <2>1, <2>2, <2>3, RoundOnInv DEF Running
  <2> QED
    BY <1>2, <2>1, <2>4
<1>9. CASE EndRound(r)
  <2>1. LookupInv'
    BY <1>1, <1>9, LookupUndisturbed DEF EndRound, Running
  <2> QED
    BY <1>1, <1>9, <2>1, EndRoundInv
<1> QED
  BY <1>4, <1>5, <1>6, <1>7, <1>8, <1>9 DEF RoundStep

\* A step of a search or of the publish task keeps both invariants
LEMMA RoundKept == ASSUME TasksInv, Round PROVE LookupInv' /\ RoundInv'
<1>1. CASE BeginSearch
  <2>1. held \subseteq held' /\ (Running => Running') /\ UNCHANGED taskVars
    BY <1>1 DEF BeginSearch, Begins, Snapshot, Running
  <2> QED
    BY <1>1, <2>1, BeginSearchInv, LookupUndisturbed DEF TasksInv
<1>2. CASE BeginPublish
  <2>1. held \subseteq held' /\ (Running => Running') /\ UNCHANGED taskVars
    BY <1>2 DEF BeginPublish, Begins, Snapshot, Running
  <2> QED
    BY <1>2, <2>1, BeginPublishInv, LookupUndisturbed DEF TasksInv
<1> QED
  BY <1>1, <1>2, RoundStepKept DEF Round

-----------------------------------------------------------------------------
(* What holds of the tasks *)

\* Before the tasks start the table is new and the tasks are idle
LEMMA TasksStart == RoundsInit => Init /\ TasksInv
<1> SUFFICES ASSUME RoundsInit PROVE Init /\ TasksInv
  OBVIOUS
<1>1. Init /\ LookupInit
  BY DEF RoundsInit, LookupInit
<1>2. TableInv
  BY <1>1, TableInit
<1>3. LookupTypeOK
  BY <1>1, BitLengthAssumption, TableAssumption, LookupAssumption, EmptySeq
  DEF LookupInit, LookupTypeOK
<1>4. LookupCopies
  BY <1>1 DEF LookupInit, LookupCopies, LookupHolds, ToSet, SeenApart
<1>5. RoundTypeOK /\ Lists
  BY DEF RoundsInit, RoundTypeOK, Lists, Rounders
<1>6. ASSUME NEW r \in Rounders PROVE CopiesOf(r) /\ FlightOf(r)
  <2>1. stage[r] = "idle" /\ targets[r] = {} /\ asked[r] = {} /\ flight[r] = {} /\ left[r] = {}
    BY DEF RoundsInit
  <2>2. CopiesOf(r)
    BY <2>1 DEF CopiesOf, SeenApart
  <2>3. FlightOf(r)
    BY <2>1, FS_EmptySet DEF FlightOf, Ids
  <2> QED
    BY <2>2, <2>3
<1> QED
  BY <1>1, <1>2, <1>3, <1>4, <1>5, <1>6 DEF TasksInv, LookupInv, RoundInv

\* Each of the users of the table keeps the invariant of them all
LEMMA TasksStep == TasksInv /\ [TasksNext]_tasksVars => TasksInv'
<1> SUFFICES ASSUME TasksInv, [TasksNext]_tasksVars PROVE TasksInv'
  OBVIOUS
<1>1. TableInv'
  BY TasksCall, TableStep DEF TasksInv
<1>2. LookupInv /\ RoundInv
  BY DEF TasksInv
<1>3. CASE Contacted
  <2>1. UNCHANGED held /\ UNCHANGED <<taskVars, roundVars>>
    BY <1>3 DEF Contacted, FreshNext, PushConfigPeer, SetSelfNodeAddress, PushContact,
                RemoveContact, Tick
  <2>2. Running => Running'
    BY <1>3, TableAssumption
    DEF Contacted, FreshNext, PushConfigPeer, SetSelfNodeAddress, PushContact, RemoveContact,
        Tick, Running
  <2> QED
    BY <1>1, <1>2, <2>1, <2>2, LookupUndisturbed, RoundUndisturbed DEF TasksInv
<1>4. CASE UNCHANGED tasksVars
  BY <1>1, <1>2, <1>4, LookupUndisturbed, RoundUndisturbed
  DEF TasksInv, tasksVars, lookupVars, tableVars, Running
<1> QED
  BY <1>1, <1>3, <1>4, LookupKept, RoundKept DEF TasksNext, TasksInv

\* The inductive invariant holds whatever a lookup, a search, the publish task and the
\* ping handlers do beside each other
THEOREM TasksInvariance == TasksSpec => []TasksInv
<1>1. RoundsInit => TasksInv
  BY TasksStart
<1>2. TasksInv /\ [TasksNext]_tasksVars => TasksInv'
  BY TasksStep
<1> QED
  BY <1>1, <1>2, PTL DEF TasksSpec

\* The tasks, with any replies and failures, implement the routing table
THEOREM TasksImplementTable == TasksSpec => ImplementsTable
<1>1. RoundsInit => Init
  BY TasksStart
<1>2. TasksInv /\ [TasksNext]_tasksVars => [Next]_tableVars
  BY TasksCall
<1> QED
  BY <1>1, <1>2, TasksInvariance, PTL DEF TasksSpec, ImplementsTable, Spec

\* The table of a node whose tasks run is never full
THEOREM TasksNeverFull == TasksSpec => []NeverFull
BY TasksImplementTable, NeverFullCorrectness, PTL DEF ImplementsTable

\* The variables of the tasks keep their types; no wave is wider than ALPHA
THEOREM TasksTypes == TasksSpec => []TasksTypeOK
<1>1. TasksInv => TasksTypeOK
  BY DEF TasksInv, LookupInv, RoundInv, TasksTypeOK
<1> QED
  BY <1>1, TasksInvariance, PTL

\* In its final loop the publish task knows of every node whether it answered, and a
\* search does of all but fewer than ALPHA
THEOREM UnheardCorrectness == TasksSpec => []UnheardFew
<1>1. TasksInv => UnheardFew
  <2> SUFFICES ASSUME TasksInv, NEW r \in Rounders, stage[r] = "applying"
               PROVE  /\ r = "publish" => Ids(targets[r]) \ (heard[r] \cup lost[r]) = {}
                      /\ Cardinality(Ids(targets[r]) \ (heard[r] \cup lost[r])) < Alpha
    BY DEF UnheardFew
  <2>1. /\ IsFiniteSet(flight[r]) /\ asked[r] = targets[r] /\ Cardinality(Ids(flight[r])) < Alpha
        /\ Ids(asked[r]) \subseteq heard[r] \cup lost[r] \cup Ids(flight[r])
        /\ r = "publish" => flight[r] = {}
    BY DEF TasksInv, RoundInv, FlightOf
  <2> DEFINE unheard == Ids(targets[r]) \ (heard[r] \cup lost[r])
  <2>2. unheard \subseteq Ids(flight[r])
    BY <2>1
  <2>3. IsFiniteSet(Ids(flight[r])) /\ Cardinality(Ids(flight[r])) \in Nat /\ Alpha \in Nat
    BY <2>1, IdsFinite, LookupAssumption
  <2>4. Ids(flight[r]) = {} \/ r # "publish"
    BY <2>1 DEF Ids
  <2> HIDE DEF unheard
  <2>5. Cardinality(unheard) <= Cardinality(Ids(flight[r])) /\ Cardinality(unheard) \in Nat
    BY <2>2, <2>3, FS_Subset, FS_CardinalityType
  <2>6. Cardinality(unheard) < Alpha
    BY <2>1, <2>3, <2>5
  <2>7. r = "publish" => unheard = {}
    BY <2>2, <2>4
  <2> QED
    BY <2>6, <2>7 DEF unheard
<1> QED
  BY <1>1, TasksInvariance, PTL

\* Every entry taken for publishing that has a neighbour is stored here or offered to
\* a node, and that node has answered or failed when the round is over
THEOREM EntriesCorrectness == TasksSpec => []EntriesLeave
<1>1. TasksInv => EntriesLeave
  <2> DEFINE r == "publish"
  <2> SUFFICES ASSUME TasksInv, stage[r] \in {"collected", "applying"},
                      NEW entry \in batch, entry \notin kept
               PROVE  \E kn \in targets[r] : entry \in list[kn] /\ kn.id \in heard[r] \cup lost[r]
    BY DEF EntriesLeave
  <2>1. FlightOf(r) /\ Lists
    BY DEF TasksInv, RoundInv, Rounders
  <2>2. PICK kn \in targets[r] : entry \in list[kn]
    BY <2>1 DEF Lists
  <2>3. asked[r] = targets[r] /\ flight[r] = {} /\ Ids(asked[r]) \subseteq heard[r] \cup lost[r] \cup Ids(flight[r])
    BY <2>1 DEF FlightOf
  <2>4. kn.id \in heard[r] \cup lost[r]
    BY <2>3 DEF Ids
  <2> QED
    BY <2>2, <2>4
<1> QED
  BY <1>1, TasksInvariance, PTL

-----------------------------------------------------------------------------
(* Who loses credit in a final loop *)

\* Node kn is still listed in t, with no more failed probes
StillIn(t, kn) == \E j \in DOMAIN t : t[j].id = kn.id /\ t[j].stales <= kn.stales

\* From b to c no node in use but those of the ids given loses credit, unless it was
\* stale
CreditKept(b, c, ids) ==
    \A i \in DOMAIN b.nodes :
        b.nodes[i].id \notin ids =>
            b.nodes[i].stales >= StalesThr \/ StillIn(c.nodes, b.nodes[i])

\* Sorting a list takes nobody out of it
LEMMA ReorderStill ==
    ASSUME NEW d \in Buckets, NEW c \in Reorder(d), NEW kn, StillIn(d.nodes, kn)
    PROVE  StillIn(c.nodes, kn)
<1>1. d.nodes \in Seq(KadNodes) /\ c.nodes \in Rearrangements(d.nodes)
  BY ReorderKeeps DEF Buckets, Sorted
<1>2. PICK p : Rearranges(p, d.nodes, c.nodes)
  BY <1>1, RearrangementsElements
<1>3. PICK j \in DOMAIN d.nodes : d.nodes[j].id = kn.id /\ d.nodes[j].stales <= kn.stales
  BY DEF StillIn
<1>4. PICK i \in DOMAIN c.nodes : p[i] = j
  BY <1>2 DEF Rearranges
<1>5. c.nodes[i] = d.nodes[j]
  BY <1>2, <1>4 DEF Rearranges
<1> QED
  BY <1>3, <1>5 DEF StillIn

\* erase() and push_back() leave the nodes of the other places
LEMMA EraseStill ==
    ASSUME NEW s \in Seq(KadNodes), NEW i \in DOMAIN s, NEW j \in DOMAIN s, j # i,
           NEW kn \in KadNodes
    PROVE  StillIn(Append(Erase(s, i), kn), s[j])
<1>1. Len(s) \in Nat /\ DOMAIN s = 1 .. Len(s) /\ s[j] \in KadNodes
  BY LenProperties, ElementOfSeq
<1> DEFINE k == IF j < i THEN j ELSE j - 1
<1>2. k \in 1 .. (Len(s) - 1) /\ (IF k < i THEN k ELSE k + 1) = j
  BY <1>1
<1>3. k \in DOMAIN Erase(s, i) /\ Erase(s, i)[k] = s[j]
  BY <1>2 DEF Erase
<1>4. Erase(s, i) \in Seq(KadNodes) /\ DOMAIN Erase(s, i) = 1 .. Len(Erase(s, i))
  BY EraseKeeps, LenProperties
<1> HIDE DEF k
<1>5. /\ Append(Erase(s, i), kn)[k] = s[j]
      /\ k \in DOMAIN Append(Erase(s, i), kn)
  BY <1>3, <1>4, AppendKeeps, LenProperties
<1>6. s[j].stales <= s[j].stales
  BY <1>1 DEF KadNodes
<1> QED
  BY <1>5, <1>6 DEF StillIn

\* A push takes credit from nobody: it evicts stale nodes only
LEMMA PushNodeCredit ==
    ASSUME NEW b, BucketOK(b), NEW kn \in KadNodes, NEW t \in Nat, NEW c \in PushNode(b, kn, t)
    PROVE  CreditKept(b, c, {})
<1> DEFINE n == b.nodes
<1>1. /\ b \in Buckets /\ n \in Seq(KadNodes) /\ b.replacementNodes \in Seq(KadNodes)
      /\ Len(n) \in Nat /\ DOMAIN n = 1 .. Len(n)
  BY LenProperties DEF BucketOK, Buckets
<1> SUFFICES ASSUME NEW j \in DOMAIN n, ~(n[j].stales >= StalesThr)
             PROVE  StillIn(c.nodes, n[j])
  BY DEF CreditKept
<1>2. n[j] \in KadNodes
  BY <1>1, ElementOfSeq
<1>3. n[j].stales \in Nat /\ n[j].stales <= n[j].stales
  BY <1>2 DEF KadNodes
<1>4. CASE c \in Renew(b, kn, t)
  <2>1. PICK i \in Find(n, kn.id) :
          c \in Reorder([b EXCEPT !.nodes[i] = ResetStales(SeenNow(@, t))])
    BY <1>4 DEF Renew
  <2> DEFINE m == [n EXCEPT ![i] = ResetStales(SeenNow(n[i], t))]
             d == [b EXCEPT !.nodes = m]
  <2>2. i \in DOMAIN n /\ n[i] \in KadNodes
    BY <1>1, ElementOfSeq DEF Find
  <2>3. /\ ResetStales(SeenNow(n[i], t)) \in KadNodes
        /\ ResetStales(SeenNow(n[i], t)).id = n[i].id
        /\ ResetStales(SeenNow(n[i], t)).stales = 0
    BY <2>2 DEF KadNodes, ResetStales, SeenNow
  <2>4. m \in Seq(KadNodes) /\ DOMAIN m = DOMAIN n
    BY <1>1, <2>2, <2>3, UpdateKeeps
  <2>5. d \in Buckets /\ d.nodes = m
    BY <1>1, <2>4 DEF Buckets
  <2>6. c \in Reorder(d)
    BY <2>1, <1>1 DEF Buckets
  <2>7. m[j] = IF j = i THEN ResetStales(SeenNow(n[i], t)) ELSE n[j]
    BY <1>1, <2>2
  <2> HIDE DEF d, m
  <2>8. m[j].id = n[j].id /\ m[j].stales <= n[j].stales
    BY <1>3, <2>3, <2>7
  <2>9. StillIn(d.nodes, n[j])
    BY <2>4, <2>5, <2>8 DEF StillIn
  <2> QED
    BY <2>5, <2>6, <2>9, ReorderStill
<1>5. CASE c \in Admit(b, kn)
  <2> DEFINE d == [b EXCEPT !.nodes = Append(n, kn)]
  <2>1. c \in Reorder(d)
    BY <1>5 DEF Admit
  <2>2. /\ Append(n, kn) \in Seq(KadNodes)
        /\ j \in DOMAIN Append(n, kn) /\ Append(n, kn)[j] = n[j]
    BY <1>1, AppendKeeps
  <2>3. d \in Buckets /\ d.nodes = Append(n, kn)
    BY <1>1, <2>2 DEF Buckets
  <2> HIDE DEF d
  <2>4. StillIn(d.nodes, n[j])
    BY <1>3, <2>2, <2>3 DEF StillIn
  <2> QED
    BY <2>1, <2>3, <2>4, ReorderStill
<1>6. CASE c \in Evict(b, kn)
  <2>1. PICK i \in Stalest(n) : c \in Reorder([b EXCEPT !.nodes = Append(Erase(@, i), kn)])
    BY <1>6 DEF Evict
  <2> DEFINE e == Append(Erase(n, i), kn)
             d == [b EXCEPT !.nodes = e]
  <2>2. i \in DOMAIN n /\ j # i
    BY DEF Stalest
  <2>3. e \in Seq(KadNodes)
    BY <1>1, <2>2, EraseKeeps, AppendKeeps
  <2>4. d \in Buckets /\ d.nodes = e
    BY <1>1, <2>3 DEF Buckets
  <2>5. c \in Reorder(d)
    BY <2>1
  <2>6. StillIn(e, n[j])
    BY <1>1, <2>2, EraseStill
  <2> HIDE DEF d, e
  <2> QED
    BY <2>4, <2>5, <2>6, ReorderStill
<1>7. CASE c \in Park(b, kn, t)
  <2>1. PICK q : c \in Reorder([b EXCEPT !.replacementNodes = q])
    BY <1>7 DEF Park
  <2>2. c.nodes \in Sorted(n)
    BY <1>1, <2>1 DEF Reorder, Buckets
  <2>3. PICK p : Rearranges(p, n, c.nodes)
    BY <1>1, <2>2, RearrangementsElements DEF Sorted
  <2>4. PICK i \in DOMAIN c.nodes : c.nodes[i] = n[j]
    BY <2>3 DEF Rearranges
  <2> QED
    BY <1>3, <2>4 DEF StillIn
<1> QED
  BY <1>4, <1>5, <1>6, <1>7 DEF PushNode

\* A failure takes credit from the node that failed alone
LEMMA RemoveNodeCredit ==
    ASSUME NEW b, BucketOK(b), NEW id, NEW c \in RemoveNode(b, id)
    PROVE  CreditKept(b, c, {id})
<1> DEFINE n == b.nodes
           r == b.replacementNodes
<1>1. /\ b \in Buckets /\ n \in Seq(KadNodes) /\ r \in Seq(KadNodes)
      /\ Len(n) \in Nat /\ DOMAIN n = 1 .. Len(n)
  BY LenProperties DEF BucketOK, Buckets
<1> SUFFICES ASSUME NEW j \in DOMAIN n, n[j].id # id PROVE StillIn(c.nodes, n[j])
  BY DEF CreditKept
<1>2. n[j].stales <= n[j].stales
  <2>1. n[j] \in KadNodes
    BY <1>1, ElementOfSeq
  <2> QED
    BY <2>1 DEF KadNodes
<1>3. CASE id \notin IdsOf(n)
  BY <1>2, <1>3 DEF RemoveNode, StillIn
<1>4. CASE id \in IdsOf(n) /\ r # << >>
  <2>1. PICK i \in Find(n, id) :
          c \in Reorder([nodes |-> Append(Erase(n, i), Head(r)), replacementNodes |-> Tail(r)])
    BY <1>4 DEF RemoveNode
  <2> DEFINE e == Append(Erase(n, i), Head(r))
             d == [nodes |-> e, replacementNodes |-> Tail(r)]
  <2>2. i \in DOMAIN n /\ i # j
    BY DEF Find
  <2>3. Head(r) \in KadNodes /\ Tail(r) \in Seq(KadNodes)
    BY <1>1, <1>4, HeadTailProperties
  <2>4. e \in Seq(KadNodes)
    BY <1>1, <2>2, <2>3, EraseKeeps, AppendKeeps
  <2>5. d \in Buckets /\ d.nodes = e
    BY <2>3, <2>4 DEF Buckets
  <2>6. c \in Reorder(d)
    BY <2>1
  <2>7. StillIn(e, n[j])
    BY <1>1, <2>2, <2>3, EraseStill
  <2> HIDE DEF d, e
  <2> QED
    BY <2>5, <2>6, <2>7, ReorderStill
<1>5. CASE id \in IdsOf(n) /\ r = << >>
  <2>1. PICK i \in Find(n, id) : c = [b EXCEPT !.nodes[i] = IncrementStales(@)]
    BY <1>5 DEF RemoveNode
  <2>2. i # j
    BY DEF Find
  <2>3. c.nodes = [n EXCEPT ![i] = IncrementStales(n[i])]
    BY <1>1, <2>1 DEF Buckets
  <2>4. j \in DOMAIN c.nodes /\ c.nodes[j] = n[j]
    BY <1>1, <2>2, <2>3
  <2> QED
    BY <1>2, <2>4 DEF StillIn
<1> QED
  BY <1>3, <1>4, <1>5

\* In a bucket that stays as it is nobody loses credit
LEMMA SameBucketCredit == ASSUME NEW b, BucketOK(b), NEW ids PROVE CreditKept(b, b, ids)
<1>1. b.nodes \in Seq(KadNodes) /\ DOMAIN b.nodes = 1 .. Len(b.nodes)
  BY LenProperties DEF BucketOK, Buckets
<1>2. \A i \in DOMAIN b.nodes : b.nodes[i] \in KadNodes
  BY <1>1, ElementOfSeq
<1>3. \A i \in DOMAIN b.nodes : b.nodes[i].stales <= b.nodes[i].stales
  BY <1>2 DEF KadNodes
<1> QED
  BY <1>3 DEF CreditKept, StillIn

\* The same of pushNode of the table
LEMMA TablePushCredit ==
    ASSUME TableInv, NEW kn \in KadNodes, TablePush(kn)
    PROVE  \A h \in Bits : CreditKept(buckets[h], buckets'[h], {})
<1>1. buckets \in [Bits -> Buckets] /\ \A h \in Bits : CreditKept(buckets[h], buckets[h], {})
  BY SameBucketCredit DEF TableInv, TypeOK
<1>2. CASE IsSelf(kn)
  BY <1>1, <1>2 DEF TablePush
<1>3. CASE ~IsSelf(kn)
  <2> DEFINE k == HeightOf(kn.id)
  <2>1. k \in Bits
    BY <1>3, HeightOfType DEF IsSelf, KadNodes
  <2>2. PICK c \in PushNode(buckets[k], kn, now) : buckets' = [buckets EXCEPT ![k] = c]
    BY <1>3 DEF TablePush
  <2>3. CreditKept(buckets[k], c, {})
    BY <2>1, <2>2, PushNodeCredit DEF TableInv, TypeOK
  <2> HIDE DEF k
  <2> QED
    BY <1>1, <2>1, <2>2, <2>3
<1> QED
  BY <1>2, <1>3

\* The same of removeNode of the table
LEMMA TableRemoveCredit ==
    ASSUME TableInv, NEW id \in KadIds, TableRemove(id)
    PROVE  \A h \in Bits : CreditKept(buckets[h], buckets'[h], {id})
<1>1. buckets \in [Bits -> Buckets] /\ \A h \in Bits : CreditKept(buckets[h], buckets[h], {id})
  BY SameBucketCredit DEF TableInv, TypeOK
<1>2. CASE id = SelfId
  BY <1>1, <1>2 DEF TableRemove
<1>3. CASE id # SelfId
  <2> DEFINE k == HeightOf(id)
  <2>1. k \in Bits
    BY <1>3, HeightOfType
  <2>2. PICK c \in RemoveNode(buckets[k], id) : buckets' = [buckets EXCEPT ![k] = c]
    BY <1>3 DEF TableRemove
  <2>3. CreditKept(buckets[k], c, {id})
    BY <2>1, <2>2, RemoveNodeCredit DEF TableInv
  <2> HIDE DEF k
  <2> QED
    BY <1>1, <2>1, <2>2, <2>3
<1> QED
  BY <1>2, <1>3

\* A turn of a final loop costs nobody credit but a node that could not be reached
LEMMA TurnCredit ==
    ASSUME TasksInv, NEW kn \in KadNodes, NEW ids, NEW found \in BOOLEAN,
           MayFind(ids, kn.id, found),
           IF found THEN TableRemove(kn.id) ELSE TablePush(kn)
    PROVE  \A h \in Bits : CreditKept(buckets[h], buckets'[h], ids)
<1>1. TableInv /\ kn.id \in KadIds
  BY DEF TasksInv, KadNodes
<1>2. CASE found
  <2>1. kn.id \in ids
    BY <1>2 DEF MayFind
  <2>2. \A h \in Bits : CreditKept(buckets[h], buckets'[h], {kn.id})
    BY <1>1, <1>2, TableRemoveCredit
  <2> QED
    BY <2>1, <2>2 DEF CreditKept
<1>3. CASE ~found
  <2>1. \A h \in Bits : CreditKept(buckets[h], buckets'[h], {})
    BY <1>1, <1>3, TablePushCredit
  <2> QED
    BY <2>1 DEF CreditKept
<1> QED
  BY <1>2, <1>3

\* While a task is in its final loop nobody else changes the table, as it has the lock
LEMMA CreditStep ==
    ASSUME TasksInv, [TasksNext]_tasksVars, ~LockFree, NEW h \in Bits
    PROVE  CreditKept(buckets[h], buckets'[h], Unreached)
<1>1. CASE UNCHANGED buckets
  <2>1. BucketOK(buckets[h])
    BY DEF TasksInv, TableInv
  <2> QED
    BY <1>1, <2>1, SameBucketCredit
<1>2. CASE Apply
  <2>1. pc = "applying" /\ \E kn \in todo : \E found \in BOOLEAN :
          /\ MayFind(failed, kn.id, found)
          /\ IF found THEN TableRemove(kn.id) ELSE TablePush(kn)
    BY <1>2 DEF Apply
  <2>2. PICK kn \in todo : \E found \in BOOLEAN :
          /\ MayFind(failed, kn.id, found)
          /\ IF found THEN TableRemove(kn.id) ELSE TablePush(kn)
    BY <2>1
  <2>3. kn \in KadNodes
    BY DEF TasksInv, LookupInv, LookupTypeOK
  <2>4. CreditKept(buckets[h], buckets'[h], failed)
    BY <2>2, <2>3, TurnCredit
  <2>5. failed \subseteq Unreached
    BY <2>1 DEF Unreached
  <2> QED
    BY <2>4, <2>5 DEF CreditKept
<1>3. ASSUME NEW r \in Rounders, RoundApplies(r)
      PROVE  CreditKept(buckets[h], buckets'[h], Unreached)
  <2>1. PICK kn \in left[r] : \E found \in BOOLEAN :
          /\ MayFind(lost[r], kn.id, found)
          /\ IF found THEN TableRemove(kn.id) ELSE TablePush(kn)
    BY <1>3 DEF RoundApplies
  <2>2. kn \in KadNodes
    BY RoundParts DEF TasksInv, TypeOf
  <2>3. CreditKept(buckets[h], buckets'[h], lost[r])
    BY <2>1, <2>2, TurnCredit
  <2>4. lost[r] \subseteq Unreached
    BY <1>3 DEF RoundApplies, Unreached
  <2> QED
    BY <2>3, <2>4 DEF CreditKept
<1>4. CASE Lookup /\ ~Apply
  BY <1>1, <1>4
  DEF Lookup, Locks, Task, LookupStep, BeginLookup, Snapshot, ReapReply, ReapFailure, PingSelf,
      NextWave, GiveUp, TakeLock, EndLookup, tableVars
<1>5. CASE BeginSearch \/ BeginPublish
  BY <1>1, <1>5 DEF BeginSearch, BeginPublish, Snapshot
<1>6. ASSUME NEW r \in Rounders, RoundStep(r), ~RoundApplies(r) PROVE UNCHANGED buckets
  BY <1>6
  DEF RoundStep, SendNext, ReapAnswer, ReapError, RoundPingsSelf, RoundOver, RoundLocks, EndRound,
      lookupVars, tableVars
<1>7. CASE Contacted
  BY <1>1, <1>7 DEF Contacted, Tick
<1>8. CASE UNCHANGED tasksVars
  BY <1>1, <1>8 DEF tasksVars, lookupVars, tableVars
<1> QED
  BY <1>1, <1>2, <1>3, <1>4, <1>5, <1>6, <1>7, <1>8 DEF TasksNext, Round

\* Whatever the tasks do beside each other, in a final loop a node loses credit only if
\* the lookup or the round whose loop it is could not reach it, or was stale before
THEOREM PenaltyCorrectness == TasksSpec => OnlyFailedPenalised
<1>1. TasksInv /\ [TasksNext]_tasksVars =>
        [~LockFree =>
            \A h \in Bits :
                LET b  == buckets[h]
                    b2 == buckets'[h]
                IN  \A i \in DOMAIN b.nodes :
                    b.nodes[i].id \notin Unreached =>
                        \/ b.nodes[i].stales >= StalesThr
                        \/ \E j \in DOMAIN b2.nodes :
                            /\ b2.nodes[j].id = b.nodes[i].id
                            /\ b2.nodes[j].stales <= b.nodes[i].stales]_tasksVars
  BY CreditStep DEF CreditKept, StillIn
<1> QED
  BY <1>1, TasksInvariance, PTL DEF TasksSpec, OnlyFailedPenalised
=============================================================================
