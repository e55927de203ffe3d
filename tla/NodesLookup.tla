---------------------------- MODULE NodesLookup ----------------------------
(***************************************************************************)
(* The task that looks for new neighbours (NodesLookupTask in              *)
(* src/sds_core/localnode.cpp).  Rounds composes it with the others that   *)
(* use the same routing table.                                             *)
(*                                                                         *)
(* A lookup takes the Alpha nodes closest to its target under the lock,    *)
(* contacts them and then the nodes they tell of, wave by wave, without    *)
(* the lock, and takes the lock again to push or remove what it probed.    *)
(* "probed" is a std::set<KadNode>, and operator< compares lastSeen: to    *)
(* the set, two nodes seen at the same second are one.  In the table       *)
(* module's terms, "held" is what the lookup took from the table.          *)
(***************************************************************************)
EXTENDS KadRoutingTable, SequencesExt

CONSTANTS
    Alpha,    \* ALPHA, 3 in the code: the width of a wave
    Replies   \* the replies a node may give, as sets of contacts

ASSUME LookupAssumption ==
    /\ Alpha \in Nat \ {0}
    /\ Alpha \in Counts
    /\ \A id \in KadIds : {id} \in TargetSets
    /\ \A reply \in Replies : reply \subseteq Contacts /\ IsFiniteSet(reply)

VARIABLES
    pc,            \* "idle", "probing", "collected", "applying" or "aborted"
    bits,          \* execute's loop: the next target differs in that many bits
    target,        \* targetId
    alphaClosest,  \* the nodes of this wave, closest to the target first
    reaped,        \* how many of the futures of this wave have been waited for
    discovered,    \* the contacts the replies of this wave told of
    probed,        \* the set of the nodes probed so far
    failed,        \* the ids of those that did not answer
    todo           \* what is left of probed in the final loop

taskVars == <<pc, bits, target, alphaClosest, reaped, discovered, probed, failed, todo>>

lookupVars == <<tableVars, taskVars>>

-----------------------------------------------------------------------------
(* std::set<KadNode> *)

SetFind(s, kn) == {n \in s : n.lastSeen = kn.lastSeen}

SetInsert(s, kn) == IF SetFind(s, kn) = {} THEN s \cup {kn} ELSE s

\* Mutant of MayFind: ids are found that are not there
MayFindAny(s, id, answer) == answer \in BOOLEAN

\* std::set<KadId>::find: whether an id that is in the set is found depends on
\* KadId::operator<, which reads outside its arrays when the ids are equal
MayFind(s, id, answer) == answer \in BOOLEAN /\ (answer => id \in s)

ByDistance(s, id) ==
    {t \in Rearrangements(s) :
        \A i, j \in 1 .. Len(s) :
            i < j => MayPrecede(Distance(t[i].id, id), Distance(t[j].id, id))}

\* The orders in which getClosestTo may leave its answer
Closest(id, count) ==
    LET places == SetToSeq(GetClosestTo(id, count))
    IN  ByDistance([i \in DOMAIN places |-> NodeAt(places[i])], id)

\* Mutant of FirstAlpha: the wave is not cut
AllOf(s) == s

FirstAlpha(s) == SubSeq(s, 1, IF Len(s) < Alpha THEN Len(s) ELSE Alpha)

-----------------------------------------------------------------------------
LookupInit ==
    /\ Init
    /\ pc = "idle"
    /\ bits = 0
    /\ target = SelfId
    /\ alphaClosest = << >>
    /\ reaped = 0
    /\ discovered = << >>
    /\ probed = {}
    /\ failed = {}
    /\ todo = {}

\* Mutant of News: the nodes probed are not left out
NewsAgain(reply, s) ==
    {kn \in {NewKadNode(c.id, c.address) : c \in reply} : ~IsSelf(kn)}

\* The contacts of a reply that are neither in s, as the set compares them, nor
\* the local node
News(reply, s) ==
    {kn \in {NewKadNode(c.id, c.address) : c \in reply} :
        SetFind(s, kn) = {} /\ ~IsSelf(kn)}

\* A wave is sent, or the loop ends when there is nobody to contact
EnterLoop(wave) ==
    /\ alphaClosest' = wave
    /\ reaped' = 0
    /\ discovered' = << >>
    /\ pc' = IF wave = << >> THEN "collected" ELSE "probing"

\* execute asks for the next target, and doNodesLookup takes its first wave
\* under the lock.  With no bit flipped the target is the local node itself.
BeginLookup ==
    /\ pc = "idle"
    /\ Running
    /\ target' = IdNBitsFarFrom(SelfId, bits)
    /\ bits' = (bits + 1) % BitLength
    /\ Snapshot({target'}, Alpha)
    /\ \E wave \in Closest(target', Alpha) : EnterLoop(wave)
    /\ UNCHANGED <<probed, failed, todo>>

\* futures[i].get() returns a reply
ReapReply ==
    /\ pc = "probing"
    /\ reaped < Len(alphaClosest)
    /\ alphaClosest[reaped + 1].address # SelfAddress
    /\ reaped' = reaped + 1
    /\ probed' = SetInsert(probed, alphaClosest[reaped'])
    /\ \E reply \in Replies : discovered' = discovered \o SetToSeq(News(reply, probed'))
    /\ UNCHANGED <<tableVars, pc, bits, target, alphaClosest, failed, todo>>

\* futures[i].get() throws: the node could not be reached, or answered an error
ReapFailure ==
    /\ pc = "probing"
    /\ reaped < Len(alphaClosest)
    /\ reaped' = reaped + 1
    /\ probed' = SetInsert(probed, alphaClosest[reaped'])
    /\ failed' = failed \cup {alphaClosest[reaped'].id}
    /\ UNCHANGED <<tableVars, pc, bits, target, alphaClosest, discovered, todo>>

\* The node at the other end is this one: its ping handler gets the local id
\* and LOG_F(FATAL) ends the process (localnode.cpp:311-315)
PingSelf ==
    /\ pc = "probing"
    /\ \E i \in DOMAIN alphaClosest : i > reaped /\ alphaClosest[i].address = SelfAddress
    /\ pc' = "aborted"
    /\ UNCHANGED <<tableVars, bits, target, alphaClosest, reaped, discovered, probed, failed, todo>>

\* The next wave is the Alpha closest contacts discovered
NextWave ==
    /\ pc = "probing"
    /\ reaped = Len(alphaClosest)
    /\ \E s \in ByDistance(discovered, target) : EnterLoop(FirstAlpha(s))
    /\ UNCHANGED <<tableVars, bits, target, probed, failed, todo>>

\* More than a minute has gone: the wave just prepared is not sent
GiveUp ==
    /\ pc = "probing"
    /\ reaped = Len(alphaClosest)
    /\ pc' = "collected"
    /\ UNCHANGED <<tableVars, bits, target, alphaClosest, reaped, discovered, probed, failed, todo>>

\* The lock is taken for the final loop over the probed nodes
TakeLock ==
    /\ pc = "collected"
    /\ pc' = "applying"
    /\ todo' = probed
    /\ UNCHANGED <<tableVars, bits, target, alphaClosest, reaped, discovered, probed, failed>>

\* Mutant of Apply: a node is marked as seen before it is pushed
ApplySeenNow ==
    /\ pc = "applying"
    /\ \E kn \in todo :
        /\ \A n \in todo : n.lastSeen <= kn.lastSeen
        /\ todo' = todo \ {kn}
        /\ \E found \in BOOLEAN :
            /\ MayFind(failed, kn.id, found)
            /\ IF found THEN TableRemove(kn.id) ELSE TablePush(SeenNow(kn, now))
    /\ UNCHANGED <<selfAddress, unread, held, now, pc, bits, target, alphaClosest, reaped, discovered, probed, failed>>

\* One turn of it, the most recently seen node first
Apply ==
    /\ pc = "applying"
    /\ \E kn \in todo :
        /\ \A n \in todo : n.lastSeen <= kn.lastSeen
        /\ todo' = todo \ {kn}
        /\ \E found \in BOOLEAN :
            /\ MayFind(failed, kn.id, found)
            /\ IF found THEN TableRemove(kn.id) ELSE TablePush(kn)
    /\ UNCHANGED <<selfAddress, unread, held, now, pc, bits, target, alphaClosest, reaped, discovered, probed, failed>>

\* The lock is released and doNodesLookup returns: its locals are gone, and the
\* copies nobody else keeps
EndLookup(kept) ==
    /\ pc = "applying"
    /\ todo = {}
    /\ pc' = "idle"
    /\ probed' = {}
    /\ failed' = {}
    /\ alphaClosest' = << >>
    /\ reaped' = 0
    /\ discovered' = << >>
    /\ target' = SelfId
    /\ held' = held \cap kept
    /\ UNCHANGED <<selfAddress, buckets, unread, now, bits, todo>>

\* A lookup goes on
LookupStep(kept) ==
    \/ ReapReply \/ ReapFailure \/ PingSelf \/ NextWave
    \/ GiveUp \/ TakeLock \/ Apply \/ EndLookup(kept)

Task(kept) == BeginLookup \/ LookupStep(kept)

-----------------------------------------------------------------------------
LookupTypeOK ==
    /\ pc \in {"idle", "probing", "collected", "applying", "aborted"}
    /\ bits \in 0 .. (BitLength - 1)
    /\ target \in KadIds
    /\ alphaClosest \in Seq(KadNodes) /\ Len(alphaClosest) <= Alpha
    /\ reaped \in 0 .. Len(alphaClosest)
    /\ discovered \in Seq(KadNodes)
    /\ probed \subseteq KadNodes /\ todo \subseteq probed
    /\ failed \subseteq KadIds
=============================================================================
