-------------------------- MODULE KadRoutingTable --------------------------
(***************************************************************************)
(* The routing table of a node (src/kademlia/kadroutingtable.cpp) and the  *)
(* calls the rest of the program makes on it.  The lookup task, the publish*)
(* task and the searches take a snapshot of some nodes with getClosestTo,  *)
(* contact them without the lock, and later push their copies back or      *)
(* report them failed: "held" is the set of the copies taken that way.     *)
(***************************************************************************)
EXTENDS KadBucket

CONSTANTS
    SelfId,       \* the id of the local node
    NoAddress,    \* the empty string, the local address until main sets it
    SelfAddress,  \* the address main gives the local node
    ConfigPeers,  \* the contacts of the [peers] section of the configuration
    Contacts,     \* the contacts remote nodes tell of, by a ping or in a reply
    Counts,       \* how many nodes a caller of getClosestTo asks for
    TargetSets    \* the sets of ids it asks the closest nodes of under one lock

ASSUME TableAssumption ==
    /\ SelfId \in KadIds
    /\ SelfAddress \in Addresses
    /\ NoAddress \notin Addresses
    /\ ConfigPeers \subseteq [id : KadIds, address : Addresses]
    /\ Contacts \subseteq [id : KadIds, address : Addresses]
    /\ Counts \subseteq Nat
    /\ TargetSets \subseteq SUBSET KadIds

VARIABLES
    selfAddress,  \* selfNode.address
    buckets,      \* one bucket per height
    unread,       \* the configured peers the constructor has still to push
    held,         \* copies of nodes in the hands of the tasks and searches
    now           \* time(nullptr)

tableVars == <<selfAddress, buckets, unread, held, now>>

-----------------------------------------------------------------------------
(* The methods of KadRoutingTable *)

HeightOf(id) == Height(Distance(SelfId, id))

\* pushNode refuses the local node, by id or by address
IsSelf(kn) == kn.id = SelfId \/ kn.address = selfAddress

\* Mutant of TablePush: the bucket below
TablePushBelow(kn) ==
    LET h == IF HeightOf(kn.id) = 0 THEN 0 ELSE HeightOf(kn.id) - 1
    IN  IF IsSelf(kn)
        THEN UNCHANGED buckets
        ELSE \E b \in PushNode(buckets[h], kn, now) : buckets' = [buckets EXCEPT ![h] = b]

TablePush(kn) ==
    IF IsSelf(kn)
    THEN UNCHANGED buckets
    ELSE \E b \in PushNode(buckets[HeightOf(kn.id)], kn, now) :
            buckets' = [buckets EXCEPT ![HeightOf(kn.id)] = b]

TablePushFound(kn) == ~IsSelf(kn) /\ PushFound(buckets[HeightOf(kn.id)], kn)

TableRemove(id) ==
    IF id = SelfId
    THEN UNCHANGED buckets
    ELSE \E b \in RemoveNode(buckets[HeightOf(id)], id) :
            buckets' = [buckets EXCEPT ![HeightOf(id)] = b]

TableIsFull == \A h \in Bits : IsFull(buckets[h])

\* A node in use is named by its place, <<bucket, index>>
Places == UNION {{h} \X DOMAIN buckets[h].nodes : h \in Bits}

NodeAt(p) == buckets[p[1]].nodes[p[2]]

\* Mutant of Turn: from the lowest bucket up
TurnFromLowest(h, target) == h

\* getClosestTo visits the bucket of the target, then those one below and one
\* above it, two below, two above, and so on; it stops at count nodes.  The
\* final sort by distance is left out: no caller depends on the order.
Turn(h, target) ==
    IF h < HeightOf(target)
    THEN 2 * (HeightOf(target) - h) - 1
    ELSE 2 * (h - HeightOf(target))

VisitedBefore(p, q, target) ==
    \/ Turn(p[1], target) < Turn(q[1], target)
    \/ p[1] = q[1] /\ p[2] < q[2]

GetClosestTo(target, count) ==
    IF target = SelfId
    THEN {}
    ELSE {q \in Places :
            Cardinality({p \in Places : VisitedBefore(p, q, target)}) < count}

-----------------------------------------------------------------------------
Init ==
    /\ selfAddress = NoAddress
    /\ buckets = [h \in Bits |-> EmptyBucket]
    /\ unread = ConfigPeers
    /\ held = {}
    /\ now = 1

\* The constructor of LocalNode, when there is no table file: the local
\* address is not known yet
PushConfigPeer(c) ==
    /\ c \in unread
    /\ TablePush(NewKadNode(c.id, c.address))
    /\ unread' = unread \ {c}
    /\ UNCHANGED <<selfAddress, held, now>>

\* LocalNode::setSelfNodeAddress, called by main before it starts the threads
SetSelfNodeAddress ==
    /\ selfAddress = NoAddress
    /\ unread = {}
    /\ selfAddress' = SelfAddress
    /\ UNCHANGED <<buckets, unread, held, now>>

Running == selfAddress = SelfAddress

\* A ping handler, a lookup or a search adds a contact a remote node told of
PushContact(c) ==
    /\ Running
    /\ TablePush(NewKadNode(c.id, c.address))
    /\ UNCHANGED <<selfAddress, unread, held, now>>

\* A contact just heard of could not be reached
RemoveContact(c) ==
    /\ Running
    /\ TableRemove(c.id)
    /\ UNCHANGED <<selfAddress, unread, held, now>>

\* A task or a search takes copies of the nodes closest to its target; the publish
\* task, of those closest to any of its entries
Snapshot(targets, count) ==
    /\ Running
    /\ held' = held \cup {NodeAt(p) : p \in UNION {GetClosestTo(t, count) : t \in targets}}
    /\ UNCHANGED <<selfAddress, buckets, unread, now>>

\* It pushes back a copy whose node answered; another caller may hold the same
PushHeld(kn) ==
    /\ kn \in held
    /\ TablePush(kn)
    /\ UNCHANGED <<selfAddress, unread, held, now>>

\* It reports a copy whose node did not answer
RemoveHeld(kn) ==
    /\ kn \in held
    /\ TableRemove(kn.id)
    /\ UNCHANGED <<selfAddress, unread, held, now>>

\* The last caller that held these copies is done
Release(copies) ==
    /\ held' = held \ copies
    /\ UNCHANGED <<selfAddress, buckets, unread, now>>

Tick ==
    /\ now' = now + 1
    /\ UNCHANGED <<selfAddress, buckets, unread, held>>

\* The calls about contacts just heard of, which never bring back an old copy
FreshNext ==
    \/ \E c \in ConfigPeers : PushConfigPeer(c)
    \/ SetSelfNodeAddress
    \/ \E c \in Contacts : PushContact(c) \/ RemoveContact(c)
    \/ Tick

Next ==
    \/ FreshNext
    \/ \E targets \in TargetSets, count \in Counts : Snapshot(targets, count)
    \/ \E kn \in held : PushHeld(kn) \/ RemoveHeld(kn)
    \/ \E copies \in SUBSET held : Release(copies)

Spec == Init /\ [][Next]_tableVars

\* A table that is only told of contacts just heard of
FreshSpec == Init /\ [][FreshNext]_tableVars
-----------------------------------------------------------------------------
(* Correctness *)

\* Every variable has its type
TypeOK ==
    /\ selfAddress \in {NoAddress, SelfAddress}
    /\ buckets \in [Bits -> Buckets]
    /\ unread \subseteq ConfigPeers
    /\ held \subseteq KadNodes
    /\ now \in Nat

\* A node, in use or waiting, is in the bucket of its distance to the local
\* node, and the local node is in none: pushNode and removeNode look for a
\* node in that bucket only.
Placed ==
    \A h \in Bits :
        \A id \in IdsOf(buckets[h].nodes) \cup IdsOf(buckets[h].replacementNodes) :
            id # SelfId /\ HeightOf(id) = h

\* No list outgrows KAD_BUCKET_MAX, and nodes wait only behind a full list:
\* pushNode relies on it to need no promotion, removeNode to keep the list full.
ReplacementsWait ==
    \A h \in Bits :
        /\ Len(buckets[h].nodes) <= BucketMax
        /\ Len(buckets[h].replacementNodes) <= BucketMax
        /\ buckets[h].replacementNodes # << >> => IsFull(buckets[h])

\* Both lists keep the most recently seen nodes first after every call, though
\* a failed probe does not sort: pop_back drops the oldest replacement,
\* removeNode promotes the newest, getClosestTo prefers the newest.
MostRecentFirst ==
    \A h \in Bits : RecentFirst(buckets[h].nodes) /\ RecentFirst(buckets[h].replacementNodes)

\* isFull() is never true: the bucket of height 0 has room for a single id.
\* The branch of NodesLookupTask::execute that refreshes the buckets by their
\* age (localnode.cpp:33-39) is therefore never taken.
NeverFull == ~TableIsFull

\* An answer that leaves out a node of the bucket of its target has only nodes
\* closer to the target than the node that answers: a lookup that follows it
\* progresses (getClosestTo fills up from the bucket of the target first).
AnswersProgress ==
    \A target \in KadIds \ {SelfId}, count \in Counts :
        LET answer == GetClosestTo(target, count)
        IN  (\E p \in Places \ answer : p[1] = HeightOf(target)) =>
                \A p \in answer :
                    Less(Distance(NodeAt(p).id, target), Distance(SelfId, target))

\* A node in use leaves its bucket only in exchange for another node, and only
\* if it failed StalesThr probes or a replacement, the most recently seen one,
\* was waiting for its place: nobody is displaced by a newcomer while it answers.
DisplacedForCause ==
    [][\A h \in Bits :
        LET b  == buckets[h]
            b2 == buckets'[h]
        IN  /\ Len(b2.nodes) >= Len(b.nodes)
            /\ \A i \in DOMAIN b.nodes :
                b.nodes[i].id \notin IdsOf(b2.nodes) =>
                    \/ b.nodes[i].stales >= StalesThr
                    \/ /\ b.replacementNodes # << >>
                       /\ Head(b.replacementNodes).id \in IdsOf(b2.nodes)
                       /\ Len(b2.replacementNodes) < Len(b.replacementNodes)]_tableVars

\* Of a table that is only told of contacts just heard of: no id is listed
\* twice, among the nodes in use and the replacements of its bucket together.
ListedOnce ==
    \A h \in Bits :
        LET n == buckets[h].nodes
            r == buckets[h].replacementNodes
        IN  Distinct(n) /\ Distinct(r) /\ IdsOf(n) \cap IdsOf(r) = {}

\* pushNode answers whether the node was in the table, as the lookup that
\* counts its discoveries says: "If node is already in table 0 otherwise
\* ndiscovered += 1" (localnode.cpp:135).
AnswerTellsPresence ==
    \A kn \in held :
        ~IsSelf(kn) =>
            LET b == buckets[HeightOf(kn.id)]
            IN  TablePushFound(kn) <=>
                    kn.id \in IdsOf(b.nodes) \cup IdsOf(b.replacementNodes)
=============================================================================
