-------------------------------- MODULE Rounds --------------------------------
(***************************************************************************)
(* The rounds over a set of neighbours that a search makes                 *)
(* (LocalNode::doSearch, src/sds_core/localnode.cpp) and the publish task  *)
(* (EntriesPublishTask), beside the lookups of NodesLookup and the ping    *)
(* handlers, all on one routing table.                                     *)
(*                                                                         *)
(* Under the lock a round makes a set of the nodes closest to a query, or  *)
(* a map from the nodes closest to each entry; it contacts them in flights *)
(* of Alpha without the lock, and pushes or removes them under it.  Both   *)
(* the set and the keys of the map are compared by lastSeen.  An entry is  *)
(* the id it is similar to.                                                *)
(*                                                                         *)
(* A search runs on the one worker of the web server, the publish task on  *)
(* a thread of its own: each has its round, and the two rounds, a lookup   *)
(* and the ping handlers are at work at the same time.                     *)
(***************************************************************************)
EXTENDS NodesLookup

CONSTANTS
    KClosest,   \* how many nodes getKClosestTo() takes, 16 in the code
    Queries,    \* what a user searches for
    Batches     \* what the publish task may take from the store and the crawler

ASSUME RoundsAssumption ==
    /\ KClosest \in Counts
    /\ Queries \subseteq KadIds
    /\ \A entries \in Batches : entries \in Seq(KadIds) /\ ToSet(entries) \in TargetSets

Rounders == {"search", "publish"}

\* Of each of the two
VARIABLES
    stage,    \* "idle", "sending", "reaping", "collected", "applying" or "aborted"
    targets,  \* targetNodes, or the keys of publishMap
    asked,    \* the targets the iterator has passed
    flight,   \* those whose futures were not waited for
    heard,    \* the ids of those that answered, in a search probedEmpty
    lost,     \* failed: the ids of those that did not
    left      \* what is left of the targets in the final loop

\* Of the publish task
VARIABLES
    list,     \* the entries publishMap has for each of its targets
    kept,     \* the entries stored here instead
    batch     \* the entries that had a neighbour when the map was made

mapVars == <<list, kept, batch>>

roundVars == <<stage, targets, asked, flight, heard, lost, left, mapVars>>

tasksVars == <<lookupVars, roundVars>>

LockFree == pc # "applying" /\ \A r \in Rounders : stage[r] # "applying"

\* What nobody but the lookup, or nobody but some rounds, has in its hands
LookupHolds == ToSet(alphaClosest) \cup probed
RoundsHold(rounds) == UNION {targets[r] : r \in rounds}

-----------------------------------------------------------------------------
(* Sets and maps keyed by nodes *)

\* insert() of some nodes in their order
InsertAll(s, nodes) ==
    s \cup {nodes[i] : i \in {j \in DOMAIN nodes :
                /\ SetFind(s, nodes[j]) = {}
                /\ \A k \in 1 .. (j - 1) : nodes[k].lastSeen # nodes[j].lastSeen}}

\* insert() of the contacts of a reply, a map from ids, in the order of the ids:
\* none was ever met, so that the first of them keeps out the others
InsertReply(s, reply) ==
    LET contacts == {NewKadNode(c.id, c.address) : c \in reply}
    IN  s \cup {kn \in contacts :
                /\ SetFind(s, kn) = {}
                /\ \A n \in contacts : n = kn \/ Less(kn.id, n.id)}

\* operator[] and push_back() for each entry and each of the nodes closest to it,
\* in the order of the two loops: the first of the nodes seen at the same second
\* gets what is meant for the others
MapOf(entries, orders) ==
    LET turns == UNION {{i} \X DOMAIN orders[i] : i \in DOMAIN orders}
        Node(t) == orders[t[1]][t[2]]
        Before(t, u) == t[1] < u[1] \/ (t[1] = u[1] /\ t[2] < u[2])
        keys == {Node(t) : t \in {u \in turns :
                    \A v \in turns : Before(v, u) => Node(v).lastSeen # Node(u).lastSeen}}
    IN  [kn \in keys |->
            {entries[t[1]] : t \in {u \in turns : Node(u).lastSeen = kn.lastSeen}}]

\* The orders of the closest nodes of each entry
Orders(entries) ==
    {orders \in [DOMAIN entries -> UNION {Closest(id, KClosest) : id \in ToSet(entries)}] :
        \A i \in DOMAIN entries : orders[i] \in Closest(entries[i], KClosest)}

\* Mutant of PublishMaps: the nodes of an entry are those of the entry before it
PublishMapsEarlier(entries) ==
    {MapOf([i \in DOMAIN entries |-> entries[IF i = 1 THEN i ELSE i - 1]], orders) :
        orders \in Orders(entries)}

\* The maps the loop over the entries may leave
PublishMaps(entries) == {MapOf(entries, orders) : orders \in Orders(entries)}

-----------------------------------------------------------------------------
RoundsInit ==
    /\ LookupInit
    /\ stage = [r \in Rounders |-> "idle"]
    /\ targets = [r \in Rounders |-> {}]
    /\ asked = [r \in Rounders |-> {}]
    /\ flight = [r \in Rounders |-> {}]
    /\ heard = [r \in Rounders |-> {}]
    /\ lost = [r \in Rounders |-> {}]
    /\ left = [r \in Rounders |-> {}]
    /\ list = << >> /\ kept = {} /\ batch = {}

\* A thread takes the lock for its first section
Begins(r) ==
    /\ stage[r] = "idle" /\ LockFree
    /\ stage' = [stage EXCEPT ![r] = "sending"]
    /\ UNCHANGED <<taskVars, asked, flight, heard, lost, left>>

\* The first section of doSearch.  The table never answers the local node, for
\* which the store of this node would be searched.
BeginSearch ==
    /\ Begins("search")
    /\ \E query \in Queries :
        /\ Snapshot({query}, KClosest)
        /\ \E nodes \in Closest(query, KClosest) :
            targets' = [targets EXCEPT !["search"] = InsertAll({}, nodes)]
    /\ UNCHANGED mapVars

\* The second section of the publish task, when it has something to publish.
\* find(selfNode) finds any node never met since it was added.
BeginPublish ==
    /\ Begins("publish")
    /\ \E entries \in Batches :
        /\ Snapshot(ToSet(entries), KClosest)
        /\ batch' = {id \in ToSet(entries) : GetClosestTo(id, KClosest) # {}}
        /\ \E map \in PublishMaps(entries) :
            LET here == {kn \in DOMAIN map : kn.lastSeen = 0}
                there == (DOMAIN map) \ here
            IN  /\ targets' = [targets EXCEPT !["publish"] = there]
                /\ list' = [kn \in there |-> map[kn]]
                /\ kept' = UNION {map[kn] : kn \in here}

Ids(nodes) == {kn.id : kn \in nodes}

\* Mutant of FlightOver: the publish task does not wait for its last futures either
FlightOverFull(r, sent, passed) == Cardinality(Ids(sent)) >= Alpha

\* A flight is waited for when it has Alpha futures, the last one of the publish
\* task in any case
FlightOver(r, sent, passed) ==
    \/ Cardinality(Ids(sent)) >= Alpha
    \/ r = "publish" /\ passed = targets[r]

\* The next target is contacted, in the order of the set.  Its future takes the
\* place of another of its id, if the map finds that id.
SendNext(r) ==
    /\ stage[r] = "sending"
    /\ \E kn \in targets[r] \ asked[r] :
        /\ \A n \in targets[r] \ asked[r] : n.lastSeen <= kn.lastSeen
        /\ asked' = [asked EXCEPT ![r] = @ \cup {kn}]
        /\ \E others \in {flight[r], {n \in flight[r] : n.id # kn.id}} :
            flight' = [flight EXCEPT ![r] = others \cup {kn}]
    /\ stage' = IF FlightOver(r, flight'[r], asked'[r]) THEN [stage EXCEPT ![r] = "reaping"] ELSE stage
    /\ UNCHANGED <<lookupVars, targets, heard, lost, left, mapVars>>

\* The future whose turn it is, in the order of the ids
Due(r, kn) ==
    stage[r] = "reaping" /\ kn \in flight[r] /\ \A n \in flight[r] : MayPrecede(kn.id, n.id)

Waited(r, kn) ==
    /\ flight' = [flight EXCEPT ![r] = @ \ {kn}]
    /\ stage' = IF flight'[r] = {} THEN [stage EXCEPT ![r] = "sending"] ELSE stage

\* A reply to a search tells of nodes and never of results, as the request was
\* one of findNode; nobody looks whether one of them is the local node
ReapAnswer(r) ==
    /\ \E kn \in flight[r] :
        /\ Due(r, kn) /\ Waited(r, kn)
        /\ kn.address # SelfAddress
        /\ heard' = [heard EXCEPT ![r] = @ \cup {kn.id}]
    /\ \/ r = "publish" /\ UNCHANGED targets
       \/ /\ r = "search"
          /\ \E reply \in Replies : targets' = [targets EXCEPT ![r] = InsertReply(@, reply)]
    /\ UNCHANGED <<lookupVars, asked, lost, left, mapVars>>

ReapError(r) ==
    /\ \E kn \in flight[r] :
        /\ Due(r, kn) /\ Waited(r, kn)
        /\ lost' = [lost EXCEPT ![r] = @ \cup {kn.id}]
    /\ UNCHANGED <<lookupVars, targets, asked, heard, left, mapVars>>

\* A request to this node: its ping handler ends the process
RoundPingsSelf(r) ==
    /\ stage[r] # "aborted"
    /\ \E kn \in flight[r] : kn.address = SelfAddress
    /\ stage' = [stage EXCEPT ![r] = "aborted"]
    /\ UNCHANGED <<lookupVars, targets, asked, flight, heard, lost, left, mapVars>>

\* The iterator is at the end
RoundOver(r) ==
    /\ stage[r] = "sending"
    /\ targets[r] \subseteq asked[r]
    /\ stage' = [stage EXCEPT ![r] = "collected"]
    /\ UNCHANGED <<lookupVars, targets, asked, flight, heard, lost, left, mapVars>>

RoundLocks(r) ==
    /\ stage[r] = "collected" /\ LockFree
    /\ stage' = [stage EXCEPT ![r] = "applying"]
    /\ left' = [left EXCEPT ![r] = targets[r]]
    /\ UNCHANGED <<lookupVars, targets, asked, flight, heard, lost, mapVars>>

\* One turn of the final loop
RoundApplies(r) ==
    /\ stage[r] = "applying"
    /\ \E kn \in left[r] :
        /\ \A n \in left[r] : n.lastSeen <= kn.lastSeen
        /\ left' = [left EXCEPT ![r] = @ \ {kn}]
        /\ \E found \in BOOLEAN :
            /\ MayFind(lost[r], kn.id, found)
            /\ IF found THEN TableRemove(kn.id) ELSE TablePush(kn)
    /\ UNCHANGED <<selfAddress, unread, held, now, taskVars, stage, targets, asked, flight,
                   heard, lost, mapVars>>

\* unlock(), and the end, for which the futures left are waited for
EndRound(r) ==
    /\ stage[r] = "applying" /\ left[r] = {}
    /\ stage' = [stage EXCEPT ![r] = "idle"]
    /\ targets' = [targets EXCEPT ![r] = {}]
    /\ asked' = [asked EXCEPT ![r] = {}]
    /\ flight' = [flight EXCEPT ![r] = {}]
    /\ heard' = [heard EXCEPT ![r] = {}]
    /\ lost' = [lost EXCEPT ![r] = {}]
    /\ IF r = "publish" THEN list' = << >> /\ kept' = {} /\ batch' = {} ELSE UNCHANGED mapVars
    /\ held' = held \cap (LookupHolds \cup RoundsHold(Rounders \ {r}))
    /\ UNCHANGED <<selfAddress, buckets, unread, now, taskVars, left>>

\* A round goes on
RoundStep(r) ==
    \/ SendNext(r) \/ ReapAnswer(r) \/ ReapError(r) \/ RoundPingsSelf(r)
    \/ RoundOver(r) \/ RoundLocks(r) \/ RoundApplies(r) \/ EndRound(r)

Round == BeginSearch \/ BeginPublish \/ \E r \in Rounders : RoundStep(r)

Alive == pc # "aborted" /\ \A r \in Rounders : stage[r] # "aborted"

\* The lookup waits for the lock too
Locks(step) == (pc \in {"idle", "collected"} => LockFree) /\ step /\ UNCHANGED roundVars

Lookup == Locks(Task(RoundsHold(Rounders)))

\* The start of the program, and, while the lock is free, the ping handlers
Contacted ==
    /\ IF LockFree THEN FreshNext ELSE Tick
    /\ UNCHANGED <<taskVars, roundVars>>

TasksNext == Alive /\ (Lookup \/ Round \/ Contacted)

TasksSpec == RoundsInit /\ [][TasksNext]_tasksVars
-----------------------------------------------------------------------------
(* Correctness *)

RoundTypeOK ==
    /\ stage \in [Rounders ->
            {"idle", "sending", "reaping", "collected", "applying", "aborted"}]
    /\ targets \in [Rounders -> SUBSET KadNodes]
    /\ asked \in [Rounders -> SUBSET KadNodes]
    /\ flight \in [Rounders -> SUBSET KadNodes]
    /\ heard \in [Rounders -> SUBSET KadIds]
    /\ lost \in [Rounders -> SUBSET KadIds]
    /\ left \in [Rounders -> SUBSET KadNodes]
    /\ \A r \in Rounders :
        flight[r] \subseteq asked[r] /\ asked[r] \subseteq targets[r] /\ left[r] \subseteq targets[r]
    /\ list \in [DOMAIN list -> SUBSET KadIds] /\ DOMAIN list \subseteq targets["publish"]
    /\ kept \subseteq batch /\ batch \subseteq KadIds

TasksTypeOK == LookupTypeOK /\ RoundTypeOK

\* Whom a round pushes in its final loop without a sign of life: nobody when it
\* publishes, and fewer than Alpha when it searches, as the last flight of a
\* search is waited for only if it is full (localnode.cpp:418).
UnheardFew ==
    \A r \in Rounders : stage[r] = "applying" =>
        LET unheard == Ids(targets[r]) \ (heard[r] \cup lost[r])
        IN  /\ r = "publish" => unheard = {}
            /\ Cardinality(unheard) < Alpha

\* Though nodes seen at the same second are one to the map, every entry that had
\* a neighbour when it was taken is stored here or offered to a node, and when the
\* round is over that node has answered or failed (localnode.cpp:184-235).
EntriesLeave ==
    stage["publish"] \in {"collected", "applying"} =>
        \A entry \in batch :
            \/ entry \in kept
            \/ \E kn \in targets["publish"] :
                entry \in list[kn] /\ kn.id \in heard["publish"] \cup lost["publish"]

\* The ids that did not answer the one in whose final loop the tasks are
Unreached ==
    (IF pc = "applying" THEN failed ELSE {}) \cup
    UNION {lost[r] : r \in {s \in Rounders : stage[s] = "applying"}}

\* In a final loop a listed node loses credit, one more failed probe or its place
\* to a replacement, only if the lookup or the round whose loop it is could not
\* reach it, whatever the others found out meanwhile; another can at most lose its
\* place to a newcomer when it is stale.
OnlyFailedPenalised ==
    [][~LockFree =>
        \A h \in Bits :
            LET b  == buckets[h]
                b2 == buckets'[h]
            IN  \A i \in DOMAIN b.nodes :
                b.nodes[i].id \notin Unreached =>
                    \/ b.nodes[i].stales >= StalesThr
                    \/ \E j \in DOMAIN b2.nodes :
                        /\ b2.nodes[j].id = b.nodes[i].id
                        /\ b2.nodes[j].stales <= b.nodes[i].stales]_tasksVars

\* Whatever the lookup, the searches, the publish task and the ping handlers do to
\* the table, it is a sequence of the calls KadRoutingTable specifies, on copies
\* they took from it or on contacts just heard of: what holds of that module holds
\* here.
ImplementsTable == Spec

\* Once its requests are answered or fail, a lookup or a round ends, or the
\* process does
TasksEnd ==
    /\ pc = "probing" ~> pc = "idle" \/ ~Alive
    /\ \A r \in Rounders : stage[r] = "sending" ~> stage[r] = "idle" \/ ~Alive

\* "This should never happen": a node does not ping itself (localnode.cpp:312)
NeverPingsSelf == Alive
=============================================================================
