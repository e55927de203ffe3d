----------------------------- MODULE KadBucket -----------------------------
(***************************************************************************)
(* A k-bucket (src/kademlia/kadbucket.cpp) and the node records it holds   *)
(* (KadNode in src/kademlia/kadnode.cpp).  A bucket is a value here, and   *)
(* each method maps it to the set of the buckets it may leave: std::sort   *)
(* is not stable, so nodes last seen at the same second may be left in any *)
(* order.                                                                  *)
(***************************************************************************)
EXTENDS KadId, Sequences, FiniteSets, Functions

CONSTANTS
    Addresses,   \* network addresses, "host:port" in the code
    BucketMax,   \* KAD_BUCKET_MAX, 20 in the code
    StalesThr    \* STALES_THR, 5 in the code

ASSUME BucketAssumption ==
    /\ BucketMax \in Nat /\ BucketMax > 1
    /\ StalesThr \in Nat /\ StalesThr > 0

-----------------------------------------------------------------------------
(* Node records. lastSeen is 0 until the node is met again. *)

KadNodes == [id : KadIds, address : Addresses, lastSeen : Nat, stales : Nat]

\* The constructor KadNode(id, address)
NewKadNode(id, address) ==
    [id |-> id, address |-> address, lastSeen |-> 0, stales |-> 0]

SeenNow(kn, now) == [kn EXCEPT !.lastSeen = now]

ResetStales(kn) == [kn EXCEPT !.stales = 0]

\* Mutant of IncrementStales
DecrementStales(kn) == [kn EXCEPT !.stales = @ - 1]

IncrementStales(kn) == [kn EXCEPT !.stales = @ + 1]

-----------------------------------------------------------------------------
(* Buckets: the list of the nodes in use and that of their replacements. *)

Buckets == [nodes : Seq(KadNodes), replacementNodes : Seq(KadNodes)]

EmptyBucket == [nodes |-> << >>, replacementNodes |-> << >>]

\* The ids listed by a sequence of nodes
IdsOf(s) == {s[i].id : i \in DOMAIN s}

\* No id is listed twice
Distinct(s) == \A i, j \in DOMAIN s : s[i].id = s[j].id => i = j

\* std::find by operator==, which compares ids: the first place of the id, if any
Find(s, id) ==
    {i \in DOMAIN s : s[i].id = id /\ \A j \in DOMAIN s : j < i => s[j].id # id}

\* vector::erase at place i
Erase(s, i) == [j \in 1 .. (Len(s) - 1) |-> IF j < i THEN s[j] ELSE s[j + 1]]

\* The rearrangements of a sequence, among which std::sort picks a sorted one
Rearrangements(s) ==
    {[i \in 1 .. Len(s) |-> s[p[i]]] : p \in Bijection(1 .. Len(s), 1 .. Len(s))}

\* std::sort by operator<, which puts the most recently seen first
RecentFirst(s) ==
    \A i, j \in DOMAIN s : i < j => s[i].lastSeen >= s[j].lastSeen

Sorted(s) == {t \in Rearrangements(s) : RecentFirst(t)}

Reorder(b) ==
    {[nodes |-> n, replacementNodes |-> r] :
        n \in Sorted(b.nodes), r \in Sorted(b.replacementNodes)}

HasNode(b, kn) == kn.id \in IdsOf(b.nodes)

IsFull(b) == Len(b.nodes) = BucketMax

\* Mutant of Stalest: the threshold is forgotten
StalestOfAll(s) ==
    {i \in DOMAIN s :
        /\ \A j \in DOMAIN s : s[j].stales <= s[i].stales
        /\ \A j \in DOMAIN s : j < i => s[j].stales < s[i].stales}

\* The place of the node with the most failed probes, the first of them at a
\* tie, if one has reached the threshold
Stalest(s) ==
    {i \in DOMAIN s :
        /\ s[i].stales >= StalesThr
        /\ \A j \in DOMAIN s : s[j].stales <= s[i].stales
        /\ \A j \in DOMAIN s : j < i => s[j].stales < s[i].stales}

-----------------------------------------------------------------------------
(* pushNode, one operator per branch *)

\* Mutant of Renew: the bucket is not sorted
RenewInPlace(b, kn, now) ==
    {[b EXCEPT !.nodes[i] = ResetStales(SeenNow(@, now))] : i \in Find(b.nodes, kn.id)}

\* kn is in use: it has just been met, and its failed probes are forgotten
Renew(b, kn, now) ==
    UNION {Reorder([b EXCEPT !.nodes[i] = ResetStales(SeenNow(@, now))]) :
           i \in Find(b.nodes, kn.id)}

\* Mutant of Admit: nobody looks whether kn is already in use
AdmitAgain(b, kn) ==
    IF Len(b.nodes) < BucketMax
    THEN Reorder([b EXCEPT !.nodes = Append(@, kn)])
    ELSE {}

\* there is room for kn
Admit(b, kn) ==
    IF ~HasNode(b, kn) /\ Len(b.nodes) < BucketMax
    THEN Reorder([b EXCEPT !.nodes = Append(@, kn)])
    ELSE {}

\* kn takes the place of the stalest node
Evict(b, kn) ==
    IF ~HasNode(b, kn) /\ ~(Len(b.nodes) < BucketMax)
    THEN UNION {Reorder([b EXCEPT !.nodes = Append(Erase(@, i), kn)]) :
                i \in Stalest(b.nodes)}
    ELSE {}

\* Mutant of Park: the replacements have no limit
ParkUnbounded(b, kn, now) ==
    IF ~HasNode(b, kn) /\ ~(Len(b.nodes) < BucketMax) /\ Stalest(b.nodes) = {}
    THEN LET r == b.replacementNodes
         IN  UNION {Reorder([b EXCEPT !.replacementNodes = q]) :
                    q \in IF kn.id \in IdsOf(r)
                          THEN {[r EXCEPT ![i] = SeenNow(@, now)] : i \in Find(r, kn.id)}
                          ELSE {Append(r, kn)}}
    ELSE {}

\* every node in use is good: kn is seen again among the replacements, or is
\* put there, in the last place when they are BucketMax
Park(b, kn, now) ==
    IF ~HasNode(b, kn) /\ ~(Len(b.nodes) < BucketMax) /\ Stalest(b.nodes) = {}
    THEN LET r == b.replacementNodes
             parked ==
                 IF kn.id \in IdsOf(r)
                 THEN {[r EXCEPT ![i] = SeenNow(@, now)] : i \in Find(r, kn.id)}
                 ELSE IF Len(r) < BucketMax
                      THEN {Append(r, kn)}
                      ELSE {[r EXCEPT ![Len(r)] = kn]}
         IN  UNION {Reorder([b EXCEPT !.replacementNodes = q]) : q \in parked}
    ELSE {}

PushNode(b, kn, now) ==
    Renew(b, kn, now) \cup Admit(b, kn) \cup Evict(b, kn) \cup Park(b, kn, now)

\* What pushNode answers: the value of its local "found"
PushFound(b, kn) ==
    \/ HasNode(b, kn)
    \/ /\ ~(Len(b.nodes) < BucketMax)
       /\ Stalest(b.nodes) = {}
       /\ kn.id \in IdsOf(b.replacementNodes)

-----------------------------------------------------------------------------
(* removeNode: the best replacement takes the place of the node, or the node
   stays with one more failed probe *)

RemoveNode(b, id) ==
    IF id \notin IdsOf(b.nodes)
    THEN {b}
    ELSE UNION {
        IF b.replacementNodes # << >>
        THEN Reorder([nodes |-> Append(Erase(b.nodes, i), Head(b.replacementNodes)),
                      replacementNodes |-> Tail(b.replacementNodes)])
        ELSE {[b EXCEPT !.nodes[i] = IncrementStales(@)]} :
        i \in Find(b.nodes, id)}
=============================================================================
