------------------------------ MODULE MCRounds ------------------------------
(***************************************************************************)
(* Small lookups and rounds for TLC, in a behaviour one or the other:      *)
(* flights of two nodes, replies of up to two contacts, one of which may   *)
(* be the local node.  The near contacts are spread over the buckets of    *)
(* two-bit ids; the far ones share a bucket of two, so that it fills and   *)
(* has replacements.                                                       *)
(***************************************************************************)
EXTENDS Rounds

CONSTANTS
    Together,   \* the sets of tasks that are at work together
    MaxNow,     \* bound of the clock, one less for each task beside the first
    MaxStales   \* bound of the nodes marked by a failed probe when a task begins

MCSelfId == {}

Contact(id) == [id |-> id, address |-> "a"]
Self == [id |-> MCSelfId, address |-> "self"]

NearContacts == {Contact({0}), Contact({1}), Contact({1, 0}), Self}
NearReplies == {{}, {Self, Contact({1, 0})}, {Contact({0}), Contact({1})}}

FarContacts == {Contact({2}), Contact({2, 0}), Contact({2, 1}), Self}
FarReplies == {{}, {Contact({2}), Contact({2, 1})}}

\* a configured peer that is the local node under an older id
OldSelf == {[id |-> {1}, address |-> "self"]}
OldFarSelf == {[id |-> {2}, address |-> "self"]}

\* A query beyond the local id, entries beside it and beyond
MCQueries == {{1, 0}}
MCBatches == {<<{0}, {1}>>}
MCTargetSets == {{id} : id \in KadIds} \cup {{{0}, {1}}}

VARIABLE who   \* what the behaviour is about

MCInit == RoundsInit /\ who \in Together

Of(task, action) == Alive /\ task \in who /\ action /\ UNCHANGED who

Resting == pc = "idle" /\ \A r \in Rounders : stage[r] = "idle"

MCNext ==
    \/ Of("lookup", Lookup)
    \/ Of("search", BeginSearch \/ RoundStep("search"))
    \/ Of("publish", BeginPublish \/ RoundStep("publish"))
    \/ Alive /\ (Resting \/ Cardinality(who) = 1) /\ Contacted /\ UNCHANGED who

mcVars == <<tasksVars, who>>

\* A lookup or a round that was begun is a thread the system runs, and waits for
\* replies as long as it takes: that each of them arrives or fails is assumed of
\* the network.  The lock is free again and again, and whoever waits for it gets
\* it at some time.
MCSpec ==
    /\ MCInit /\ [][MCNext]_mcVars
    /\ WF_mcVars(Of("lookup", Locks(LookupStep(RoundsHold(Rounders)))))
    /\ \A r \in Rounders :
        /\ WF_mcVars(Of(r, RoundStep(r)))
        /\ SF_mcVars(Of(r, RoundLocks(r)))

Bounded ==
    /\ now <= MaxNow
    /\ \A p \in Places : NodeAt(p).stales <= 1
    /\ pc = "probing" \/ (\E r \in Rounders : stage[r] = "sending") =>
            Cardinality({p \in Places : NodeAt(p).stales > 0}) <= MaxStales
=============================================================================
