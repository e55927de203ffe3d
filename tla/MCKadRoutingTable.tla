------------------------- MODULE MCKadRoutingTable -------------------------
(***************************************************************************)
(* Small tables for TLC: three-bit ids, buckets of two nodes, one failed   *)
(* probe makes a node stale.  Four contacts share the farthest bucket, so  *)
(* it fills, has replacements and overflows them.                          *)
(***************************************************************************)
EXTENDS KadRoutingTable

CONSTANTS
    MaxNow,     \* bound of the clock
    MaxStales,  \* bound of the failed probes of a node
    MaxHeld     \* bound of the copies held at a time

MCSelfId == {}
\* the contacts of the farthest bucket
FarIds == {{2}, {2, 0}, {2, 1}, {2, 1, 0}}
FarContacts == [id : FarIds, address : {"a"}]
\* every caller asks for the nodes closest to one id
MCTargetSets == {{id} : id \in KadIds}
\* a configured peer that turns out to be the local node under an older id
MCConfigPeers == {[id |-> {2}, address |-> "self"]}

Bounded ==
    /\ now <= MaxNow
    /\ Cardinality(held) <= MaxHeld
    /\ \A h \in Bits :
        /\ \A i \in DOMAIN buckets[h].nodes : buckets[h].nodes[i].stales <= MaxStales
        /\ \A i \in DOMAIN buckets[h].replacementNodes :
            buckets[h].replacementNodes[i].stales <= MaxStales
=============================================================================
