--------------------------- MODULE MCKadTableFile ---------------------------
(***************************************************************************)
(* Small tables over restarts for TLC, with the contacts and the bounds of *)
(* MCKadRoutingTable.                                                      *)
(***************************************************************************)
EXTENDS MCKadRoutingTable, KadTableFile

\* Two contacts and a configured peer, the local node under an older id, share
\* a bucket of two; one contact has a bucket of its own
FileContacts == [id : {{0}, {2}, {2, 0}}, address : {"a"}]
FilePeers == {[id |-> {2, 1}, address |-> "self"]}
=============================================================================
