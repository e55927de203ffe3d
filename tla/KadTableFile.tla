---------------------------- MODULE KadTableFile ----------------------------
(***************************************************************************)
(* The file of the routing table: shutdown() writes it, the constructor of *)
(* LocalNode reads it (readFile and writeFile,                             *)
(* src/kademlia/kadroutingtable.cpp).  writeFile truncates the file first  *)
(* and renames nothing, so a process that is killed in it, or a full disk, *)
(* leaves a file that ends anywhere.                                       *)
(***************************************************************************)
EXTENDS KadRoutingTable

VARIABLES
    savedBuckets,  \* the buckets that can be read from the file
    savedWhole     \* the file goes on to the end of the last bucket

fileVars == <<tableVars, savedBuckets, savedWhole>>

Prefix(s, n) == SubSeq(s, 1, n)

\* Mutant of CutBucket: the replacements are written first
CutBucketReplacementsFirst(b, n, r) ==
    [nodes |-> IF r = Len(b.replacementNodes) THEN Prefix(b.nodes, n) ELSE << >>,
     replacementNodes |-> Prefix(b.replacementNodes, r)]

\* What readFile finds of a bucket when the file ends after n of its nodes and,
\* if these are all, r of its replacements.  A record that is not whole is not
\* pushed.  Ending before the number of the replacements or after it makes no
\* difference.
CutBucket(b, n, r) ==
    [nodes |-> Prefix(b.nodes, n),
     replacementNodes |->
        IF n = Len(b.nodes) THEN Prefix(b.replacementNodes, r) ELSE << >>]

\* What it finds of the table when the file ends in bucket h
Cut(h, n, r) ==
    [k \in Bits |->
        IF k < h THEN buckets[k] ELSE IF k > h THEN EmptyBucket ELSE CutBucket(buckets[h], n, r)]

\* No file is there at the first start
FileInit ==
    /\ Init
    /\ savedBuckets = [h \in Bits |-> EmptyBucket]
    /\ savedWhole = FALSE

\* shutdown() writes the table with the lock held
WriteFile ==
    /\ Running
    /\ savedBuckets' = buckets
    /\ savedWhole' = TRUE
    /\ UNCHANGED tableVars

\* It is killed meanwhile
WriteFileCut(h, n, r) ==
    /\ Running
    /\ savedBuckets' = Cut(h, n, r)
    /\ savedWhole' = FALSE
    /\ UNCHANGED tableVars

\* The process ends, by shutdown or in a crash, and starts again: readFile
\* fills the buckets and, unless it got to the end, answers -1 with what it has
\* read still in them; the constructor then pushes the configured peers as well.
\* The id of the local node is the first thing in the file, and a file cut
\* within it holds no bucket: to the table that is a first start.
ReadFile ==
    /\ Running
    /\ selfAddress' = NoAddress
    /\ buckets' = savedBuckets
    /\ unread' = IF savedWhole THEN {} ELSE ConfigPeers
    /\ held' = {}
    /\ UNCHANGED <<now, savedBuckets, savedWhole>>

FileNext ==
    \/ WriteFile
    \/ \E h \in Bits :
        \E n \in 0 .. Len(buckets[h].nodes), r \in 0 .. Len(buckets[h].replacementNodes) :
            WriteFileCut(h, n, r)
    \/ ReadFile

\* The calls in between
Table == FreshNext /\ UNCHANGED <<savedBuckets, savedWhole>>

\* A table that is only told of contacts just heard of, over restarts
RestartsSpec ==
    FileInit /\ [][FileNext \/ Table]_fileVars
=============================================================================
