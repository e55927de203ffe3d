--------------------------- MODULE SearchEntriesDB ---------------------------
(***************************************************************************)
(* The store of search entries (src/sds_core/searchentriesdb.cpp) under    *)
(* the mutex of LocalNode, through the runs of the process that owns it.   *)
(*                                                                         *)
(* The Berkeley DB behind "dbp" is external: its calls may fail, close     *)
(* writes everything, and a process that dies leaves of each record what   *)
(* was last written or what was last put.  "timestamps" is kept as ages,   *)
(* counted in hours and no further than UnixDay.                           *)
(***************************************************************************)
EXTENDS Integers

CONSTANTS
    Titles,      \* the titles of the entries
    Entries,     \* the entries the node may be given, records title and url
    EmptyEntry,  \* SearchEntry(), which getByHash answers when get fails
    NoEntry,     \* no record under a key
    Oversized,   \* the entries hasValidSize refuses
    UnixHour,    \* UNIX_HOUR, in the unit of the ages
    UnixDay,     \* UNIX_DAY
    MaxGap       \* the publish task runs again within that time

ASSUME DBAssumption ==
    /\ EmptyEntry \in Entries \ Oversized
    /\ NoEntry \notin Entries
    /\ \A se \in Entries : se.title \in Titles
    /\ UnixHour \in Nat /\ UnixDay \in Nat /\ MaxGap \in Nat
    /\ 0 < UnixHour /\ UnixHour < UnixDay

VARIABLES
    process,  \* "up", or how the last run of the program ended
    dbp,      \* "null", "unopened", "open" or "closed"
    age,      \* how old the timestamp of a hash is, or Untracked
    stored,   \* the records get would find
    disk,     \* the records in the file
    results,  \* what the publish task took to broadcast
    locked,   \* an exception left the mutex of LocalNode locked
    gap,      \* the time since the publish task last ran
    failures  \* history: "scan" if open() did not list the file to its end in
              \* this run, and "del" if del() failed

vars == <<process, dbp, age, stored, disk, results, locked, gap, failures>>

Untracked == -1

NoTimestamps == [h \in Titles |-> Untracked]

\* reHash(): the SHA256 of the title
Hash(se) == se.title

-----------------------------------------------------------------------------
(* How a run of the program ends *)

Ended(reason) ==
    /\ process' = reason
    /\ dbp' = "null"
    /\ age' = NoTimestamps
    /\ results' = {}
    /\ locked' = FALSE
    /\ gap' = 0
    /\ failures' = {}

\* The records s was put when the process died
Dies(reason, s) ==
    /\ Ended(reason)
    /\ disk' \in {d \in [Titles -> Entries \cup {NoEntry}] : \A h \in Titles : d[h] \in {disk[h], s[h]}}
    /\ stored' = disk'

-----------------------------------------------------------------------------
(* The methods, called with the mutex held *)

\* modified(), after age and stored became a and s.  It erases the timestamp of a
\* record that is a day old, whether del() erased the record or not, and goes on
\* from the erased iterator, which is undefined: some of the old records are
\* reached, and the process may die of it.
Modified(a, s) ==
    LET expired == {h \in Titles : a[h] >= UnixDay}
        Without(f, hashes, none) == [h \in Titles |-> IF h \in hashes THEN none ELSE f[h]]
    IN  \/ /\ expired = {}
           /\ age' = a
           /\ stored' = s
           /\ UNCHANGED <<process, dbp, disk, locked, failures>>
        \/ \E erased \in (SUBSET expired) \ {{}} : \E deleted \in SUBSET erased :
              \/ /\ age' = Without(a, erased, Untracked)
                 /\ stored' = Without(s, deleted, NoEntry)
                 /\ failures' = IF deleted = erased THEN failures ELSE failures \cup {"del"}
                 /\ UNCHANGED <<process, dbp, disk, locked>>
              \/ Dies("expiry", Without(s, deleted, NoEntry))

\* insertResult of the entries of a set, one per hash
Put(ses) ==
    Modified([h \in Titles |-> IF h \in {Hash(se) : se \in ses} THEN 0 ELSE age[h]],
             [h \in Titles |-> IF h \in {Hash(se) : se \in ses}
                               THEN CHOOSE se \in ses : Hash(se) = h
                               ELSE stored[h]])

\* Mutant of Found: nothing takes the place of an entry that get did not find
FoundOrNothing(hashes) ==
    {{g[h] : h \in hashes} : g \in {f \in [hashes -> Entries \cup {NoEntry}] :
        \A h \in hashes : f[h] \in {stored[h], NoEntry}}}

\* getByHash, for each hash of a set; get may fail
Found(hashes) ==
    {{g[h] : h \in hashes} : g \in {f \in [hashes -> Entries \cup {NoEntry}] :
        \A h \in hashes : f[h] \in ({stored[h], EmptyEntry} \ {NoEntry})}}

-----------------------------------------------------------------------------
Init ==
    /\ process = "off"
    /\ dbp = "null"
    /\ age = NoTimestamps
    /\ stored = [h \in Titles |-> NoEntry]
    /\ disk = stored
    /\ results = {}
    /\ locked = FALSE
    /\ gap = 0
    /\ failures = {}

Recorded == {h \in Titles : stored[h] # NoEntry}

\* open(): every record the scan of the file lists is as good as new.  When
\* cursor() fails, or the scan ends before the file does, the others have no
\* timestamp, and the store is used all the same.
Open ==
    /\ process # "up"
    /\ process' = "up"
    /\ dbp' = "open"
    /\ \E listed \in SUBSET Recorded :
        /\ age' = [h \in Titles |-> IF h \in listed THEN 0 ELSE Untracked]
        /\ failures' = IF listed = Recorded THEN failures ELSE {"scan"}
    /\ UNCHANGED <<stored, disk, results, locked, gap>>

\* db_create(), or one of the calls after it, fails: the node runs without a
\* store, and a handle that was not opened refuses every call
OpenFails ==
    /\ process # "up"
    /\ process' = "up"
    /\ dbp' \in {"null", "unopened"}
    /\ UNCHANGED <<age, stored, disk, results, locked, gap, failures>>

Serving == process = "up" /\ ~locked

\* LocalNode::storeResult, for a node that publishes an entry here
StoreResult(se) ==
    /\ Serving
    /\ dbp = "open"
    /\ se \notin Oversized
    /\ Put({se})
    /\ process' = "up" => UNCHANGED <<results, gap>>

\* Mutant of StoreResultThrows: the mutex is unlocked, and nothing else is undone
StoreResultUnlocks(se) ==
    /\ Serving
    /\ dbp \in {"open", "unopened"}
    /\ \/ se \in Oversized /\ UNCHANGED age
       \/ se \notin Oversized /\ age' = [age EXCEPT ![Hash(se)] = 0]
    /\ UNCHANGED <<process, dbp, stored, disk, results, locked, gap, failures>>

\* insertResult throws, and the mutex stays locked: the entry is too large, or
\* put fails after the timestamp was set
StoreResultThrows(se) ==
    /\ Serving
    /\ dbp \in {"open", "unopened"}
    /\ locked' = TRUE
    /\ \/ se \in Oversized /\ UNCHANGED age
       \/ se \notin Oversized /\ age' = [age EXCEPT ![Hash(se)] = 0]
    /\ UNCHANGED <<process, dbp, stored, disk, results, gap, failures>>

\* Mutant of Refreshed: an entry sent keeps its timestamp
NotRefreshed(due) == age

\* The ages when the entries of some hashes have been listed to be sent
Refreshed(due) == [h \in Titles |-> IF h \in due THEN 0 ELSE age[h]]

\* EntriesPublishTask::execute takes the entries nobody stored or broadcast for
\* an hour
GetEntriesForBroadcast ==
    /\ Serving
    /\ dbp # "closed"
    /\ results = {}
    /\ LET due == {h \in Titles : age[h] >= UnixHour}
       IN  /\ Modified(Refreshed(due), stored)
           /\ process' = "up" => results' \in Found(due) /\ gap' = 0

\* publishResults stores again what its map gives to "the local node", any
\* node of the table never met since it was added (localnode.cpp:199)
PublishToSelf ==
    /\ Serving
    /\ results # {}
    /\ dbp = "open"
    /\ \E ses \in (SUBSET results) \ {{}} : Put(ses)
    /\ process' = "up" => results' = {} /\ UNCHANGED gap

\* insertResult throws in the thread of the task, where nothing catches it
PublishToSelfThrows ==
    /\ Serving
    /\ results # {}
    /\ dbp = "open"
    /\ Dies("terminated", stored)

\* publishResults sent all of them to other nodes
PublishToOthers ==
    /\ Serving
    /\ results # {}
    /\ results' = {}
    /\ UNCHANGED <<process, dbp, age, stored, disk, locked, gap, failures>>

\* LocalNode::shutdown, once the tasks are stopped.  The pointer keeps its value.
Close ==
    /\ Serving
    /\ dbp # "closed"
    /\ results = {}
    /\ disk' = stored
    /\ dbp' = IF dbp = "null" THEN "null" ELSE "closed"
    /\ UNCHANGED <<process, age, stored, results, locked, gap, failures>>

\* A handler or a search still at work uses the closed handle, or a search the
\* null one, which doSearch does not look at: the process dies
UseBadHandle ==
    /\ Serving
    /\ dbp \in {"null", "closed"}
    /\ Dies(dbp, disk)

\* main returns
Exit ==
    /\ Serving
    /\ dbp \in {"null", "closed"}
    /\ results = {}
    /\ Ended("off")
    /\ UNCHANGED <<stored, disk>>

\* The machine fails, or somebody kills the process, the only end when the
\* mutex stays locked
Crash ==
    /\ process = "up"
    /\ Dies("killed", stored)

\* An hour passes; the publish task is never late by more than MaxGap
Tick ==
    /\ process = "up"
    /\ gap < MaxGap
    /\ gap' = gap + 1
    /\ age' = [h \in Titles |->
                IF age[h] \in 0 .. (UnixDay - 1) THEN age[h] + 1 ELSE age[h]]
    /\ UNCHANGED <<process, dbp, stored, disk, results, locked, failures>>

Next ==
    \/ Open \/ OpenFails
    \/ \E se \in Entries : StoreResult(se) \/ StoreResultThrows(se)
    \/ GetEntriesForBroadcast \/ PublishToSelf \/ PublishToSelfThrows \/ PublishToOthers
    \/ Close \/ UseBadHandle \/ Exit \/ Crash \/ Tick

\* The clock runs, and the publish task is a thread the system runs, whose
\* requests are answered or fail
Fairness ==
    /\ WF_vars(Tick)
    /\ WF_vars(GetEntriesForBroadcast)
    /\ WF_vars(PublishToOthers \/ PublishToSelf)

Spec == Init /\ [][Next]_vars /\ Fairness
-----------------------------------------------------------------------------
(* Correctness *)

\* Every variable has its type
StoreTypeOK ==
    /\ process \in {"up", "off", "expiry", "terminated", "null", "closed", "killed"}
    /\ dbp \in {"null", "unopened", "open", "closed"}
    /\ age \in [Titles -> Untracked .. UnixDay]
    /\ stored \in [Titles -> Entries \cup {NoEntry}]
    /\ disk \in [Titles -> Entries \cup {NoEntry}]
    /\ results \subseteq Entries
    /\ locked \in BOOLEAN
    /\ gap \in 0 .. MaxGap
    /\ failures \subseteq {"scan", "del"}

\* While anybody can use the store, every timestamp is that of a record: what a
\* failed put leaves behind is never read, as the mutex stays locked too.  And every
\* record has a timestamp, so that no broadcast forgets it, but for those of the file
\* that a failed scan did not come to and nobody stored since, and for those
\* that a failed del() could not expire (searchentriesdb.cpp:40-54, 72, 198).
TrackedIsStored ==
    Serving /\ dbp = "open" =>
        \A h \in Titles :
            /\ age[h] # Untracked => stored[h] # NoEntry
            /\ age[h] = Untracked /\ stored[h] # NoEntry =>
                    \/ "scan" \in failures /\ stored[h] = disk[h]
                    \/ "del" \in failures

\* The publish task last ran recently enough for it to find every record
\* before the expiry does
InTime == UnixHour + gap <= UnixDay

\* Each broadcast makes the records it sends as good as new, so unless the
\* publish task is late no record expires: while the process runs it keeps
\* every record, and the erase of modified() is not reached.
NothingExpires ==
    [][InTime =>
        /\ process' # "expiry"
        /\ process' = "up" =>
            \A h \in Titles : stored[h] # NoEntry => stored'[h] # NoEntry]_vars

\* As long as the store stays in use, a record that grows old is published
\* again, or stored again by others, before it expires: its age is 0 again,
\* unless the publish task is late.
Republished ==
    \A h \in Titles :
        [](Serving /\ dbp = "open") /\ age[h] > 0 ~> age[h] = 0 \/ ~InTime

\* "Calculate the SHA256 of the URL" (searchentry.cpp:59) is the key of an
\* entry: one entry takes the place of another only if they have the same URL.
KeyedByUrl ==
    [][process' = "up" => \A h \in Titles :
        stored[h] # NoEntry /\ stored'[h] # NoEntry => stored'[h].url = stored[h].url]_vars
=============================================================================
