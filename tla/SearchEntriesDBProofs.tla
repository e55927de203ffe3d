----------------------- MODULE SearchEntriesDBProofs -----------------------
(***************************************************************************)
(* What holds of SearchEntriesDB for every set of entries and every period *)
(* of the publish task.  StoreInv is the inductive invariant: an age is at *)
(* most the time since the last broadcast more than UnixHour - 1, because  *)
(* a broadcast leaves no age above that, and a store that is not open has  *)
(* nothing that is not in its file.                                        *)
(***************************************************************************)
EXTENDS SearchEntriesDB, TLAPS

Ages == [Titles -> Untracked .. UnixDay]
Records == [Titles -> Entries \cup {NoEntry}]

\* Outside a run of the program there is no handle and nobody waits for the mutex
Handles ==
    /\ process # "up" => dbp = "null" /\ ~locked
    /\ dbp = "null" => age = NoTimestamps
    /\ dbp = "unopened" /\ ~locked => age = NoTimestamps

AgesFollowGap == \A h \in Titles : age[h] <= (UnixHour - 1) + gap

\* What a run of the program did not open it did not write to
InFile == dbp # "open" => stored = disk

StoreInv == StoreTypeOK /\ Handles /\ TrackedIsStored /\ AgesFollowGap /\ InFile

\* TrackedIsStored of one hash
Tracked(age_h, stored_h, disk_h, fails) ==
    /\ age_h # Untracked => stored_h # NoEntry
    /\ age_h = Untracked /\ stored_h # NoEntry =>
            \/ "scan" \in fails /\ stored_h = disk_h
            \/ "del" \in fails

-----------------------------------------------------------------------------
\* A process that dies leaves the records it wrote and nothing else
LEMMA DeadIsSound ==
    ASSUME Ended(process'), process' \in {"off", "expiry", "terminated", "null", "closed", "killed"},
           stored' \in Records, disk' = stored'
    PROVE  StoreInv'
<1>1. NoTimestamps \in Ages
    BY DBAssumption DEF NoTimestamps, Ages, Untracked
<1>2. StoreTypeOK'
  <2>1. locked' \in BOOLEAN
    BY Zenon DEF Ended
  <2>2. gap' \in 0 .. MaxGap
    BY DBAssumption DEF Ended
  <2>3. /\ age' \in Ages /\ results' \subseteq Entries /\ failures' \subseteq {"scan", "del"}
        /\ dbp' \in {"null", "unopened", "open", "closed"}
    BY <1>1 DEF Ended
  <2> QED BY <2>1, <2>2, <2>3 DEF StoreTypeOK, Ages, Records
<1>3. \A h \in Titles : age'[h] = -1
    BY DEF Ended, NoTimestamps, Untracked
<1>4. AgesFollowGap'
    BY <1>3, DBAssumption DEF Ended, AgesFollowGap
<1>5. Handles' /\ TrackedIsStored' /\ InFile'
    BY DEF Ended, Handles, TrackedIsStored, Serving, InFile
<1> QED
    BY <1>2, <1>4, <1>5 DEF StoreInv

\* Of each hash, a process that dies leaves a record that was written or put
LEMMA DiesIsSound ==
    ASSUME NEW s \in Records, NEW reason \in {"expiry", "terminated", "null", "closed", "killed"},
           Dies(reason, s)
    PROVE  StoreInv' /\ process' = reason
<1>1. stored' \in Records /\ disk' = stored'
    BY DEF Dies, Records
<1>2. process' = reason /\ Ended(process')
    BY DEF Dies, Ended
<1> QED
    BY <1>1, <1>2, DeadIsSound

\* modified() leaves the records that are not a day old alone, and a record it
\* leaves without a timestamp is one that del() did not erase
LEMMA ModifiedErases ==
    ASSUME NEW a \in Ages, NEW s \in Records, failures \subseteq {"scan", "del"}, Modified(a, s)
    PROVE  \/ /\ UNCHANGED <<process, dbp, disk, locked>>
              /\ age' \in Ages /\ stored' \in Records
              /\ failures \subseteq failures' /\ failures' \subseteq {"scan", "del"}
              /\ \A h \in Titles :
                    /\ age'[h] \in {a[h], Untracked}
                    /\ a[h] < UnixDay => age'[h] = a[h] /\ stored'[h] = s[h]
                    /\ Tracked(a[h], s[h], disk[h], failures)
                        => Tracked(age'[h], stored'[h], disk[h], failures')
           \/ /\ StoreInv' /\ process' = "expiry"
              /\ \E h \in Titles : a[h] >= UnixDay
<1> DEFINE expired == {h \in Titles : a[h] >= UnixDay}
           Aged(erased) == [h \in Titles |-> IF h \in erased THEN Untracked ELSE a[h]]
           Left(deleted) == [h \in Titles |-> IF h \in deleted THEN NoEntry ELSE s[h]]
           After(erased, deleted) ==
               \/ /\ age' = Aged(erased)
                  /\ stored' = Left(deleted)
                  /\ failures' = IF deleted = erased THEN failures ELSE failures \cup {"del"}
                  /\ UNCHANGED <<process, dbp, disk, locked>>
               \/ Dies("expiry", Left(deleted))
<1>0. \A h \in Titles : a[h] \in Int /\ UnixDay \in Int
    BY DBAssumption DEF Ages, Untracked
<1>1. CASE /\ expired = {} /\ age' = a /\ stored' = s
           /\ UNCHANGED <<process, dbp, disk, locked, failures>>
    BY <1>1
<1>2. CASE \E erased \in (SUBSET expired) \ {{}} : \E deleted \in SUBSET erased : After(erased, deleted)
  <2>0. PICK erased \in (SUBSET expired) \ {{}} : \E deleted \in SUBSET erased : After(erased, deleted)
    BY <1>2
  <2>1. PICK deleted \in SUBSET erased : After(erased, deleted)
    BY <2>0
  <2>2. \A h \in erased : h \in Titles /\ ~(a[h] < UnixDay) /\ a[h] >= UnixDay
    <3>1. erased \subseteq expired
        BY <2>0
    <3>2. ASSUME NEW h \in expired
          PROVE  h \in Titles /\ ~(a[h] < UnixDay) /\ a[h] >= UnixDay
        <4>1. h \in Titles /\ a[h] >= UnixDay
            OBVIOUS
        <4>2. a[h] \in Int /\ UnixDay \in Int
            BY <4>1, <1>0
        <4> QED BY <4>1, <4>2
    <3> QED BY <3>1, <3>2
  <2>3. PICK old \in erased : TRUE
    BY <2>0
  <2>4. CASE /\ age' = Aged(erased) /\ stored' = Left(deleted)
             /\ failures' = IF deleted = erased THEN failures ELSE failures \cup {"del"}
             /\ UNCHANGED <<process, dbp, disk, locked>>
    <3>1. age' \in Ages
        BY <2>4, DBAssumption DEF Ages, Untracked
    <3>2. stored' \in Records
        BY <2>4 DEF Records
    <3>3. /\ failures \subseteq failures' /\ failures' \subseteq {"scan", "del"}
          /\ deleted # erased => "del" \in failures'
        BY <2>4
    <3>4. ASSUME NEW h \in Titles
          PROVE  /\ age'[h] \in {a[h], Untracked}
                 /\ a[h] < UnixDay => age'[h] = a[h] /\ stored'[h] = s[h]
      <4>1. deleted \subseteq erased
        BY <2>1
      <4> QED
        BY <2>2, <2>4, <4>1
    <3>5. ASSUME NEW h \in Titles, Tracked(a[h], s[h], disk[h], failures)
          PROVE  Tracked(age'[h], stored'[h], disk[h], failures')
      <4>1. deleted \subseteq erased
        BY <2>1
      <4>2. CASE h \in deleted
        BY <2>4, <4>1, <4>2 DEF Tracked
      <4>3. CASE h \in erased /\ h \notin deleted
        BY <2>4, <3>3, <4>3 DEF Tracked
      <4>4. CASE h \notin erased
        <5>1. age'[h] = a[h] /\ stored'[h] = s[h]
          BY <2>4, <4>1, <4>4
        <5> QED
          BY <3>3, <3>5, <5>1 DEF Tracked
      <4> QED
        BY <4>2, <4>3, <4>4
    <3> QED BY <2>4, <3>1, <3>2, <3>3, <3>4, <3>5
  <2>5. CASE Dies("expiry", Left(deleted))
    <3>1. Left(deleted) \in Records
        BY DEF Records
    <3>2. StoreInv' /\ process' = "expiry"
        BY <2>5, <3>1, DiesIsSound
    <3> QED BY <2>2, <2>3, <3>2
  <2> QED BY <2>1, <2>4, <2>5
<1> QED BY <1>1, <1>2 DEF Modified

\* What insertResult makes of the records and the ages before modified()
LEMMA PutCalls ==
    ASSUME StoreTypeOK, NEW ses \in SUBSET Entries, Put(ses)
    PROVE  \E a \in Ages, s \in Records :
              /\ Modified(a, s)
              /\ \A h \in Titles :
                    \/ a[h] = 0 /\ s[h] \in Entries
                    \/ a[h] = age[h] /\ s[h] = stored[h]
<1> DEFINE hashes == {Hash(se) : se \in ses}
           a == [h \in Titles |-> IF h \in hashes THEN 0 ELSE age[h]]
           s == [h \in Titles |-> IF h \in hashes
                                  THEN CHOOSE se \in ses : Hash(se) = h ELSE stored[h]]
<1>1. a \in Ages
    BY DBAssumption DEF StoreTypeOK, Ages, Untracked
<1>2. \A h \in hashes : (CHOOSE se \in ses : Hash(se) = h) \in Entries
    OBVIOUS
<1>3. s \in Records
    BY <1>2 DEF StoreTypeOK, Records
<1>4. Modified(a, s)
    BY DEF Put
<1>5. ASSUME NEW h \in Titles
      PROVE  \/ a[h] = 0 /\ s[h] \in Entries
             \/ a[h] = age[h] /\ s[h] = stored[h]
    BY <1>2
<1> HIDE DEF a, s
<1> QED BY <1>1, <1>3, <1>4, <1>5

-----------------------------------------------------------------------------
(* Every step keeps the invariant, and none erases a record in time *)

\* StoreResult and PublishToSelf, once the other variables are known
LEMMA PutKeeps ==
    ASSUME StoreInv, process = "up", dbp = "open", ~locked,
           NEW ses \in SUBSET Entries, Put(ses),
           process' = "up" => gap' = gap /\ results' \in SUBSET Entries
    PROVE  /\ StoreInv'
           /\ InTime => /\ process' = "up"
                               /\ \A h \in Titles : stored[h] # NoEntry => stored'[h] # NoEntry
<1>1. PICK a \in Ages, s \in Records :
            /\ Modified(a, s)
            /\ \A h \in Titles :
                    \/ a[h] = 0 /\ s[h] \in Entries
                    \/ a[h] = age[h] /\ s[h] = stored[h]
    BY PutCalls DEF StoreInv
<1>2. \A h \in Titles : a[h] \in Int /\ age[h] \in Int
    BY DBAssumption DEF StoreInv, StoreTypeOK, Ages, Untracked
<1>3. \A h \in Titles : Tracked(a[h], s[h], disk[h], failures)
    BY <1>1, DBAssumption DEF StoreInv, TrackedIsStored, Serving, Untracked, Tracked
<1>4. gap \in Nat /\ gap <= MaxGap
    BY DBAssumption DEF StoreInv, StoreTypeOK
<1>5. \A h \in Titles : a[h] <= (UnixHour - 1) + gap
    BY <1>1, <1>2, <1>4, DBAssumption DEF StoreInv, AgesFollowGap
<1>6. InTime => \A h \in Titles : a[h] < UnixDay
    BY <1>2, <1>4, <1>5, DBAssumption DEF InTime
<1>7. CASE StoreInv' /\ process' = "expiry" /\ \E h \in Titles : a[h] >= UnixDay
    BY <1>2, <1>6, <1>7, DBAssumption
<1>8. CASE /\ UNCHANGED <<process, dbp, disk, locked>>
           /\ age' \in Ages /\ stored' \in Records
           /\ failures \subseteq failures' /\ failures' \subseteq {"scan", "del"}
           /\ \A h \in Titles :
                    /\ age'[h] \in {a[h], Untracked}
                    /\ a[h] < UnixDay => age'[h] = a[h] /\ stored'[h] = s[h]
                    /\ Tracked(a[h], s[h], disk[h], failures)
                        => Tracked(age'[h], stored'[h], disk[h], failures')
  <2>1. StoreTypeOK'
    BY <1>8 DEF StoreInv, StoreTypeOK, Ages, Records
  <2>2. AgesFollowGap'
    BY <1>2, <1>4, <1>5, <1>8, DBAssumption DEF AgesFollowGap, Untracked
  <2>3. TrackedIsStored'
    BY <1>3, <1>8 DEF TrackedIsStored, Tracked
  <2>4. Handles' /\ InFile'
    BY <1>8 DEF Handles, InFile
  <2>5. InTime => \A h \in Titles : stored[h] # NoEntry => stored'[h] # NoEntry
    BY <1>1, <1>6, <1>8, DBAssumption
  <2> QED BY <1>8, <2>1, <2>2, <2>3, <2>4, <2>5 DEF StoreInv
<1>9. failures \subseteq {"scan", "del"}
    BY DEF StoreInv, StoreTypeOK
<1> QED BY <1>1, <1>7, <1>8, <1>9, ModifiedErases

\* What NothingExpires says of a step
Kept ==
    /\ process' # "expiry"
    /\ process' = "up" =>
        \A h \in Titles : stored[h] # NoEntry => stored'[h] # NoEntry

\* The publish task takes its list: every age is below UnixHour after it
LEMMA BroadcastKeeps ==
    ASSUME StoreInv, GetEntriesForBroadcast
    PROVE  StoreInv' /\ (InTime => Kept)
<1> DEFINE due == {h \in Titles : age[h] >= UnixHour}
           a == [h \in Titles |-> IF h \in due THEN 0 ELSE age[h]]
<1>1. /\ process = "up" /\ ~locked
      /\ Modified(a, stored)
      /\ process' = "up" => results' \in Found(due) /\ gap' = 0
    BY DEF GetEntriesForBroadcast, Refreshed, Serving
<1>2. \A h \in Titles : age[h] \in Untracked .. UnixDay
    BY DEF StoreInv, StoreTypeOK
<1>3. ASSUME NEW h \in Titles
      PROVE  /\ a[h] \in Untracked .. UnixDay /\ a[h] < UnixHour
             /\ a[h] < UnixDay /\ ~(a[h] >= UnixDay)
             /\ a[h] = Untracked <=> age[h] = Untracked
  <2>1. age[h] \in Untracked .. UnixDay /\ a[h] = IF age[h] >= UnixHour THEN 0 ELSE age[h]
    BY <1>2
  <2> HIDE DEF a
  <2> QED BY <2>1, DBAssumption DEF Untracked
<1>4. a \in Ages /\ stored \in Records
    BY <1>3 DEF StoreInv, StoreTypeOK, Ages, Records
<1>7. Found(due) \subseteq SUBSET Entries
  <2>1. ASSUME NEW g \in [due -> Entries \cup {NoEntry}],
               \A h \in due : g[h] \in ({stored[h], EmptyEntry} \ {NoEntry})
        PROVE  {g[h] : h \in due} \in SUBSET Entries
    BY <2>1
  <2> QED BY <2>1 DEF Found
<1> HIDE DEF due, a
<1>8. /\ UNCHANGED <<process, dbp, disk, locked>>
      /\ age' \in Ages /\ stored' \in Records
      /\ failures \subseteq failures' /\ failures' \subseteq {"scan", "del"}
      /\ \A h \in Titles : age'[h] = a[h] /\ stored'[h] = stored[h]
  <2>1. failures \subseteq {"scan", "del"}
    BY DEF StoreInv, StoreTypeOK
  <2> QED
    BY <1>1, <1>4, <1>3, <2>1, ModifiedErases
<1>9. results' \subseteq Entries /\ gap' = 0
    BY <1>1, <1>7, <1>8
<1>10. StoreTypeOK'
    BY <1>8, <1>9, DBAssumption DEF StoreInv, StoreTypeOK, Ages, Records
<1>11. AgesFollowGap'
    BY <1>3, <1>8, <1>9, DBAssumption DEF AgesFollowGap, Untracked
<1>12. TrackedIsStored' /\ InFile'
  <2>1. stored' = stored
    BY <1>4, <1>8 DEF Records
  <2> QED
    BY <1>3, <1>8, <2>1 DEF StoreInv, TrackedIsStored, Serving, InFile
<1>13. Handles'
  <2>1. CASE age = NoTimestamps
    <3>1. \A h \in Titles : age'[h] = Untracked
        BY <2>1, <1>3, <1>8 DEF NoTimestamps
    <3>2. age' = NoTimestamps
        BY <3>1, <1>8 DEF NoTimestamps, Ages
    <3> QED BY <3>2, <1>1, <1>8 DEF Handles
  <2>2. CASE age # NoTimestamps
    BY <2>2, <1>1, <1>8 DEF StoreInv, Handles
  <2> QED BY <2>1, <2>2
<1> QED BY <1>1, <1>8, <1>10, <1>11, <1>12, <1>13 DEF StoreInv, Kept

\* An hour passes: the ages and the gap grow alike
LEMMA TickKeeps ==
    ASSUME StoreInv, Tick
    PROVE  StoreInv' /\ Kept
<1>1. \A h \in Titles : age[h] \in Untracked .. UnixDay
    BY DEF StoreInv, StoreTypeOK
<1>2. /\ age' = [h \in Titles |-> IF age[h] \in 0 .. (UnixDay - 1) THEN age[h] + 1 ELSE age[h]]
      /\ gap' = gap + 1 /\ gap < MaxGap /\ process = "up"
      /\ UNCHANGED <<process, dbp, stored, disk, results, locked, failures>>
    BY DEF Tick
<1>3. \A h \in Titles :
        /\ age'[h] \in Untracked .. UnixDay
        /\ age'[h] <= age[h] + 1
        /\ age'[h] = Untracked <=> age[h] = Untracked
    BY <1>1, <1>2, DBAssumption DEF Untracked
<1>4. gap \in 0 .. MaxGap /\ gap' \in 0 .. MaxGap
    BY <1>2, DBAssumption DEF StoreInv, StoreTypeOK
<1>5. StoreTypeOK'
    BY <1>2, <1>3, <1>4 DEF StoreInv, StoreTypeOK
<1>6. AgesFollowGap'
    BY <1>1, <1>2, <1>3, <1>4, DBAssumption DEF StoreInv, AgesFollowGap, Untracked
<1>7. TrackedIsStored' /\ InFile'
    BY <1>2, <1>3 DEF StoreInv, TrackedIsStored, Serving, InFile
<1>8. Handles'
  <2>1. age = NoTimestamps => age' = NoTimestamps
    <3>1. HAVE age = NoTimestamps
    <3>2. \A h \in Titles : age'[h] = Untracked
        BY <3>1, <1>3 DEF NoTimestamps
    <3> QED BY <3>2, <1>2 DEF NoTimestamps
  <2> QED BY <2>1, <1>2 DEF StoreInv, Handles
<1> QED BY <1>2, <1>5, <1>6, <1>7, <1>8 DEF StoreInv, Kept

\* open() takes a fresh timestamp of every record its scan lists, or fails
LEMMA StartKeeps ==
    ASSUME StoreInv, Open \/ OpenFails
    PROVE  StoreInv' /\ Kept
<1>1. process # "up" /\ process' = "up" /\ UNCHANGED <<stored, disk, results, locked, gap>>
    BY DEF Open, OpenFails
<1>2. dbp = "null" /\ ~locked /\ age = NoTimestamps /\ stored = disk
    BY <1>1 DEF StoreInv, Handles, InFile
<1>3. CASE Open
  <2>1. PICK listed \in SUBSET Recorded :
            /\ age' = [h \in Titles |-> IF h \in listed THEN 0 ELSE Untracked]
            /\ failures' = IF listed = Recorded THEN failures ELSE {"scan"}
    BY <1>3 DEF Open
  <2>2. dbp' = "open" /\ failures' \subseteq {"scan", "del"}
    BY <1>3, <2>1 DEF Open, StoreInv, StoreTypeOK
  <2>3. \A h \in Titles : /\ age'[h] \in Untracked .. UnixDay
                          /\ age'[h] <= 0
                          /\ age'[h] # Untracked => stored[h] # NoEntry
                          /\ age'[h] = Untracked /\ stored[h] # NoEntry => "scan" \in failures'
    BY <2>1, DBAssumption DEF Untracked, Recorded
  <2>4. StoreTypeOK'
    BY <1>1, <2>1, <2>2, <2>3 DEF StoreInv, StoreTypeOK
  <2>5. AgesFollowGap'
    BY <1>1, <2>3, DBAssumption DEF StoreInv, StoreTypeOK, AgesFollowGap, Untracked
  <2>6. TrackedIsStored'
    BY <1>1, <1>2, <2>3 DEF TrackedIsStored
  <2>7. Handles' /\ InFile'
    BY <1>1, <2>2 DEF Handles, InFile
  <2> QED BY <1>1, <2>4, <2>5, <2>6, <2>7 DEF StoreInv, Kept
<1>4. CASE OpenFails
  <2>1. dbp' \in {"null", "unopened"} /\ UNCHANGED <<age, failures>>
    BY <1>4 DEF OpenFails
  <2>2. StoreTypeOK'
    BY <1>1, <2>1 DEF StoreInv, StoreTypeOK
  <2>3. AgesFollowGap' /\ TrackedIsStored' /\ Handles' /\ InFile'
    BY <1>1, <1>2, <2>1 DEF StoreInv, AgesFollowGap, TrackedIsStored, Handles, InFile
  <2> QED BY <1>1, <2>2, <2>3 DEF StoreInv, Kept
<1> QED BY <1>3, <1>4

\* insertResult throws: whatever it left is behind the mutex
LEMMA ThrowKeeps ==
    ASSUME StoreInv, NEW se \in Entries, StoreResultThrows(se)
    PROVE  StoreInv' /\ Kept
<1>1. /\ process = "up" /\ locked' = TRUE /\ dbp \in {"open", "unopened"}
      /\ UNCHANGED <<process, dbp, stored, disk, results, gap, failures>>
      /\ age' = age \/ age' = [age EXCEPT ![Hash(se)] = 0]
    BY DEF StoreResultThrows, Serving
<1>2. \A h \in Titles : age'[h] \in {age[h], 0}
    BY <1>1 DEF StoreInv, StoreTypeOK
<1>3. age' \in Ages
    BY <1>1, DBAssumption DEF StoreInv, StoreTypeOK, Ages, Untracked
<1>4. locked' \in BOOLEAN
    BY <1>1, Zenon
<1>5. StoreTypeOK'
    BY <1>1, <1>3, <1>4 DEF StoreInv, StoreTypeOK, Ages
<1>6. AgesFollowGap'
    BY <1>1, <1>2, DBAssumption DEF StoreInv, StoreTypeOK, AgesFollowGap, Untracked
<1>7. Handles' /\ TrackedIsStored' /\ InFile'
    BY <1>1 DEF StoreInv, Handles, TrackedIsStored, Serving, InFile
<1> QED BY <1>1, <1>5, <1>6, <1>7 DEF StoreInv, Kept

LEMMA StepKeeps ==
    ASSUME StoreInv, [Next]_vars
    PROVE  StoreInv' /\ (InTime => Kept \/ UNCHANGED vars)
<1>1. stored \in Records /\ disk \in Records
    BY DEF StoreInv, StoreTypeOK, Records
<1>2. CASE Open \/ OpenFails
    BY <1>2, StartKeeps
<1>3. ASSUME NEW se \in Entries, StoreResult(se) PROVE StoreInv' /\ (InTime => Kept)
  <2>1. /\ process = "up" /\ ~locked /\ dbp = "open" /\ Put({se})
        /\ process' = "up" => UNCHANGED <<results, gap>>
    BY <1>3 DEF StoreResult, Serving
  <2>2. process' = "up" => gap' = gap /\ results' \in SUBSET Entries
    BY <2>1 DEF StoreInv, StoreTypeOK
  <2>3. {se} \in SUBSET Entries
    OBVIOUS
  <2> QED BY <2>1, <2>2, <2>3, PutKeeps DEF Kept
<1>4. ASSUME NEW se \in Entries, StoreResultThrows(se) PROVE StoreInv' /\ Kept
    BY <1>4, ThrowKeeps
<1>5. CASE GetEntriesForBroadcast
    BY <1>5, BroadcastKeeps
<1>6. CASE PublishToSelf
  <2>1. PICK ses \in (SUBSET results) \ {{}} : Put(ses)
    BY <1>6 DEF PublishToSelf
  <2>2. /\ process = "up" /\ ~locked /\ dbp = "open"
        /\ process' = "up" => results' = {} /\ UNCHANGED gap
    BY <1>6 DEF PublishToSelf, Serving
  <2>3. ses \in SUBSET Entries
    BY <2>1 DEF StoreInv, StoreTypeOK
  <2> QED BY <2>1, <2>2, <2>3, PutKeeps DEF Kept
<1>7. CASE PublishToSelfThrows
  <2>1. Dies("terminated", stored)
    BY <1>7 DEF PublishToSelfThrows
  <2> QED BY <2>1, <1>1, DiesIsSound DEF Kept
<1>8. CASE PublishToOthers
  <2>1. results' = {} /\ UNCHANGED <<process, dbp, age, stored, disk, locked, gap, failures>> /\ process = "up"
    BY <1>8 DEF PublishToOthers, Serving
  <2> QED BY <2>1 DEF StoreInv, StoreTypeOK, Handles, TrackedIsStored, Serving, AgesFollowGap, InFile, Kept
<1>9. CASE Close
  <2>1. /\ disk' = stored /\ dbp' \in {"null", "closed"} /\ (dbp' = "null" => dbp = "null")
        /\ UNCHANGED <<process, age, stored, results, locked, gap, failures>> /\ process = "up"
    BY <1>9 DEF Close, Serving
  <2> QED BY <2>1 DEF StoreInv, StoreTypeOK, Handles, TrackedIsStored, AgesFollowGap, InFile, Kept
<1>10. CASE UseBadHandle
  <2>1. dbp \in {"null", "closed"} /\ Dies(dbp, disk)
    BY <1>10 DEF UseBadHandle
  <2> QED BY <2>1, <1>1, DiesIsSound DEF Kept
<1>11. CASE Exit
  <2>1. Ended("off") /\ UNCHANGED <<stored, disk>>
    BY <1>11 DEF Exit
  <2>2. process' = "off" /\ Ended(process')
    BY <2>1 DEF Ended
  <2>3. dbp # "open"
    BY <1>11 DEF Exit
  <2>4. stored' \in Records /\ disk' = stored'
    BY <1>1, <2>1, <2>3 DEF StoreInv, InFile
  <2> QED BY <2>1, <2>2, <2>4, DeadIsSound DEF Kept
<1>12. CASE Crash
  <2>1. Dies("killed", stored)
    BY <1>12 DEF Crash
  <2> QED BY <2>1, <1>1, DiesIsSound DEF Kept
<1>13. CASE Tick
    BY <1>13, TickKeeps
<1>14. CASE UNCHANGED vars
    BY <1>14 DEF vars, StoreInv, StoreTypeOK, Handles, TrackedIsStored, Serving, AgesFollowGap, InFile
<1> QED
    BY <1>2, <1>3, <1>4, <1>5, <1>6, <1>7, <1>8, <1>9, <1>10, <1>11, <1>12, <1>13, <1>14 DEF Next

LEMMA InitIsSound == Init => StoreInv
<1> SUFFICES ASSUME Init PROVE StoreInv
    OBVIOUS
<1>1. NoTimestamps \in Ages
    BY DBAssumption DEF NoTimestamps, Ages, Untracked
<1>2. stored \in Records /\ disk \in Records
    BY DEF Init, Records
<1>3. locked \in BOOLEAN
    BY Zenon DEF Init
<1>4. gap \in 0 .. MaxGap
    BY DBAssumption DEF Init
<1>5. StoreTypeOK
    BY <1>1, <1>2, <1>3, <1>4 DEF Init, StoreTypeOK, Ages, Records
<1>6. \A h \in Titles : age[h] = -1
    BY DEF Init, NoTimestamps, Untracked
<1>7. AgesFollowGap
  <2>1. gap = 0
    BY DEF Init
  <2>2. -1 <= (UnixHour - 1) + 0
    BY DBAssumption
  <2> QED BY <1>6, <2>1, <2>2 DEF AgesFollowGap
<1>8. Handles /\ TrackedIsStored /\ InFile
    BY DEF Init, Handles, TrackedIsStored, Serving, InFile
<1> QED BY <1>5, <1>7, <1>8 DEF StoreInv

-----------------------------------------------------------------------------
\* The inductive invariant holds in every reachable state of the store
THEOREM StoreInvariance == Spec => []StoreInv
<1>1. StoreInv /\ [Next]_vars => StoreInv'
    BY StepKeeps
<1> QED BY InitIsSound, <1>1, PTL DEF Spec

\* The variables of the store keep their types
THEOREM StoreTypeCorrectness == Spec => []StoreTypeOK
<1>1. StoreInv => StoreTypeOK
    BY DEF StoreInv
<1> QED BY StoreInvariance, <1>1, PTL

\* Whoever can use the store finds a record for every timestamp, and a timestamp for
\* every record that was stored in this run or listed when it began, whatever put,
\* get and the restarts do, unless del() failed (SearchEntriesDB::open, insertResult
\* and modified)
THEOREM TrackingCorrectness == Spec => []TrackedIsStored
<1>1. StoreInv => TrackedIsStored
    BY DEF StoreInv
<1> QED BY StoreInvariance, <1>1, PTL

\* Unless the publish task has not run for longer than UnixDay - UnixHour, no
\* record is erased while the process runs: the expiry of modified() does not
\* take place
THEOREM NothingExpiresInTime == Spec => NothingExpires
<1>1. StoreInv /\ [Next]_vars => [InTime => Kept]_vars
    BY StepKeeps
<1>2. [InTime => Kept]_vars =>
        [InTime =>
            /\ process' # "expiry"
            /\ process' = "up" =>
                \A h \in Titles : stored[h] # NoEntry => stored'[h] # NoEntry]_vars
    BY DEF Kept
<1> QED BY StoreInvariance, <1>1, <1>2, PTL DEF Spec, NothingExpires
=============================================================================
