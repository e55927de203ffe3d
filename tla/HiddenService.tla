--------------------------- MODULE HiddenService ---------------------------
(***************************************************************************)
(* How main() gives the node an address over Tor or I2P: it reads the key  *)
(* of the last run from a file, has the service created for that key, or   *)
(* for a new one, and writes the key to the file.  Peers know the node by  *)
(* that address, so that it should be the same in every run.  The address  *)
(* that belongs to a key is written as the key.                            *)
(***************************************************************************)
EXTENDS Transports, FiniteSets

CONSTANTS
    Keys,     \* the keys Tor and I2P generate, one after another
    NoKey,    \* nothing
    CutKey    \* what is left of a key: Tor refuses it, and libsam3 finds it too short

ASSUME KeysAssumption == NoKey \notin Keys /\ CutKey \notin Keys /\ NoKey # CutKey

VARIABLES
    kind,      \* "tor", "i2p", or "client" for the connections to other nodes
    at,        \* where main() is: "off", "calling", "keeping", "truncated" or "serving"
    file,      \* what onionkey.dat or i2pkey.dat holds
    key,       \* the key in memory
    address,   \* the address of the service, or NoKey
    used,      \* the keys generated so far
    served,    \* the addresses the peers were told
    lost       \* a key did not get from the reply into the file

serviceVars == <<kind, at, file, key, address, used, served, lost>>

Services == {"tor", "i2p"}

-----------------------------------------------------------------------------
(* The start *)

\* fgets() finds nothing in an empty file.  A key of I2P that is there needs no
\* new one; Tor gets whatever there is.
Start ==
    /\ kind \in Services /\ at = "off"
    /\ at' = "calling"
    /\ key' = file
    /\ \/ kind = "tor" /\ \E r \in {"onion", "onionCookie"} : Call(r)
       \/ kind = "i2p" /\ Call(IF file = NoKey THEN "keys" ELSE "forward")
    /\ UNCHANGED <<kind, file, address, used, served, lost>>

\* A cut key is refused: by Tor, or by sam3CreateSession() before it connects
Refused == key = CutKey /\ (kind = "i2p" \/ Now.what = "add")

\* A step of the call that is not its last
Proceed ==
    /\ at = "calling"
    /\ CallStep
    /\ ended' # "ok"
    /\ ~Refused \/ ended' = "error"
    /\ UNCHANGED serviceVars

\* Mutant of GivenOnion: the session keeps no copy
GivenOnionNotKept ==
    /\ key \in Keys
    /\ address' = key
    /\ key' = NoKey
    /\ UNCHANGED <<used, lost>>

\* ADD_ONION for the key of the file: the reply has no key, and the session has
\* kept a copy of the one it was given
GivenOnion ==
    /\ key \in Keys
    /\ address' = key
    /\ UNCHANGED <<key, used, lost>>

\* ADD_ONION for a new key.  A reply cut after the address, or within the key, is
\* good all the same.
NewOnion ==
    /\ key = NoKey
    /\ \E k \in Keys \ used :
        /\ address' = k
        /\ used' = used \cup {k}
        /\ key' \in {k, CutKey, NoKey}
    /\ lost' = (lost \/ key' # address')

\* DEST GENERATE, whose reply may have a key that is too short
NewDestination ==
    /\ route = "keys"
    /\ \E k \in Keys \ used :
        /\ used' = used \cup {k}
        /\ key' \in {k, CutKey}
    /\ UNCHANGED <<address, lost>>

\* SESSION CREATE and STREAM FORWARD.  The address is longer than hsaddr holds:
\* it overwrites what lies behind it, and the process goes on or ends.
Forwarded ==
    /\ route = "forward"
    /\ address' = key
    /\ UNCHANGED <<key, used, lost>>

\* The last step of the call.  The key of Tor, and a new one of I2P, is kept.
Established ==
    /\ at = "calling"
    /\ CallStep
    /\ ended' = "ok"
    /\ ~Refused
    /\ \/ kind = "tor" /\ (GivenOnion \/ NewOnion)
       \/ kind = "i2p" /\ (NewDestination \/ Forwarded)
    /\ at' = IF route = "forward" THEN "serving" ELSE "keeping"
    /\ served' = IF route = "forward" THEN served \cup {address'} ELSE served
    /\ UNCHANGED <<kind, file>>

-----------------------------------------------------------------------------
(* The file of the key *)

\* fopen() for writing empties it
Truncate ==
    /\ at = "keeping"
    /\ at' = "truncated"
    /\ file' = NoKey
    /\ UNCHANGED <<callVars, kind, key, address, used, served, lost>>

\* What main() does next: Tor's service is there and gets known, I2P's is created
GoOnWithKey ==
    /\ IF kind = "tor"
       THEN at' = "serving" /\ served' = served \cup {address} /\ UNCHANGED callVars
       ELSE /\ at' = "calling"
            /\ UNCHANGED <<open, served>>
            /\ route' = "forward" /\ step' = 1 /\ ended' = "no"
    /\ UNCHANGED <<kind, key, address, used>>

\* Neither fprintf() nor fclose() is checked
WriteKey ==
    /\ at = "truncated"
    /\ file' \in {key} \cup (IF key \in Keys THEN {CutKey, NoKey} ELSE {})
    /\ lost' = (lost \/ file' # key)
    /\ GoOnWithKey

\* The file cannot be opened: nothing is written, and nothing said
KeepsNothing ==
    /\ at = "keeping"
    /\ lost' = (lost \/ file # key)
    /\ UNCHANGED file
    /\ GoOnWithKey

-----------------------------------------------------------------------------
(* The end: main() is through, and has the service deleted, or it meets an
   error, which is fatal, or the process is killed *)

ProcessEnds ==
    /\ at # "off"
    /\ at' = "off"
    /\ key' = NoKey /\ address' = NoKey
    /\ lost' = (lost \/ at = "truncated")
    /\ CallOver
    /\ UNCHANGED <<kind, file, used, served>>

Connected ==
    /\ kind = "client"
    /\ (\E r \in ClientCalls : Call(r)) \/ CallStep \/ Close
    /\ UNCHANGED serviceVars

\* A reply of the SAM bridge that ends the process
Crashed == kind = "client" /\ SomeReplyCrashes /\ UNCHANGED serviceVars

ServiceInit ==
    /\ CallInit
    /\ kind \in Services \cup {"client"}
    /\ at = "off" /\ file = NoKey /\ key = NoKey /\ address = NoKey
    /\ used = {} /\ served = {} /\ lost = FALSE

ServiceNext ==
    \/ Start \/ Proceed \/ Established \/ Truncate \/ WriteKey \/ KeepsNothing
    \/ ProcessEnds \/ Connected \/ Crashed

ServiceSpec == ServiceInit /\ [][ServiceNext]_<<callVars, serviceVars>>

-----------------------------------------------------------------------------
\* Unless a key is lost on its way into the file, the node has the same address
\* in every run, and the key of that address is in the file between the runs.
\* Tor's file is written again at every start, from a copy in the session.
SameAddress ==
    ~lost =>
        /\ Cardinality(served) <= 1
        /\ at = "off" => served \subseteq {file}
=============================================================================
