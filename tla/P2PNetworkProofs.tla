-------------------------- MODULE P2PNetworkProofs --------------------------
(***************************************************************************)
(* What holds of the peer-to-peer server and its clients for any number of *)
(* clients, slots and faults.  NetworkInv is the inductive invariant.  The *)
(* count of the clients follows the elements in use since only the server  *)
(* changes either; it stays within the limit since the server tests it     *)
(* before it goes on to accept(), and nobody else takes from the backlog.  *)
(* SeatInv, inductive with it, says where each connection is, and what     *)
(* the report of poll() is worth when the loop comes to an element.        *)
(***************************************************************************)
EXTENDS P2PNetwork, FiniteSetTheorems, WellFoundedInduction, TLAPS

Descriptors == Clients \cup {Free, Failed, Garbage}

Used(fds) == {s \in Elements : fds[s] # Free}

\* When the server goes on to accept(), a connection waits and there is a slot
AcceptReady == pc = "accept" => backlog # << >> /\ clients_count < MaxClients

ServerInv == ServerTypeOK /\ CountsSlots /\ AcceptReady

\* A client that is connected or will be has a call to make
Calling ==
    \A c \in Clients : cpc[c] \in {"new", "header", "args", "waiting"} => script[c] # << >>

NetworkInv == NetworkTypeOK /\ CountsSlots /\ AcceptReady /\ Calling

-----------------------------------------------------------------------------
(* The elements in use *)

LEMMA UsedIsFinite ==
    ASSUME NEW fds
    PROVE  IsFiniteSet(Used(fds)) /\ Cardinality(Used(fds)) \in Nat
<1>1. IsFiniteSet(Elements)
    BY ServerAssumption, FS_Interval DEF Elements, Past
<1>2. Used(fds) \subseteq Elements
    BY DEF Used
<1> QED
    BY <1>1, <1>2, FS_Subset, FS_CardinalityType

\* At most one element is the first that is free
LEMMA FirstFreeIsOne ==
    ASSUME NEW s \in FirstFree
    PROVE  FirstFree = {s} /\ s \in Elements /\ wait_fds[s] = Free
<1>1. s \in Elements /\ wait_fds[s] = Free
    BY DEF FirstFree
<1>2. ASSUME NEW r \in FirstFree, r # s
      PROVE  FALSE
  <2>1. r \in Nat /\ s \in Nat /\ r >= 1 /\ s >= 1
      BY ServerAssumption DEF FirstFree, Elements, Past
  <2>2. r \in 1 .. (s - 1) \/ s \in 1 .. (r - 1)
      BY <1>2, <2>1
  <2> QED
      BY <1>1, <1>2, <2>2 DEF FirstFree
<1> QED
    BY <1>1, <1>2

\* To store a descriptor where none was adds one element and counts it
LEMMA TakeCounts ==
    ASSUME ServerTypeOK, CountsSlots, clients_count < MaxClients,
           NEW fd \in Descriptors, fd # Free, Take(fd)
    PROVE  /\ wait_fds' \in [Elements -> Descriptors]
           /\ events' \subseteq Elements
           /\ clients_count' \in -1 .. MaxClients
           /\ CountsSlots'
<1>1. wait_fds' \in [Elements -> Descriptors]
    BY DEF ServerTypeOK, Take, Descriptors
<1>2. events' \subseteq Elements
    BY DEF ServerTypeOK, Take, FirstFree
<1>3. CASE FirstFree = {}
  <2>1. Cardinality(FirstFree) = 0
      BY <1>3, FS_EmptySet
  <2>2. clients_count' = clients_count
      BY <2>1 DEF Take, ServerTypeOK
  <2>3. wait_fds' = wait_fds
      BY <1>3 DEF Take, ServerTypeOK
  <2> QED
      BY <1>1, <1>2, <2>2, <2>3 DEF CountsSlots, ServerTypeOK
<1>4. CASE FirstFree # {}
  <2>1. PICK s \in FirstFree : TRUE
      BY <1>4
  <2>2. FirstFree = {s} /\ s \in Elements /\ wait_fds[s] = Free
      BY <2>1, FirstFreeIsOne
  <2>3. Cardinality(FirstFree) = 1
      BY <2>2, FS_Singleton
  <2>4. clients_count' = clients_count + 1
      BY <2>3 DEF Take
  <2>5. Used(wait_fds') = Used(wait_fds) \cup {s}
      BY <2>2 DEF Take, Used
  <2>6. Cardinality(Used(wait_fds')) = Cardinality(Used(wait_fds)) + 1
    <3>1. s \notin Used(wait_fds)
        BY <2>2 DEF Used
    <3> QED
        BY <2>5, <3>1, UsedIsFinite, FS_AddElement
  <2>7. CountsSlots'
    <3>1. clients_count \in {Cardinality(Used(wait_fds)) - 1, Cardinality(Used(wait_fds))}
        BY DEF CountsSlots, Used
    <3>2. clients_count' \in {Cardinality(Used(wait_fds')) - 1, Cardinality(Used(wait_fds'))}
        BY <2>4, <2>6, <3>1, UsedIsFinite
    <3> QED
        BY <3>2 DEF CountsSlots, Used
  <2>8. clients_count' \in -1 .. MaxClients
      BY <2>4, ServerAssumption DEF ServerTypeOK
  <2> QED
      BY <1>1, <1>2, <2>7, <2>8
<1> QED
    BY <1>3, <1>4

\* To free an element in use removes it and counts it
LEMMA FreeCounts ==
    ASSUME ServerTypeOK, CountsSlots,
           NEW s \in Elements, wait_fds[s] # Free, FreeSlot(s)
    PROVE  /\ wait_fds' \in [Elements -> Descriptors]
           /\ revents' \in [Elements -> {"none", "in", "hup"}]
           /\ clients_count' \in -1 .. MaxClients
           /\ clients_count' < MaxClients
           /\ CountsSlots'
<1>1. wait_fds' \in [Elements -> Descriptors] /\ revents' \in [Elements -> {"none", "in", "hup"}]
    BY DEF ServerTypeOK, FreeSlot, Descriptors
<1>2. Used(wait_fds') = Used(wait_fds) \ {s}
    BY DEF ServerTypeOK, FreeSlot, Used
<1>3. Cardinality(Used(wait_fds')) = Cardinality(Used(wait_fds)) - 1
  <2>1. s \in Used(wait_fds)
      BY DEF Used
  <2> QED
      BY <1>2, <2>1, UsedIsFinite, FS_RemoveElement
<1>4. clients_count' = clients_count - 1
    BY DEF FreeSlot
<1>5. CountsSlots'
    BY <1>3, <1>4, UsedIsFinite DEF CountsSlots, Used, ServerTypeOK
<1>6. clients_count' \in -1 .. MaxClients /\ clients_count' < MaxClients
  <2>1. Cardinality(Used(wait_fds')) \in Nat
      BY UsedIsFinite
  <2>2. clients_count' >= -1
      BY <1>5, <2>1 DEF CountsSlots, Used
  <2> QED
      BY <1>4, <2>2, ServerAssumption DEF ServerTypeOK
<1> QED
    BY <1>1, <1>5, <1>6

-----------------------------------------------------------------------------
(* The steps of the server *)

LEMMA ScanKeepsInv ==
    ASSUME ServerInv,
           NEW s \in Elements, Turn(s),
           FreeSlot(s), at' = s + 1, pc' = pc, pc = "scan",
           UNCHANGED <<running, events, stdin, backlog>>,
           locked' \in BOOLEAN,
           request' \in [Clients -> Functions \cup {"none", "header"}],
           reply' \in [Clients -> {"none", "whole", "cut", "error"}],
           gone' \in [Clients -> {"no", "fin", "reset"}],
           serverEnd' \in [Clients -> {"open", "closed"}]
    PROVE  ServerInv'
<1>1. wait_fds[s] # Free
    BY ServerAssumption DEF Turn, Due
<1>2. /\ wait_fds' \in [Elements -> Descriptors]
      /\ revents' \in [Elements -> {"none", "in", "hup"}]
      /\ clients_count' \in -1 .. MaxClients
      /\ CountsSlots'
    BY <1>1, FreeCounts DEF ServerInv
<1>3. at' \in 1 .. Past + 1
    BY ServerAssumption DEF Elements, Past
<1> QED
    BY <1>2, <1>3 DEF ServerInv, ServerTypeOK, AcceptReady, Descriptors

LEMMA ServerStepsKeepInv ==
    ASSUME ServerInv, Serve \/ ServeFailing \/ Shutdown \/ \E s \in Elements : Interrupt(s)
    PROVE  ServerInv'
<1> USE DEF ServerInv
<1>1. CASE Poll
  <2>1. \A s \in Elements : ReportOf(s) \in {"none", "in", "hup"}
      BY DEF ReportOf
  <2>2. revents' \in [Elements -> {"none", "in", "hup"}]
      BY <1>1, <2>1 DEF Poll, ServerTypeOK
  <2>3. pc' \in {"poll", "accept", "scan"}
      BY <1>1 DEF Poll
  <2>4. AcceptReady'
      BY <1>1, ServerAssumption DEF Poll, AcceptReady, ServerTypeOK, socketVars
  <2> QED
      BY <1>1, <2>2, <2>3, <2>4 DEF Poll, ServerTypeOK, CountsSlots, socketVars
<1>2. CASE Accept
  <2>1. backlog # << >> /\ clients_count < MaxClients
      BY <1>2 DEF Accept, AcceptReady
  <2>2. Head(backlog) \in Clients /\ Tail(backlog) \in Seq(Clients)
      BY <2>1 DEF ServerTypeOK
  <2>3. Head(backlog) \in Descriptors /\ Head(backlog) # Free
      BY <2>2, ServerAssumption DEF Descriptors
  <2>4. /\ wait_fds' \in [Elements -> Descriptors]
        /\ events' \subseteq Elements
        /\ clients_count' \in -1 .. MaxClients
        /\ CountsSlots'
      BY <1>2, <2>1, <2>3, TakeCounts DEF Accept
  <2> QED
      BY <1>2, <2>2, <2>4 DEF Accept, ServerTypeOK, AcceptReady, Descriptors
<1>3. CASE AcceptFails
  <2>1. backlog # << >> /\ clients_count < MaxClients
      BY <1>3 DEF AcceptFails, AcceptReady
  <2>2. Failed \in Descriptors /\ Failed # Free
      BY ServerAssumption DEF Descriptors
  <2>3. /\ wait_fds' \in [Elements -> Descriptors]
        /\ events' \subseteq Elements
        /\ clients_count' \in -1 .. MaxClients
        /\ CountsSlots'
      BY <1>3, <2>1, <2>2, TakeCounts DEF AcceptFails
  <2>4. /\ backlog' \in Seq(Clients)
        /\ request' \in [Clients -> Functions \cup {"none", "header"}]
        /\ serverEnd' \in [Clients -> {"open", "closed"}]
      BY <1>3, <2>1 DEF AcceptFails, ServerTypeOK
  <2> QED
      BY <1>3, <2>3, <2>4 DEF AcceptFails, ServerTypeOK, AcceptReady, Descriptors
<1>4. CASE EndScan
  <2>1. 1 \in 1 .. Past + 1
      BY ServerAssumption DEF Past
  <2> QED
      BY <1>4, <2>1 DEF EndScan, ServerTypeOK, CountsSlots, AcceptReady, socketVars
<1>5. CASE Stop
    BY <1>5 DEF Stop, ServerTypeOK, CountsSlots, AcceptReady, socketVars
<1>6. CASE Shutdown
    BY <1>6 DEF Shutdown, ServerTypeOK, CountsSlots, AcceptReady, socketVars
<1>7. ASSUME NEW s \in Elements, CloseUnread(s)
      PROVE  ServerInv'
    BY <1>7, ScanKeepsInv DEF CloseUnread, ServerTypeOK
<1>8. ASSUME NEW s \in Elements, NEW f, ReadBroken(s) \/ Block(s, f)
      PROVE  ServerInv'
  <2>1. pc' \in {"dead", "blocked"} /\ UNCHANGED <<running, wait_fds, events, revents, at>>
      BY <1>8 DEF ReadBroken, Block
  <2>2. UNCHANGED <<clients_count, locked, stdin, backlog, request, reply, gone, serverEnd>>
      BY <1>8 DEF ReadBroken, Block, socketVars
  <2>3. ServerTypeOK' /\ AcceptReady'
      BY <2>1, <2>2 DEF ServerTypeOK, AcceptReady
  <2> QED
      BY <2>1, <2>2, <2>3 DEF CountsSlots
<1>9. ASSUME NEW s \in Elements, NEW f, Answer(s, f) \/ AnswerCut(s, f)
      PROVE  ServerInv'
  <2>1. at' \in 1 .. Past + 1
      BY <1>9, ServerAssumption DEF Answer, AnswerCut, Handles, Elements, Past
  <2>2. pc' \in {"scan", "dead"}
      BY <1>9 DEF Answer, AnswerCut, Handles, Readable, Reading, ServerTypeOK
  <2>3. /\ request' \in [Clients -> Functions \cup {"none", "header"}]
        /\ reply' \in [Clients -> {"none", "whole", "cut", "error"}]
        /\ gone' \in [Clients -> {"no", "fin", "reset"}]
      BY <1>9 DEF Answer, AnswerCut, Handles, ServerTypeOK
  <2>4. UNCHANGED <<running, wait_fds, events, revents, clients_count, locked, stdin, backlog, serverEnd>>
      BY <1>9 DEF Answer, AnswerCut, Handles
  <2>5. ServerTypeOK' /\ AcceptReady'
      BY <2>1, <2>2, <2>3, <2>4 DEF ServerTypeOK, AcceptReady
  <2> QED
      BY <2>4, <2>5 DEF CountsSlots
<1>10. ASSUME NEW s \in Elements, StoreResult(s)
       PROVE  ServerInv'
  <2>1. at' \in 1 .. Past + 1
      BY <1>10, ServerAssumption DEF StoreResult, Elements, Past
  <2> QED
      BY <1>10, <2>1 DEF StoreResult, ServerTypeOK, CountsSlots, AcceptReady
<1>11. ASSUME NEW s \in Elements, StoreResultFails(s)
       PROVE  ServerInv'
    BY <1>11, ScanKeepsInv DEF StoreResultFails, Readable, Reading, ServerTypeOK
<1>12. ASSUME NEW s \in Elements, Interrupt(s)
       PROVE  ServerInv'
  <2>1. Turn(s) /\ pc = "scan"
      BY <1>12 DEF Interrupt, Waiting, Reading
  <2>2. CASE request[wait_fds[s]] = "none"
    <3>1. /\ reply' \in [Clients -> {"none", "whole", "cut", "error"}]
          /\ serverEnd' \in [Clients -> {"open", "closed"}]
          /\ FreeSlot(s) /\ at' = s + 1 /\ pc' = pc /\ running' \in BOOLEAN
          /\ UNCHANGED <<events, locked, stdin, backlog, request, gone>>
        BY <1>12, <2>2 DEF Interrupt, ServerTypeOK
    <3>2. wait_fds[s] # Free
        BY <2>1, ServerAssumption DEF Turn, Due
    <3>3. /\ wait_fds' \in [Elements -> Descriptors]
          /\ revents' \in [Elements -> {"none", "in", "hup"}]
          /\ clients_count' \in -1 .. MaxClients
          /\ CountsSlots'
        BY <3>1, <3>2, FreeCounts
    <3>4. at' \in 1 .. Past + 1
        BY <3>1, ServerAssumption DEF Elements, Past
    <3> QED
        BY <2>1, <3>1, <3>3, <3>4 DEF ServerTypeOK, AcceptReady, Descriptors
  <2>3. CASE request[wait_fds[s]] # "none"
    <3>1. pc' = "dead" /\ running' = FALSE /\ UNCHANGED <<wait_fds, revents, at, clients_count, reply, serverEnd>>
        BY <1>12, <2>3 DEF Interrupt
    <3>2. UNCHANGED <<events, locked, stdin, backlog, request, gone>>
        BY <1>12 DEF Interrupt
    <3> QED
        BY <3>1, <3>2 DEF ServerTypeOK, CountsSlots, AcceptReady
  <2> QED
      BY <2>2, <2>3
<1> QED
    BY <1>1, <1>2, <1>3, <1>4, <1>5, <1>6, <1>7, <1>8, <1>9, <1>10, <1>11, <1>12
    DEF Serve, ServeFailing

\* The server only takes from the backlog
LEMMA BacklogShrinks ==
    ASSUME ServerInv, NetworkTypeOK,
           Serve \/ ServeFailing \/ Shutdown \/ \E s \in Elements : Interrupt(s)
    PROVE  Len(backlog') <= Backlog
<1>1. backlog \in Seq(Clients) /\ Len(backlog) <= Backlog
    BY DEF NetworkTypeOK, ServerTypeOK
<1>2. ASSUME Accept \/ AcceptFails
      PROVE  Len(backlog') <= Backlog
  <2>1. backlog # << >> /\ backlog' \in {backlog, Tail(backlog)}
      BY <1>2 DEF Accept, AcceptFails, AcceptReady, ServerInv
  <2>2. Len(Tail(backlog)) = Len(backlog) - 1 /\ Len(backlog) \in Nat
      BY <1>1, <2>1
  <2> QED
      BY <1>1, <2>1, <2>2, NetworkAssumption
<1>3. ASSUME ~ (Accept \/ AcceptFails)
      PROVE  backlog' = backlog
  <2>1. Poll \/ EndScan \/ Stop \/ Shutdown => backlog' = backlog
      BY DEF Poll, EndScan, Stop, Shutdown, socketVars
  <2>2. \A s \in Elements : CloseUnread(s) \/ StoreResult(s) \/ StoreResultFails(s) \/ Interrupt(s)
            => backlog' = backlog
      BY DEF CloseUnread, StoreResult, StoreResultFails, Interrupt
  <2>3. \A s \in Elements, f \in Functions :
            ReadBroken(s) \/ Answer(s, f) \/ AnswerCut(s, f) \/ Block(s, f) => backlog' = backlog
      BY DEF ReadBroken, Answer, AnswerCut, Handles, Block, socketVars
  <2> QED
      BY <1>3, <2>1, <2>2, <2>3 DEF Serve, ServeFailing, ReadBroken, socketVars
<1> QED
    BY <1>1, <1>2, <1>3

-----------------------------------------------------------------------------
(* The steps of the clients, which leave the server alone *)

\* What a client may change of the sockets
SocketTypes ==
    /\ backlog' \in Seq(Clients) /\ Len(backlog') <= Backlog
    /\ backlog # << >> => backlog' # << >>
    /\ request' \in [Clients -> Functions \cup {"none", "header"}]
    /\ reply' \in [Clients -> {"none", "whole", "cut", "error"}]
    /\ gone' \in [Clients -> {"no", "fin", "reset"}]
    /\ serverEnd' \in [Clients -> {"open", "closed"}]

ClientTypes ==
    /\ cpc' \in [Clients -> ClientPlaces]
    /\ script' \in [Clients -> Seq(Functions)]
    /\ misread' \subseteq Clients
    /\ faults' \in 0 .. MaxFaults
    /\ Calling'

\* The end of a call leaves a call to make, or none to make it
LEMMA ProceedTypes ==
    ASSUME NetworkTypeOK, Calling, NEW c \in Connected, Proceed(c) \/ Errs(c) \/ CloseConnection(c)
    PROVE  /\ cpc' \in [Clients -> ClientPlaces]
           /\ script' \in [Clients -> Seq(Functions)]
           /\ gone' \in [Clients -> {"no", "fin", "reset"}]
           /\ Calling'
<1>1. c \in Clients /\ script[c] \in Seq(Functions) /\ script[c] # << >>
    BY DEF Connected, NetworkTypeOK, Calling
<1>2. CASE CloseConnection(c)
    BY <1>1, <1>2 DEF CloseConnection, NetworkTypeOK, ServerTypeOK, ClientPlaces, Calling, Connected
<1>3. ASSUME Proceed(c), Tail(script[c]) # << >>
      PROVE  /\ cpc' = [cpc EXCEPT ![c] = "header"]
             /\ script' = [script EXCEPT ![c] = Tail(script[c])]
             /\ gone' = gone
             /\ Tail(script[c]) \in Seq(Functions)
    BY <1>1, <1>3 DEF Proceed
<1>4. CASE Proceed(c)
  <2>1. CASE Tail(script[c]) = << >>
      BY <1>2, <1>4, <2>1 DEF Proceed
  <2>2. CASE Tail(script[c]) # << >>
    <3> DEFINE rest == Tail(script[c])
    <3>1. /\ cpc' = [cpc EXCEPT ![c] = "header"] /\ script' = [script EXCEPT ![c] = rest]
          /\ gone' = gone /\ rest \in Seq(Functions) /\ rest # << >>
        BY <1>3, <1>4, <2>2
    <3> HIDE DEF rest
    <3>2. /\ cpc' \in [Clients -> ClientPlaces]
          /\ script' \in [Clients -> Seq(Functions)]
          /\ gone' \in [Clients -> {"no", "fin", "reset"}]
        BY <1>1, <3>1 DEF NetworkTypeOK, ServerTypeOK, ClientPlaces
    <3>3. Calling'
        BY <1>1, <3>1 DEF NetworkTypeOK, Calling, Connected
    <3> QED
        BY <3>2, <3>3
  <2> QED
      BY <2>1, <2>2
<1>5. CASE Errs(c)
    BY <1>2, <1>4, <1>5 DEF Errs
<1> QED
    BY <1>2, <1>4, <1>5

LEMMA SendTypes ==
    ASSUME NetworkTypeOK, Calling, NEW c \in Clients,
           NEW here \in {"header", "args"}, NEW part \in Functions \cup {"header"},
           NEW next \in {"args", "waiting"}, Send(c, here, part, next)
    PROVE  ClientTypes /\ SocketTypes /\ UNCHANGED serverVars
<1>1. cpc[c] = here /\ c \in Connected
    BY DEF Send, Connected
<1>2. UNCHANGED <<serverVars, backlog, reply, serverEnd, misread, faults>>
    BY DEF Send
<1>3. CASE /\ request' = IF Broken(c) THEN request ELSE [request EXCEPT ![c] = part]
           /\ cpc' = [cpc EXCEPT ![c] = next]
           /\ UNCHANGED <<gone, script>>
  <2>1. /\ request' \in [Clients -> Functions \cup {"none", "header"}]
        /\ cpc' \in [Clients -> ClientPlaces]
      BY <1>3 DEF NetworkTypeOK, ServerTypeOK, ClientPlaces
  <2>2. Calling'
      BY <1>1, <1>3 DEF Calling, Connected, NetworkTypeOK
  <2> QED
      BY <1>2, <1>3, <2>1, <2>2 DEF NetworkTypeOK, ServerTypeOK, ClientTypes, SocketTypes
<1>4. CASE (Errs(c) \/ Killed(c)) /\ UNCHANGED request
  <2>1. /\ cpc' \in [Clients -> ClientPlaces]
        /\ script' \in [Clients -> Seq(Functions)]
        /\ gone' \in [Clients -> {"no", "fin", "reset"}]
        /\ Calling'
      BY <1>1, <1>4, ProceedTypes DEF Killed
  <2> QED
      BY <1>2, <1>4, <2>1 DEF NetworkTypeOK, ServerTypeOK, ClientTypes, SocketTypes
<1> QED
    BY <1>3, <1>4 DEF Send

\* Every step of a client keeps the types and leaves the server's variables
LEMMA ClientStepTypes ==
    ASSUME NetworkTypeOK, Calling, NEW c \in Clients,
           ClientStep(c) \/ ConnectLeaks(c) \/ Crash(c) \/ Break(c) \/ Vanish(c)
    PROVE  ClientTypes /\ SocketTypes /\ UNCHANGED serverVars
<1>1. CASE Connect(c) \/ ConnectLeaks(c)
  <2>1. /\ UNCHANGED <<serverVars, request, reply, gone, serverEnd, script, misread>>
        /\ backlog' = Append(backlog, c) /\ Len(backlog) < Backlog
      BY <1>1 DEF Connect, ConnectLeaks
  <2>2. cpc' \in [Clients -> ClientPlaces]
      BY <1>1 DEF Connect, ConnectLeaks, NetworkTypeOK, ClientPlaces
  <2>3. faults' \in 0 .. MaxFaults
      BY <1>1, NetworkAssumption DEF Connect, ConnectLeaks, Fault, NetworkTypeOK
  <2>4. backlog' \in Seq(Clients) /\ Len(backlog') <= Backlog /\ backlog' # << >>
    <3>1. backlog \in Seq(Clients) /\ Len(backlog) \in Nat
        BY DEF NetworkTypeOK, ServerTypeOK
    <3>2. backlog' \in Seq(Clients) /\ Len(backlog') = Len(backlog) + 1
        BY <2>1, <3>1
    <3> QED
        BY <2>1, <3>1, <3>2, NetworkAssumption
  <2>5. Calling'
      BY <1>1, <2>1 DEF Calling, Connected, NetworkTypeOK, Connect, ConnectLeaks
  <2> QED
      BY <2>1, <2>2, <2>3, <2>4, <2>5 DEF NetworkTypeOK, ServerTypeOK, ClientTypes, SocketTypes
<1>2. CASE ConnectFails(c)
  <2>1. /\ cpc' \in [Clients -> ClientPlaces] /\ Calling'
        /\ UNCHANGED <<serverVars, socketVars, script, misread, faults>>
      BY <1>2 DEF ConnectFails, NetworkTypeOK, ClientPlaces, Calling
  <2> QED
      BY <2>1 DEF NetworkTypeOK, ServerTypeOK, ClientTypes, SocketTypes, socketVars
<1>3. CASE SendHeader(c)
    BY <1>3, SendTypes DEF SendHeader
<1>4. CASE SendArgs(c)
  <2>1. script[c] \in Seq(Functions) /\ script[c] # << >>
      BY <1>4 DEF SendArgs, Send, NetworkTypeOK, Calling
  <2>2. Head(script[c]) \in Functions
      BY <2>1
  <2> QED
      BY <1>4, <2>2, SendTypes DEF SendArgs
<1>5. ASSUME Receive(c) \/ ReceiveCut(c) \/ ReceiveNothing(c)
      PROVE  ClientTypes /\ SocketTypes /\ UNCHANGED serverVars
  <2>1. c \in Connected
      BY <1>5 DEF Receive, ReceiveCut, ReceiveNothing, Connected
  <2>2. Proceed(c) \/ Errs(c) \/ CloseConnection(c)
      BY <1>5 DEF Receive, ReceiveCut, ReceiveNothing, Killed
  <2>3. /\ cpc' \in [Clients -> ClientPlaces]
        /\ script' \in [Clients -> Seq(Functions)]
        /\ gone' \in [Clients -> {"no", "fin", "reset"}]
        /\ Calling'
      BY <2>1, <2>2, ProceedTypes
  <2>4. UNCHANGED <<serverVars, backlog, request, serverEnd, faults>>
      BY <1>5 DEF Receive, ReceiveCut, ReceiveNothing
  <2>5. reply' \in [Clients -> {"none", "whole", "cut", "error"}] /\ misread' \subseteq Clients
      BY <1>5 DEF Receive, ReceiveCut, ReceiveNothing, NetworkTypeOK, ServerTypeOK
  <2> QED
      BY <2>3, <2>4, <2>5 DEF NetworkTypeOK, ServerTypeOK, ClientTypes, SocketTypes
<1>6. ASSUME Crash(c) \/ Break(c) \/ Vanish(c)
      PROVE  ClientTypes /\ SocketTypes /\ UNCHANGED serverVars
  <2>1. UNCHANGED <<serverVars, backlog, request, reply, serverEnd, misread>>
      BY <1>6 DEF Crash, Break, Vanish, socketVars
  <2>2. faults' \in 0 .. MaxFaults
      BY <1>6, NetworkAssumption DEF Crash, Break, Vanish, Fault, NetworkTypeOK
  <2>3. gone' \in [Clients -> {"no", "fin", "reset"}]
    <3>1. gone' = gone \/ \E v \in {"fin", "reset"} : gone' = [gone EXCEPT ![c] = v]
        BY <1>6 DEF Crash, Break, Vanish, socketVars
    <3> QED
        BY <3>1 DEF NetworkTypeOK, ServerTypeOK
  <2>4. cpc' \in [Clients -> ClientPlaces] /\ script' \in [Clients -> Seq(Functions)]
    <3>1. << >> \in Seq(Functions)
        OBVIOUS
    <3> QED
        BY <1>6, <3>1 DEF Crash, Break, Vanish, NetworkTypeOK, ClientPlaces
  <2>5. Calling'
      BY <1>6 DEF Crash, Break, Vanish, NetworkTypeOK, Calling, Connected
  <2> QED
      BY <2>1, <2>2, <2>3, <2>4, <2>5 DEF NetworkTypeOK, ServerTypeOK, ClientTypes, SocketTypes
<1> QED
    BY <1>1, <1>2, <1>3, <1>4, <1>5, <1>6 DEF ClientStep

-----------------------------------------------------------------------------
(* The invariant *)

LEMMA NetworkInvInit == NetworkInit => NetworkInv
<1> SUFFICES ASSUME NetworkInit PROVE NetworkInv
    OBVIOUS
<1>1. PICK around \in Surroundings :
        /\ stdin = around.stdin
        /\ wait_fds = [s \in Elements |-> IF s = Past THEN around.fd ELSE Free]
        /\ revents = [s \in Elements |-> IF s = Past THEN around.revents ELSE "none"]
    BY DEF NetworkInit, ServerInit
<1>2. around \in Surrounding
    BY ServerAssumption
<1>3. ServerTypeOK
  <2>1. wait_fds \in [Elements -> Descriptors] /\ revents \in [Elements -> {"none", "in", "hup"}]
      BY <1>1, <1>2 DEF Surrounding, Descriptors
  <2>2. stdin \in {"quiet", "readable", "hungup"}
      BY <1>1, <1>2 DEF Surrounding
  <2>3. at \in 1 .. Past + 1 /\ clients_count \in -1 .. MaxClients
      BY ServerAssumption DEF NetworkInit, ServerInit, Past
  <2>4. backlog \in Seq(Clients) /\ events \subseteq Elements
      BY DEF NetworkInit, ServerInit
  <2>5. /\ pc = "poll" /\ running = TRUE /\ locked = FALSE
        /\ request \in [Clients -> Functions \cup {"none", "header"}]
        /\ reply \in [Clients -> {"none", "whole", "cut", "error"}]
        /\ gone \in [Clients -> {"no", "fin", "reset"}]
        /\ serverEnd \in [Clients -> {"open", "closed"}]
      BY DEF NetworkInit, ServerInit
  <2> QED
      BY <2>1, <2>2, <2>3, <2>4, <2>5 DEF ServerTypeOK, Descriptors
<1>4. CountsSlots
  <2>1. Used(wait_fds) \in {{}, {Past}}
      BY <1>1, ServerAssumption DEF Used, Elements
  <2>2. Cardinality(Used(wait_fds)) \in {0, 1}
      BY <2>1, FS_EmptySet, FS_Singleton
  <2> QED
      BY <2>2 DEF CountsSlots, Used, NetworkInit, ServerInit
<1>5. NetworkTypeOK /\ Calling /\ AcceptReady
  <2>1. Len(backlog) <= Backlog /\ faults \in 0 .. MaxFaults
      BY NetworkAssumption DEF NetworkInit, ServerInit
  <2> QED
      BY <1>3, <2>1, NetworkAssumption
      DEF NetworkInit, ServerInit, NetworkTypeOK, ClientPlaces, Calling, AcceptReady
<1> QED
    BY <1>4, <1>5 DEF NetworkInv

LEMMA NetworkInvStep == NetworkInv /\ [NetworkNext]_networkVars => NetworkInv'
<1> SUFFICES ASSUME NetworkInv, [NetworkNext]_networkVars
             PROVE  NetworkInv'
    OBVIOUS
<1> USE DEF NetworkInv
<1>1. ASSUME ServerStep \/ ServerFails \/ Signal
      PROVE  NetworkInv'
  <2>1. ServerInv'
      BY <1>1, ServerStepsKeepInv DEF ServerInv, NetworkTypeOK, ServerStep, ServerFails, Signal
  <2>2. UNCHANGED <<cpc, script, misread>> /\ faults' \in 0 .. MaxFaults
      BY <1>1, NetworkAssumption DEF ServerStep, ServerFails, Signal, Fault, clientVars, NetworkTypeOK
  <2>3. Len(backlog') <= Backlog
      BY <1>1, BacklogShrinks DEF ServerInv, NetworkTypeOK, ServerStep, ServerFails, Signal
  <2> QED
      BY <2>1, <2>2, <2>3 DEF ServerInv, NetworkTypeOK, Calling
<1>2. ASSUME NEW c \in Clients,
             ClientStep(c) \/ ConnectLeaks(c) \/ Crash(c) \/ Break(c) \/ Vanish(c)
      PROVE  NetworkInv'
  <2>1. ClientTypes /\ SocketTypes /\ UNCHANGED serverVars
      BY <1>2, ClientStepTypes
  <2>2. ServerTypeOK' /\ CountsSlots' /\ AcceptReady'
      BY <2>1 DEF NetworkTypeOK, ServerTypeOK, CountsSlots, AcceptReady, SocketTypes, serverVars
  <2> QED
      BY <2>1, <2>2 DEF NetworkTypeOK, ClientTypes, SocketTypes
<1>3. CASE UNCHANGED networkVars
    BY <1>3 DEF networkVars, serverVars, socketVars, clientVars, NetworkTypeOK, ServerTypeOK,
                CountsSlots, AcceptReady, Calling
<1> QED
    BY <1>1, <1>2, <1>3 DEF NetworkNext

\* The inductive invariant holds in every reachable state
THEOREM NetworkInvariance == NetworkSpec => []NetworkInv
<1> QED
    BY NetworkInvInit, NetworkInvStep, PTL DEF NetworkSpec

\* The types of the server, the sockets and the clients: the count of the
\* clients stays within the limit, whatever the server finds past its array
THEOREM NetworkTypeCorrectness == NetworkSpec => []NetworkTypeOK
<1>1. NetworkInv => NetworkTypeOK
    BY DEF NetworkInv
<1> QED
    BY <1>1, NetworkInvariance, PTL

\* clients_count follows the elements in use
THEOREM CountCorrectness == NetworkSpec => []CountsSlots
<1>1. NetworkInv => CountsSlots
    BY DEF NetworkInv
<1> QED
    BY <1>1, NetworkInvariance, PTL

-----------------------------------------------------------------------------
(* The connections: each waits for accept() or is in one element of        *)
(* wait_fds, from the time it is made until the server closes it           *)

Joined(c) == cpc[c] # "new" /\ (cpc[c] = "done" => gone[c] # "no")

Seated(c) == \E s \in Elements : wait_fds[s] = c

BacklogDistinct == \A i, j \in 1 .. Len(backlog) : backlog[i] = backlog[j] => i = j

SeatsDistinct ==
    \A r, s \in Elements : wait_fds[r] = wait_fds[s] /\ wait_fds[s] \in Clients => r = s

\* No connection is forgotten, and none is in both places
PlacedOnce ==
    \A c \in Clients :
        /\ ~ (Pending(c) /\ Seated(c))
        /\ Pending(c) \/ Seated(c) <=> Joined(c) /\ serverEnd[c] = "open"
        /\ serverEnd[c] = "closed" \/ gone[c] # "no" => Joined(c)

\* Before poll() nothing is reported of the array; the element past it is not
\* polled, so that nobody has hung up there
PollStarts ==
    /\ pc \in {"poll", "accept"} => at = 1
    /\ pc = "poll" => \A s \in Slots : revents[s] = "none"
    /\ revents[Past] # "hup"

\* What poll() reported of an element the loop has still to come to is true, of
\* the connection in it or of the standard input, polled while it was free
Reported ==
    \A s \in Slots : s >= at =>
        /\ wait_fds[s] = Free =>
            /\ revents[s] = "in" => stdin = "readable"
            /\ revents[s] = "hup" => stdin = "hungup"
        /\ wait_fds[s] \in Clients =>
            LET c == wait_fds[s]
            IN  /\ revents[s] = "in" => request[c] # "none" \/ gone[c] # "no" \/ stdin = "readable"
                /\ revents[s] = "hup" => gone[c] = "reset" \/ stdin = "hungup"

SeatInv == BacklogDistinct /\ SeatsDistinct /\ PlacedOnce /\ PollStarts /\ Reported

-----------------------------------------------------------------------------
(* Sequences and elements *)

\* A new connection waits behind the others
LEMMA AppendPending ==
    ASSUME backlog \in Seq(Clients), NEW c \in Clients, backlog' = Append(backlog, c),
           BacklogDistinct, ~Pending(c)
    PROVE  BacklogDistinct' /\ \A d \in Clients : Pending(d)' <=> Pending(d) \/ d = c
<1>1. Len(backlog) \in Nat /\ Len(backlog') = Len(backlog) + 1
    OBVIOUS
<1>2. backlog'[Len(backlog) + 1] = c /\ \A i \in 1 .. Len(backlog) : backlog'[i] = backlog[i]
    OBVIOUS
<1>3. BacklogDistinct'
    BY <1>1, <1>2 DEF BacklogDistinct, Pending
<1>4. \A d \in Clients : Pending(d)' <=> Pending(d) \/ d = c
    BY <1>1, <1>2 DEF Pending
<1> QED
    BY <1>3, <1>4

\* accept() takes the connection that waits longest
LEMMA TailPending ==
    ASSUME backlog \in Seq(Clients), backlog # << >>, backlog' = Tail(backlog), BacklogDistinct
    PROVE  /\ BacklogDistinct'
           /\ Head(backlog) \in Clients /\ Pending(Head(backlog))
           /\ \A d \in Clients : Pending(d)' <=> Pending(d) /\ d # Head(backlog)
<1>1. Len(backlog) \in Nat \ {0} /\ Len(backlog') = Len(backlog) - 1 /\ Head(backlog) = backlog[1]
    OBVIOUS
<1>2. \A i \in 1 .. Len(backlog') : backlog'[i] = backlog[i + 1]
    OBVIOUS
<1>3. BacklogDistinct'
    BY <1>1, <1>2 DEF BacklogDistinct
<1>4. Head(backlog) \in Clients /\ Pending(Head(backlog))
    BY <1>1 DEF Pending
<1>5. ASSUME NEW d \in Clients
      PROVE  Pending(d)' <=> Pending(d) /\ d # Head(backlog)
  <2>1. ASSUME NEW i \in 1 .. Len(backlog'), backlog'[i] = d
        PROVE  Pending(d) /\ d # Head(backlog)
    <3>1. i + 1 \in 1 .. Len(backlog) /\ backlog[i + 1] = d /\ i + 1 # 1
        BY <1>1, <1>2, <2>1
    <3> QED
        BY <1>1, <3>1 DEF Pending, BacklogDistinct
  <2>2. ASSUME NEW i \in 1 .. Len(backlog), backlog[i] = d, d # Head(backlog)
        PROVE  Pending(d)'
    <3>1. i - 1 \in 1 .. Len(backlog') /\ (i - 1) + 1 = i
        BY <1>1, <2>2
    <3>2. backlog'[i - 1] = d
        BY <1>2, <2>2, <3>1
    <3> QED
        BY <3>1, <3>2 DEF Pending
  <2> QED
      BY <2>1, <2>2 DEF Pending
<1> QED
    BY <1>3, <1>4, <1>5

\* A non-empty set of natural numbers has a least element
LEMMA LeastElement ==
    ASSUME NEW T, T \subseteq Nat, T # {}
    PROVE  \E t \in T : \A u \in T : t <= u
<1> DEFINE R == {p \in Nat \X Nat : p[1] < p[2]}
<1>1. R = OpToRel(<, Nat)
    BY DEF OpToRel
<1> HIDE DEF R
<1>2. IsWellFoundedOn(R, Nat)
    BY <1>1, NatLessThanWellFounded
<1>3. PICK t \in T : \A u \in T : ~ (<<u, t>> \in R)
    BY <1>2, WFMin
<1>4. ASSUME NEW u \in T, u < t
      PROVE  FALSE
  <2>1. <<u, t>> \in R
      BY <1>4 DEF R
  <2> QED
      BY <1>3, <2>1
<1>5. \A u \in T : t <= u
    BY <1>4
<1> QED
    BY <1>5

\* There is an element for the connection that accept() answers
LEMMA FirstFreeExists ==
    ASSUME ServerTypeOK, CountsSlots, clients_count < MaxClients
    PROVE  \E s \in Elements : FirstFree = {s} /\ wait_fds[s] = Free
<1> DEFINE free == {s \in Elements : wait_fds[s] = Free}
<1>1. free # {}
  <2> SUFFICES ASSUME free = {} PROVE FALSE
      OBVIOUS
  <2>1. Used(wait_fds) = Elements
      BY DEF Used
  <2>2. Cardinality(Elements) = MaxClients + 1
      BY FS_Interval, ServerAssumption DEF Elements, Past
  <2>3. clients_count \in {Cardinality(Used(wait_fds)) - 1, Cardinality(Used(wait_fds))}
      BY DEF CountsSlots, Used
  <2> QED
      BY <2>1, <2>2, <2>3, ServerAssumption
<1>2. free \subseteq Nat
    BY ServerAssumption DEF Elements, Past
<1>3. PICK s \in free : \A r \in free : s <= r
    BY <1>1, <1>2, LeastElement
<1>4. s \in FirstFree
  <2>1. ASSUME NEW r \in 1 .. (s - 1)
        PROVE  wait_fds[r] # Free
    <3>1. r \in Elements /\ r < s
        BY <1>2, ServerAssumption DEF Elements, Past
    <3> QED
        BY <1>2, <1>3, <3>1
  <2> QED
      BY <2>1 DEF FirstFree
<1> QED
    BY <1>4, FirstFreeIsOne


-----------------------------------------------------------------------------
(* How the steps of the server keep SeatInv *)

\* What SeatInv is about
seatVars == <<wait_fds, revents, at, stdin, backlog, request, gone, serverEnd, cpc>>

\* A step that leaves connections and array alone
LEMMA QuietKeepsSeats ==
    ASSUME SeatInv, UNCHANGED seatVars,
           pc' = pc \/ pc' \in {"scan", "blocked", "dead", "stopped"}
    PROVE  SeatInv'
<1>1. BacklogDistinct' /\ SeatsDistinct' /\ Reported'
    BY DEF SeatInv, BacklogDistinct, SeatsDistinct, Reported, seatVars
<1>2. PlacedOnce'
    BY DEF SeatInv, PlacedOnce, Pending, Seated, Joined, seatVars
<1>3. PollStarts'
    BY DEF SeatInv, PollStarts, seatVars
<1> QED
    BY <1>1, <1>2, <1>3 DEF SeatInv

\* poll() reports what is true of each element it looks at
LEMMA PollKeepsSeats ==
    ASSUME ServerInv, SeatInv, Poll, UNCHANGED cpc
    PROVE  SeatInv'
<1>1. UNCHANGED <<wait_fds, at, stdin, backlog, request, gone, serverEnd, cpc>> /\ at = 1
    BY DEF Poll, SeatInv, PollStarts, socketVars
<1>2. BacklogDistinct' /\ SeatsDistinct'
    BY <1>1 DEF SeatInv, BacklogDistinct, SeatsDistinct
<1>3. PlacedOnce'
    BY <1>1 DEF SeatInv, PlacedOnce, Pending, Seated, Joined
<1>4. /\ pc' \in {"poll", "accept", "scan"}
      /\ \A s \in Elements :
            revents'[s] = IF s \in Slots /\ pc' # "poll" THEN ReportOf(s) ELSE revents[s]
    BY DEF Poll
<1>5. Slots \subseteq Elements /\ Past \in Elements \ Slots
    BY ServerAssumption DEF Slots, Elements, Past
<1>6. PollStarts'
    BY <1>1, <1>4, <1>5 DEF SeatInv, PollStarts, Poll
<1>7. Reported'
  <2>1. CASE pc' = "poll"
      BY <1>1, <1>4, <1>5, <2>1 DEF SeatInv, Reported, PollStarts, Poll
  <2>2. CASE pc' # "poll"
    <3>1. \A s \in Slots : revents'[s] = ReportOf(s)
        BY <1>4, <1>5, <2>2
    <3>2. Free \notin Clients
        BY ServerAssumption
    <3> QED
        BY <1>1, <3>1, <3>2 DEF Reported, ReportOf
  <2> QED
      BY <2>1, <2>2
<1> QED
    BY <1>2, <1>3, <1>6, <1>7 DEF SeatInv

\* The connection accepted is in one element: the first one that was free
LEMMA AcceptKeepsSeats ==
    ASSUME ServerInv, SeatInv, Accept, UNCHANGED cpc
    PROVE  SeatInv'
<1> DEFINE c == Head(backlog)
<1>1. backlog # << >> /\ clients_count < MaxClients
    BY DEF ServerInv, AcceptReady, Accept
<1>2. PICK s \in Elements : FirstFree = {s} /\ wait_fds[s] = Free
    BY <1>1, FirstFreeExists DEF ServerInv
<1>3. /\ BacklogDistinct'
      /\ c \in Clients /\ Pending(c)
      /\ \A d \in Clients : Pending(d)' <=> Pending(d) /\ d # c
    BY <1>1, TailPending DEF Accept, SeatInv, ServerInv, ServerTypeOK
<1> HIDE DEF c
<1>4. /\ UNCHANGED <<revents, at, stdin, request, gone, serverEnd, cpc>>
      /\ wait_fds' = [r \in Elements |-> IF r = s THEN c ELSE wait_fds[r]]
      /\ pc' = "scan"
    BY <1>2 DEF Accept, Take, c
<1>5. Free \notin Clients
    BY ServerAssumption
<1>6. \A r \in Elements : wait_fds[r] # c
    BY <1>3 DEF SeatInv, PlacedOnce, Seated
<1>7. SeatsDistinct'
    BY <1>2, <1>4, <1>6 DEF SeatInv, SeatsDistinct
<1>8. PlacedOnce'
  <2>1. \A d \in Clients : Seated(d)' <=> Seated(d) \/ d = c
      BY <1>2, <1>3, <1>4, <1>5 DEF Seated
  <2>2. \A d \in Clients : Joined(d)' <=> Joined(d)
      BY <1>4 DEF Joined
  <2> QED
      BY <1>3, <1>4, <2>1, <2>2 DEF SeatInv, PlacedOnce
<1>9. PollStarts'
    BY <1>4 DEF SeatInv, PollStarts
<1>10. Reported'
  <2>1. Slots \subseteq Elements
      BY ServerAssumption DEF Slots, Elements, Past
  <2> QED
      BY <1>2, <1>3, <1>4, <1>5, <2>1 DEF SeatInv, Reported
<1> QED
    BY <1>3, <1>7, <1>8, <1>9, <1>10 DEF SeatInv

\* Whether the connection is lost or stays in the backlog, an element is lost
LEMMA AcceptFailsKeepsSeats ==
    ASSUME ServerInv, SeatInv, AcceptFails, UNCHANGED cpc
    PROVE  SeatInv'
<1> DEFINE c == Head(backlog)
<1>1. backlog # << >> /\ clients_count < MaxClients
    BY DEF ServerInv, AcceptReady, AcceptFails
<1>2. PICK s \in Elements : FirstFree = {s} /\ wait_fds[s] = Free
    BY <1>1, FirstFreeExists DEF ServerInv
<1>3. /\ UNCHANGED <<revents, at, stdin, gone, cpc>>
      /\ wait_fds' = [r \in Elements |-> IF r = s THEN Failed ELSE wait_fds[r]]
      /\ pc' = "scan"
    BY <1>2 DEF AcceptFails, Take
<1>4. Free \notin Clients /\ Failed \notin Clients /\ Failed # Free
    BY ServerAssumption
<1>5. SeatsDistinct'
    BY <1>3, <1>4 DEF SeatInv, SeatsDistinct
<1>6. \A d \in Clients : (Seated(d)' <=> Seated(d)) /\ (Joined(d)' <=> Joined(d))
    BY <1>2, <1>3, <1>4 DEF Seated, Joined
<1>7. PollStarts'
    BY <1>3 DEF SeatInv, PollStarts
<1>8. Slots \subseteq Elements
    BY ServerAssumption DEF Slots, Elements, Past
<1>9. CASE UNCHANGED <<backlog, request, serverEnd>>
  <2>1. BacklogDistinct' /\ PlacedOnce'
      BY <1>3, <1>6, <1>9 DEF SeatInv, BacklogDistinct, PlacedOnce, Pending
  <2>2. Reported'
      BY <1>2, <1>3, <1>4, <1>8, <1>9 DEF SeatInv, Reported
  <2> QED
      BY <1>5, <1>7, <2>1, <2>2 DEF SeatInv
<1>10. CASE /\ backlog' = Tail(backlog)
            /\ request' = [request EXCEPT ![c] = "none"]
            /\ serverEnd' = [serverEnd EXCEPT ![c] = "closed"]
  <2>1. /\ BacklogDistinct'
        /\ c \in Clients /\ Pending(c)
        /\ \A d \in Clients : Pending(d)' <=> Pending(d) /\ d # c
      BY <1>1, <1>10, TailPending DEF SeatInv, ServerInv, ServerTypeOK
  <2> HIDE DEF c
  <2>2. /\ \A d \in Clients : serverEnd'[d] = IF d = c THEN "closed" ELSE serverEnd[d]
        /\ \A d \in Clients : d # c => request'[d] = request[d]
      BY <1>10, <2>1 DEF ServerInv, ServerTypeOK
  <2>3. ~Seated(c)
      BY <2>1 DEF SeatInv, PlacedOnce
  <2>4. PlacedOnce'
      BY <1>3, <1>6, <2>1, <2>2, <2>3 DEF SeatInv, PlacedOnce
  <2>5. Reported'
      BY <1>2, <1>3, <1>4, <1>8, <2>2, <2>3 DEF SeatInv, Reported, Seated
  <2> QED
      BY <1>5, <1>7, <2>1, <2>4, <2>5 DEF SeatInv
<1> QED
    BY <1>9, <1>10 DEF AcceptFails

\* The pass ends with nothing reported
LEMMA EndScanKeepsSeats ==
    ASSUME ServerInv, SeatInv, EndScan, UNCHANGED cpc
    PROVE  SeatInv'
<1>1. /\ UNCHANGED <<wait_fds, stdin, backlog, request, gone, serverEnd, cpc>>
      /\ at' = 1 /\ pc' = "poll"
      /\ revents' = [s \in Elements |-> IF s = Past THEN revents[s] ELSE "none"]
    BY DEF EndScan, socketVars
<1>2. Slots \subseteq Elements /\ Past \in Elements \ Slots
    BY ServerAssumption DEF Slots, Elements, Past
<1>3. BacklogDistinct' /\ SeatsDistinct'
    BY <1>1 DEF SeatInv, BacklogDistinct, SeatsDistinct
<1>4. PlacedOnce'
    BY <1>1 DEF SeatInv, PlacedOnce, Pending, Seated, Joined
<1>5. PollStarts' /\ Reported'
    BY <1>1, <1>2 DEF SeatInv, PollStarts, Reported
<1> QED
    BY <1>3, <1>4, <1>5 DEF SeatInv

\* A connection is closed and its element freed
LEMMA FreeKeepsSeats ==
    ASSUME ServerInv, SeatInv, UNCHANGED <<stdin, backlog, gone, cpc>>,
           NEW s \in Elements, Turn(s), FreeSlot(s), at' = s + 1,
           pc = "scan", pc' = "scan",
           \A d \in Clients : serverEnd'[d] = IF d = wait_fds[s] THEN "closed" ELSE serverEnd[d],
           \A d \in Clients : d # wait_fds[s] => request'[d] = request[d]
    PROVE  SeatInv'
<1> DEFINE c == wait_fds[s]
<1>1. /\ wait_fds' = [wait_fds EXCEPT ![s] = Free]
      /\ revents' = [revents EXCEPT ![s] = "none"]
      /\ s >= at /\ c \in Clients \cup {Garbage}
      /\ wait_fds \in [Elements -> Descriptors]
      /\ revents \in [Elements -> {"none", "in", "hup"}]
      /\ at \in Int /\ s \in Int
    BY ServerAssumption DEF FreeSlot, Turn, Due, ServerInv, ServerTypeOK, Descriptors, Elements, Past
<1>2. Free \notin Clients /\ Garbage \notin Clients
    BY ServerAssumption
<1>3. \A r \in Elements : wait_fds'[r] = IF r = s THEN Free ELSE wait_fds[r]
    BY <1>1
<1>4. \A r \in Elements : revents'[r] = IF r = s THEN "none" ELSE revents[r]
    BY <1>1
<1>5. BacklogDistinct'
    BY DEF SeatInv, BacklogDistinct
<1>6. SeatsDistinct'
    BY <1>2, <1>3 DEF SeatInv, SeatsDistinct
<1>7. PlacedOnce'
  <2>1. \A d \in Clients : Seated(d)' <=> Seated(d) /\ d # c
    <3>1. \A d \in Clients, r \in Elements : wait_fds'[r] = d <=> r # s /\ wait_fds[r] = d
        BY <1>2, <1>3
    <3>2. \A r \in Elements : r # s /\ c \in Clients => wait_fds[r] # c
        BY DEF SeatInv, SeatsDistinct
    <3> QED
        BY <3>1, <3>2 DEF Seated
  <2>2. \A d \in Clients : (Joined(d)' <=> Joined(d)) /\ (Pending(d)' <=> Pending(d))
      BY DEF Joined, Pending
  <2>3. c \in Clients => Seated(c)
      BY DEF Seated
  <2> QED
      BY <2>1, <2>2, <2>3 DEF SeatInv, PlacedOnce
<1>8. Past \in Elements /\ Slots \subseteq Elements /\ Slots \subseteq Int
    BY ServerAssumption DEF Slots, Elements, Past
<1>9. PollStarts'
    BY <1>4, <1>8 DEF SeatInv, PollStarts
<1>10. Reported'
  <2> SUFFICES ASSUME NEW r \in Slots, r >= at'
               PROVE  /\ wait_fds'[r] = Free =>
                          /\ revents'[r] = "in" => stdin = "readable"
                          /\ revents'[r] = "hup" => stdin = "hungup"
                      /\ wait_fds'[r] \in Clients =>
                          /\ revents'[r] = "in" =>
                                \/ request'[wait_fds'[r]] # "none"
                                \/ gone[wait_fds'[r]] # "no"
                                \/ stdin = "readable"
                          /\ revents'[r] = "hup" => gone[wait_fds'[r]] = "reset" \/ stdin = "hungup"
      BY DEF Reported
  <2>1. r # s /\ r >= at /\ r \in Elements
      BY <1>1, <1>8
  <2>2. wait_fds'[r] = wait_fds[r] /\ revents'[r] = revents[r]
      BY <1>3, <1>4, <2>1
  <2>3. wait_fds[r] \in Clients => wait_fds[r] # c
      BY <2>1 DEF SeatInv, SeatsDistinct
  <2> QED
      BY <2>1, <2>2, <2>3 DEF SeatInv, Reported
<1> QED
    BY <1>5, <1>6, <1>7, <1>9, <1>10 DEF SeatInv

\* A request is answered, and the loop goes on behind its element
LEMMA AnswerKeepsSeats ==
    ASSUME ServerInv, SeatInv, UNCHANGED <<wait_fds, revents, stdin, backlog, serverEnd, cpc>>,
           NEW s \in Elements, Turn(s), wait_fds[s] \in Clients, at' = s + 1,
           pc = "scan", pc' \in {"scan", "dead"},
           request' = [request EXCEPT ![wait_fds[s]] = "none"],
           gone' \in {gone, [gone EXCEPT ![wait_fds[s]] = "reset"]}
    PROVE  SeatInv'
<1> DEFINE c == wait_fds[s]
<1>1. s >= at /\ at \in Int /\ s \in Int
    BY ServerAssumption DEF Turn, Due, ServerInv, ServerTypeOK, Elements, Past
<1>2. /\ \A d \in Clients : gone'[d] = gone[d] \/ (d = c /\ gone'[d] = "reset")
      /\ \A d \in Clients : d # c => request'[d] = request[d]
    BY DEF ServerInv, ServerTypeOK
<1>3. BacklogDistinct' /\ SeatsDistinct' /\ PollStarts'
    BY DEF SeatInv, BacklogDistinct, SeatsDistinct, PollStarts
<1>4. PlacedOnce'
  <2>1. \A d \in Clients : (Seated(d)' <=> Seated(d)) /\ (Pending(d)' <=> Pending(d))
      BY DEF Seated, Pending
  <2>2. Joined(c)
      BY DEF SeatInv, PlacedOnce, Seated
  <2>3. \A d \in Clients : Joined(d)' <=> Joined(d)
      BY <1>2, <2>2 DEF Joined
  <2>4. \A d \in Clients : gone'[d] # "no" => Joined(d)
      BY <1>2, <2>2 DEF SeatInv, PlacedOnce
  <2> QED
      BY <2>1, <2>3, <2>4 DEF SeatInv, PlacedOnce
<1>5. Reported'
  <2>1. Slots \subseteq Elements /\ Slots \subseteq Int
      BY ServerAssumption DEF Slots, Elements, Past
  <2>2. \A r \in Slots : r >= at' => r >= at /\ r # s
      BY <1>1, <2>1
  <2>3. \A r \in Slots : r >= at' /\ wait_fds[r] \in Clients => wait_fds[r] # c
      BY <2>1, <2>2 DEF SeatInv, SeatsDistinct
  <2> HIDE DEF c
  <2> QED
      BY <1>2, <2>2, <2>3 DEF SeatInv, Reported
<1> QED
    BY <1>3, <1>4, <1>5 DEF SeatInv


\* No step of the server loses a connection or has it twice
LEMMA ServerKeepsSeats ==
    ASSUME ServerInv, SeatInv, UNCHANGED cpc,
           Serve \/ ServeFailing \/ Shutdown \/ \E s \in Elements : Interrupt(s)
    PROVE  SeatInv'
<1>1. CASE Poll
    BY <1>1, PollKeepsSeats
<1>2. CASE Accept
    BY <1>2, AcceptKeepsSeats
<1>3. CASE AcceptFails
    BY <1>3, AcceptFailsKeepsSeats
<1>4. CASE EndScan
    BY <1>4, EndScanKeepsSeats
<1>5. CASE Stop \/ Shutdown
  <2>1. UNCHANGED seatVars /\ (pc' = pc \/ pc' = "stopped")
      BY <1>5 DEF Stop, Shutdown, seatVars, socketVars
  <2> QED
      BY <2>1, QuietKeepsSeats
<1>6. ASSUME NEW s \in Elements, CloseUnread(s)
      PROVE  SeatInv'
  <2>1. /\ UNCHANGED <<pc, stdin, backlog, gone>>
        /\ pc = "scan" /\ Turn(s) /\ FreeSlot(s) /\ at' = s + 1
        /\ serverEnd' = [d \in Clients |-> IF d = wait_fds[s] THEN "closed" ELSE serverEnd[d]]
        /\ request' = [d \in Clients |-> IF d = wait_fds[s] THEN "none" ELSE request[d]]
      BY <1>6 DEF CloseUnread
  <2> QED
      BY <1>6, <2>1, FreeKeepsSeats
<1>7. ASSUME NEW s \in Elements, NEW f, ReadBroken(s) \/ Block(s, f)
      PROVE  SeatInv'
  <2>1. UNCHANGED seatVars /\ pc' \in {"dead", "blocked"}
      BY <1>7 DEF ReadBroken, Block, seatVars, socketVars
  <2> QED
      BY <2>1, QuietKeepsSeats
<1>8. ASSUME NEW s \in Elements, NEW f, Answer(s, f) \/ AnswerCut(s, f)
      PROVE  SeatInv'
  <2>1. /\ UNCHANGED <<wait_fds, revents, stdin, backlog, serverEnd>>
        /\ Turn(s) /\ wait_fds[s] \in Clients /\ at' = s + 1 /\ pc = "scan"
        /\ request' = [request EXCEPT ![wait_fds[s]] = "none"]
      BY <1>8 DEF Answer, AnswerCut, Handles, Readable, Reading
  <2>2. gone' \in {gone, [gone EXCEPT ![wait_fds[s]] = "reset"]}
      BY <1>8 DEF Answer, AnswerCut
  <2>3. pc' \in {"scan", "dead"}
      BY <1>8, <2>1 DEF Answer, AnswerCut, ServerInv, ServerTypeOK
  <2> QED
      BY <1>8, <2>1, <2>2, <2>3, AnswerKeepsSeats
<1>9. ASSUME NEW s \in Elements, StoreResult(s)
      PROVE  SeatInv'
  <2>1. /\ UNCHANGED <<pc, wait_fds, revents, stdin, backlog, gone, serverEnd>>
        /\ Turn(s) /\ wait_fds[s] \in Clients /\ at' = s + 1 /\ pc = "scan"
        /\ request' = [request EXCEPT ![wait_fds[s]] = "none"]
      BY <1>9 DEF StoreResult, Readable, Reading
  <2> QED
      BY <1>9, <2>1, AnswerKeepsSeats
<1>10. ASSUME NEW s \in Elements, StoreResultFails(s)
       PROVE  SeatInv'
  <2>1. /\ UNCHANGED <<pc, stdin, backlog, gone>>
        /\ Turn(s) /\ wait_fds[s] \in Clients /\ FreeSlot(s) /\ at' = s + 1 /\ pc = "scan"
        /\ serverEnd' = [serverEnd EXCEPT ![wait_fds[s]] = "closed"]
        /\ request' = [request EXCEPT ![wait_fds[s]] = "none"]
      BY <1>10 DEF StoreResultFails, Readable, Reading
  <2>2. /\ \A d \in Clients : serverEnd'[d] = IF d = wait_fds[s] THEN "closed" ELSE serverEnd[d]
        /\ \A d \in Clients : d # wait_fds[s] => request'[d] = request[d]
      BY <2>1 DEF ServerInv, ServerTypeOK
  <2> QED
      BY <1>10, <2>1, <2>2, FreeKeepsSeats
<1>11. ASSUME NEW s \in Elements, Interrupt(s)
       PROVE  SeatInv'
  <2>1. pc = "scan" /\ Turn(s) /\ wait_fds[s] \in Clients /\ UNCHANGED <<stdin, backlog, request, gone>>
      BY <1>11 DEF Interrupt, Waiting, Reading
  <2>2. CASE FreeSlot(s) /\ at' = s + 1 /\ pc' = pc /\ serverEnd' = [serverEnd EXCEPT ![wait_fds[s]] = "closed"]
    <3>1. \A d \in Clients : serverEnd'[d] = IF d = wait_fds[s] THEN "closed" ELSE serverEnd[d]
        BY <2>1, <2>2 DEF ServerInv, ServerTypeOK
    <3> QED
        BY <1>11, <2>1, <2>2, <3>1, FreeKeepsSeats
  <2>3. CASE pc' = "dead" /\ UNCHANGED <<wait_fds, revents, at, serverEnd>>
      BY <2>1, <2>3, QuietKeepsSeats DEF seatVars
  <2> QED
      BY <1>11, <2>2, <2>3 DEF Interrupt
<1> QED
    BY <1>1, <1>2, <1>3, <1>4, <1>5, <1>6, <1>7, <1>8, <1>9, <1>10, <1>11
    DEF Serve, ServeFailing

-----------------------------------------------------------------------------
(* How the steps of the clients do *)

\* What a client may do to the connections: begin its own, send on it, read from
\* it and end it.  What the server reports of an end stays true.
ClientEffect(c) ==
    /\ UNCHANGED <<serverVars, serverEnd>>
    /\ \/ backlog' = backlog /\ (Joined(c)' <=> Joined(c))
       \/ backlog' = Append(backlog, c) /\ cpc[c] = "new" /\ Joined(c)'
    /\ \A d \in Clients \ {c} : cpc'[d] = cpc[d] /\ gone'[d] = gone[d] /\ request'[d] = request[d]
    /\ gone[c] # "no" => gone'[c] # "no"
    /\ gone'[c] # "no" => Joined(c)'
    /\ gone[c] = "reset" => gone'[c] = "reset"
    /\ request[c] # "none" => request'[c] # "none"
    /\ \A d \in Clients : reply'[d] \in {reply[d], "none"}

\* A client that goes on or closes disturbs no other client
LEMMA CloseEffect ==
    ASSUME NetworkTypeOK, NEW c \in Connected, Proceed(c) \/ Errs(c) \/ CloseConnection(c)
    PROVE  /\ Joined(c)' /\ Joined(c)
           /\ \A d \in Clients \ {c} : cpc'[d] = cpc[d] /\ gone'[d] = gone[d]
           /\ gone[c] # "no" => gone'[c] = gone[c]
<1>1. c \in Clients /\ cpc[c] \in {"header", "args", "waiting"}
    BY DEF Connected
<1>2. \/ /\ cpc' = [cpc EXCEPT ![c] = "done"]
         /\ gone' = [gone EXCEPT ![c] = IF gone[c] = "no" THEN "fin" ELSE gone[c]]
      \/ cpc' = [cpc EXCEPT ![c] = "header"] /\ gone' = gone
    BY DEF Proceed, Errs, CloseConnection
<1> QED
    BY <1>1, <1>2 DEF NetworkTypeOK, ServerTypeOK, Joined

\* Every step of a client is a ClientEffect
LEMMA ClientStepEffect ==
    ASSUME NetworkTypeOK, Calling, PlacedOnce, NEW c \in Clients,
           ClientStep(c) \/ ConnectLeaks(c) \/ Crash(c) \/ Break(c) \/ Vanish(c)
    PROVE  ClientEffect(c)
<1> USE DEF NetworkTypeOK, ServerTypeOK
<1>1. CASE Connect(c) \/ ConnectLeaks(c)
  <2>1. /\ UNCHANGED <<serverVars, request, reply, gone, serverEnd>>
        /\ backlog' = Append(backlog, c) /\ cpc[c] = "new"
        /\ \E v \in {"header", "silent"} : cpc' = [cpc EXCEPT ![c] = v]
      BY <1>1 DEF Connect, ConnectLeaks
  <2> QED
      BY <2>1 DEF ClientEffect, Joined
<1>2. CASE ConnectFails(c)
  <2>1. UNCHANGED <<serverVars, socketVars>> /\ cpc[c] = "new" /\ cpc' = [cpc EXCEPT ![c] = "done"]
      BY <1>2 DEF ConnectFails
  <2>2. UNCHANGED <<backlog, request, reply, gone, serverEnd>>
      BY <2>1 DEF socketVars
  <2>3. (Joined(c)' <=> Joined(c)) /\ \A d \in Clients \ {c} : cpc'[d] = cpc[d]
    <3>1. gone[c] = "no"
        BY <2>1 DEF PlacedOnce, Joined
    <3> QED
        BY <2>1, <2>2, <3>1 DEF Joined
  <2>4. gone'[c] # "no" => Joined(c)'
      BY <2>1, <2>2 DEF Joined
  <2> QED
      BY <2>1, <2>2, <2>3, <2>4 DEF ClientEffect
<1>3. ASSUME NEW here \in {"header", "args"}, NEW part \in Functions \cup {"header"},
             NEW next \in {"args", "waiting"}, Send(c, here, part, next)
      PROVE  ClientEffect(c)
  <2>1. c \in Connected /\ UNCHANGED <<serverVars, backlog, reply, serverEnd>>
      BY <1>3 DEF Connected, Send
  <2>2. CASE /\ request' = IF Broken(c) THEN request ELSE [request EXCEPT ![c] = part]
             /\ cpc' = [cpc EXCEPT ![c] = next]
             /\ UNCHANGED <<gone, script>>
    <3>1. part # "none"
        BY DEF Functions
    <3>2. Joined(c) /\ Joined(c)'
        BY <2>1, <2>2 DEF Joined, Connected
    <3>3. \A d \in Clients \ {c} : cpc'[d] = cpc[d] /\ request'[d] = request[d]
      <4>1. \A d \in Clients \ {c} : cpc'[d] = cpc[d]
          BY <2>2
      <4>2. CASE Broken(c)
          BY <2>2, <4>1, <4>2
      <4>3. CASE ~Broken(c)
          BY <2>2, <4>1, <4>3
      <4> QED
          BY <4>2, <4>3
    <3>4. request[c] # "none" => request'[c] # "none"
      <4>1. CASE Broken(c)
          BY <2>2, <4>1
      <4>2. CASE ~Broken(c)
        <5>1. request'[c] = part
            BY <2>2, <4>2
        <5> QED
            BY <3>1, <5>1
      <4> QED
          BY <4>1, <4>2
    <3>5. gone' = gone /\ reply' = reply
        BY <2>1, <2>2
    <3> QED
        BY <2>1, <3>2, <3>3, <3>4, <3>5 DEF ClientEffect
  <2>3. CASE (Errs(c) \/ Killed(c)) /\ UNCHANGED request
      BY <2>1, <2>3, CloseEffect DEF Killed, ClientEffect
  <2> QED
      BY <1>3, <2>2, <2>3 DEF Send
<1>4. CASE SendHeader(c)
    BY <1>3, <1>4 DEF SendHeader
<1>5. CASE SendArgs(c)
  <2>1. script[c] \in Seq(Functions) /\ script[c] # << >>
      BY <1>5 DEF SendArgs, Send, Calling
  <2>2. Head(script[c]) \in Functions
      BY <2>1
  <2> QED
      BY <1>3, <1>5, <2>2 DEF SendArgs
<1>6. ASSUME Receive(c) \/ ReceiveCut(c) \/ ReceiveNothing(c)
      PROVE  ClientEffect(c)
  <2>1. c \in Connected /\ (Proceed(c) \/ Errs(c) \/ CloseConnection(c))
      BY <1>6 DEF Receive, ReceiveCut, ReceiveNothing, Connected, Killed
  <2>2. UNCHANGED <<serverVars, backlog, request, serverEnd>>
      BY <1>6 DEF Receive, ReceiveCut, ReceiveNothing
  <2>3. \A d \in Clients : reply'[d] \in {reply[d], "none"}
      BY <1>6 DEF Receive, ReceiveCut, ReceiveNothing
  <2> QED
      BY <2>1, <2>2, <2>3, CloseEffect DEF ClientEffect
<1>7. ASSUME Crash(c) \/ Break(c) \/ Vanish(c)
      PROVE  ClientEffect(c)
  <2>1. c \in Connected /\ UNCHANGED <<serverVars, backlog, request, reply, serverEnd>>
      BY <1>7 DEF Crash, Break, Vanish, socketVars
  <2>2. \/ /\ cpc' = [cpc EXCEPT ![c] = "done"]
           /\ gone' = [gone EXCEPT ![c] = IF gone[c] = "no" /\ reply[c] = "none" THEN "fin" ELSE "reset"]
        \/ cpc' = cpc /\ gone' = [gone EXCEPT ![c] = "reset"]
        \/ cpc' = [cpc EXCEPT ![c] = "silent"] /\ gone' = gone
      BY <1>7 DEF Crash, Break, Vanish, socketVars
  <2>3. Joined(c) /\ Joined(c)'
      BY <2>1, <2>2 DEF Joined, Connected
  <2> QED
      BY <2>1, <2>2, <2>3 DEF ClientEffect
<1> QED
    BY <1>1, <1>2, <1>4, <1>5, <1>6, <1>7 DEF ClientStep

\* A client does not change where the others' connections are
LEMMA ClientKeepsSeats ==
    ASSUME NetworkTypeOK, SeatInv, NEW c \in Clients, ClientEffect(c)
    PROVE  SeatInv'
<1>1. UNCHANGED <<pc, wait_fds, revents, at, stdin, serverEnd>>
    BY DEF ClientEffect, serverVars
<1>2. SeatsDistinct' /\ PollStarts' /\ (\A d \in Clients : Seated(d)' <=> Seated(d))
    BY <1>1 DEF SeatInv, SeatsDistinct, PollStarts, Seated
<1>3. \A d \in Clients \ {c} : Joined(d)' <=> Joined(d)
    BY DEF ClientEffect, Joined
<1>4. \A d \in Clients : gone'[d] # "no" => Joined(d)'
    BY <1>3 DEF SeatInv, PlacedOnce, ClientEffect
<1>5. ASSUME backlog' = backlog, Joined(c)' <=> Joined(c)
      PROVE  BacklogDistinct' /\ PlacedOnce'
    BY <1>1, <1>2, <1>3, <1>4, <1>5 DEF SeatInv, BacklogDistinct, PlacedOnce, Pending
<1>6. ASSUME backlog' = Append(backlog, c), cpc[c] = "new", Joined(c)'
      PROVE  BacklogDistinct' /\ PlacedOnce'
  <2>1. ~Joined(c)
      BY <1>6 DEF Joined
  <2>2. ~Pending(c) /\ ~Seated(c) /\ serverEnd[c] = "open"
      BY <2>1 DEF SeatInv, PlacedOnce, NetworkTypeOK, ServerTypeOK
  <2>3. BacklogDistinct' /\ \A d \in Clients : Pending(d)' <=> Pending(d) \/ d = c
      BY <1>6, <2>2, AppendPending DEF SeatInv, NetworkTypeOK, ServerTypeOK
  <2> QED
      BY <1>1, <1>2, <1>3, <1>4, <1>6, <2>2, <2>3 DEF SeatInv, PlacedOnce
<1>7. Reported'
  <2>1. \A d \in Clients :
            /\ gone[d] # "no" => gone'[d] # "no"
            /\ gone[d] = "reset" => gone'[d] = "reset"
            /\ request[d] # "none" => request'[d] # "none"
      BY DEF ClientEffect
  <2> QED
      BY <1>1, <2>1 DEF SeatInv, Reported
<1> QED
    BY <1>2, <1>5, <1>6, <1>7 DEF SeatInv, ClientEffect


-----------------------------------------------------------------------------
(* What the seats are the argument for *)

\* At the start there are no connections
LEMMA SeatInvInit == NetworkInit => SeatInv
<1> SUFFICES ASSUME NetworkInit PROVE SeatInv
    OBVIOUS
<1>1. PICK around \in Surroundings :
        /\ wait_fds = [s \in Elements |-> IF s = Past THEN around.fd ELSE Free]
        /\ revents = [s \in Elements |-> IF s = Past THEN around.revents ELSE "none"]
    BY DEF NetworkInit, ServerInit
<1>2. around \in Surrounding
    BY ServerAssumption
<1>3. around.fd \in {Free, Garbage} /\ around.revents \in {"none", "in"}
    BY <1>2 DEF Surrounding
<1>4. \A s \in Elements : wait_fds[s] \notin Clients
    BY <1>1, <1>3, ServerAssumption
<1>5. Past \in Elements /\ Past \notin Slots /\ Slots \subseteq Elements
    BY ServerAssumption DEF Elements, Slots, Past
<1>6. BacklogDistinct /\ SeatsDistinct /\ PlacedOnce
    BY <1>4 DEF BacklogDistinct, SeatsDistinct, PlacedOnce, Pending, Seated, Joined, NetworkInit, ServerInit
<1>7. PollStarts /\ Reported
    BY <1>1, <1>3, <1>4, <1>5 DEF PollStarts, Reported, NetworkInit, ServerInit
<1> QED
    BY <1>6, <1>7 DEF SeatInv

\* Server and clients keep the places of the connections
LEMMA SeatInvStep == NetworkInv /\ SeatInv /\ [NetworkNext]_networkVars => SeatInv'
<1> SUFFICES ASSUME NetworkInv, SeatInv, [NetworkNext]_networkVars
             PROVE  SeatInv'
    OBVIOUS
<1>1. NetworkTypeOK /\ Calling /\ ServerInv
    BY DEF NetworkInv, ServerInv, NetworkTypeOK
<1>2. CASE ServerStep \/ ServerFails \/ Signal
    BY <1>1, <1>2, ServerKeepsSeats DEF ServerStep, ServerFails, Signal, clientVars
<1>3. ASSUME NEW c \in Clients,
             ClientStep(c) \/ ConnectLeaks(c) \/ Crash(c) \/ Break(c) \/ Vanish(c)
      PROVE  SeatInv'
    BY <1>1, <1>3, ClientStepEffect, ClientKeepsSeats DEF SeatInv
<1>4. CASE UNCHANGED networkVars
    BY <1>4, QuietKeepsSeats DEF networkVars, serverVars, socketVars, clientVars, seatVars
<1> QED
    BY <1>2, <1>3, <1>4 DEF NetworkNext

\* Each connection is in its place in every reachable state
THEOREM SeatInvariance == NetworkSpec => []SeatInv
<1>1. NetworkInv /\ SeatInv /\ [NetworkNext]_networkVars => SeatInv'
    BY SeatInvStep
<1> QED
    BY <1>1, SeatInvInit, NetworkInvariance, PTL DEF NetworkSpec

\* Every connection the server has is in one element of wait_fds, until it is
\* closed or the client never used it: none is forgotten or handled twice,
\* for any number of clients and slots and any order of arrivals and closings
THEOREM HeldOnceCorrectness == NetworkSpec => []HeldOnce
<1>1. ASSUME SeatInv
      PROVE  HeldOnce
  <2> SUFFICES ASSUME NEW c \in Clients
               PROVE  Cardinality(Holding(c)) =
                        IF Joined(c) /\ serverEnd[c] = "open" /\ ~Pending(c) THEN 1 ELSE 0
      BY DEF HeldOnce, Joined
  <2>1. CASE Seated(c)
    <3>1. PICK s \in Elements : wait_fds[s] = c
        BY <2>1 DEF Seated
    <3>2. Holding(c) = {s}
        BY <1>1, <3>1 DEF Holding, SeatInv, SeatsDistinct
    <3>3. Cardinality(Holding(c)) = 1
        BY <3>2, FS_Singleton
    <3> QED
        BY <1>1, <2>1, <3>3 DEF SeatInv, PlacedOnce
  <2>2. CASE ~Seated(c)
    <3>1. Holding(c) = {}
        BY <2>2 DEF Seated, Holding
    <3>2. Cardinality(Holding(c)) = 0
        BY <3>1, FS_EmptySet
    <3> QED
        BY <1>1, <2>2, <3>2 DEF SeatInv, PlacedOnce
  <2> QED
      BY <2>1, <2>2
<1> QED
    BY <1>1, SeatInvariance, PTL

\* The server waits in recv() only for a client that has begun a request, but
\* for the standard input and the element past the array: what poll() reported
\* stays true until the loop comes to it, whoever else it serves before
THEOREM WaitsCorrectness == NetworkSpec => []WaitsForStarted
<1>1. ASSUME NetworkInv, SeatInv
      PROVE  WaitsForStarted
  <2> SUFFICES ASSUME NEW s \in Elements, Waiting(s), s # Past
               PROVE  request[wait_fds[s]] = "header" \/ stdin = "readable"
      BY DEF WaitsForStarted
  <2>1. s \in Slots
      BY ServerAssumption DEF Elements, Slots, Past
  <2>2. /\ s >= at /\ wait_fds[s] \in Clients /\ revents[s] = "in"
        /\ request[wait_fds[s]] \in {"none", "header"} /\ gone[wait_fds[s]] = "no"
      BY DEF Waiting, Reading, Turn, Due
  <2> QED
      BY <1>1, <2>1, <2>2 DEF SeatInv, Reported
<1> QED
    BY <1>1, NetworkInvariance, SeatInvariance, PTL

\* The server closes a connection for a reason of the client's, of accept() or of
\* the standard input, and of nobody else
THEOREM ClosingCorrectness == NetworkSpec => ClosedForCause
<1> DEFINE Caused ==
        \A c \in Clients :
            serverEnd'[c] # serverEnd[c] =>
                \/ gone[c] # "no"
                \/ reply'[c] = "error"
                \/ Pending(c)
                \/ stdin = "hungup"
<1>1. ASSUME NetworkInv, SeatInv, [NetworkNext]_networkVars
      PROVE  Caused
  <2> USE <1>1
  <2>1. NetworkTypeOK /\ Calling /\ ServerTypeOK /\ AcceptReady
      BY DEF NetworkInv, NetworkTypeOK
  <2>2. CASE UNCHANGED serverEnd
      BY <2>2
  <2>3. CASE AcceptFails
    <3>1. backlog # << >>
        BY <2>1, <2>3 DEF AcceptFails, AcceptReady
    <3>2. Head(backlog) = backlog[1] /\ 1 \in 1 .. Len(backlog)
        BY <2>1, <3>1 DEF ServerTypeOK
    <3> QED
        BY <2>1, <2>3, <3>2 DEF AcceptFails, Pending, ServerTypeOK
  <2>4. ASSUME NEW s \in Elements, CloseUnread(s)
        PROVE  Caused
    <3> SUFFICES ASSUME NEW c \in Clients, c = wait_fds[s]
                 PROVE  gone[c] # "no" \/ stdin = "hungup"
        BY <2>1, <2>4 DEF CloseUnread, ServerTypeOK
    <3>1. s >= at /\ Unreadable(s)
        BY <2>4 DEF CloseUnread, Turn, Due
    <3>2. CASE revents[s] = "hup"
      <4>1. s \in Slots
          BY <3>2, ServerAssumption DEF SeatInv, PollStarts, Elements, Slots, Past
      <4> QED
          BY <3>1, <3>2, <4>1 DEF SeatInv, Reported
    <3> QED
        BY <3>1, <3>2 DEF Unreadable
  <2>5. ASSUME NEW s \in Elements, StoreResultFails(s)
        PROVE  Caused
      BY <2>1, <2>5 DEF StoreResultFails, ServerTypeOK
  <2>6. ASSUME NEW s \in Elements, Interrupt(s)
        PROVE  Caused
    <3>1. \/ UNCHANGED serverEnd
          \/ /\ serverEnd' = [serverEnd EXCEPT ![wait_fds[s]] = "closed"]
             /\ reply' = [reply EXCEPT ![wait_fds[s]] = "error"]
        BY <2>6 DEF Interrupt
    <3> QED
        BY <2>1, <3>1 DEF ServerTypeOK
  <2>7. ASSUME ServerStep \/ ServerFails \/ Signal,
               ~AcceptFails, \A s \in Elements : ~(CloseUnread(s) \/ StoreResultFails(s) \/ Interrupt(s))
        PROVE  UNCHANGED serverEnd
    <3>1. Poll \/ Accept \/ EndScan \/ Stop \/ Shutdown => UNCHANGED serverEnd
        BY DEF Poll, Accept, EndScan, Stop, Shutdown, socketVars
    <3>2. \A s \in Elements : ReadBroken(s) \/ StoreResult(s) => UNCHANGED serverEnd
        BY DEF ReadBroken, StoreResult, socketVars
    <3>3. \A s \in Elements, f \in Functions : Answer(s, f) \/ AnswerCut(s, f) \/ Block(s, f) => UNCHANGED serverEnd
        BY DEF Answer, AnswerCut, Handles, Block, socketVars
    <3> QED
        BY <2>7, <3>1, <3>2, <3>3 DEF ServerStep, ServerFails, Signal, Serve, ServeFailing
  <2>8. ASSUME NEW c \in Clients,
               ClientStep(c) \/ ConnectLeaks(c) \/ Crash(c) \/ Break(c) \/ Vanish(c)
        PROVE  UNCHANGED serverEnd
      BY <2>1, <2>8, ClientStepEffect DEF ClientEffect, SeatInv
  <2>9. UNCHANGED networkVars => UNCHANGED serverEnd
      BY DEF networkVars, socketVars
  <2> QED
      BY <2>2, <2>3, <2>4, <2>5, <2>6, <2>7, <2>8, <2>9 DEF NetworkNext
<1> QED
    BY <1>1, NetworkInvariance, SeatInvariance, PTL DEF NetworkSpec, ClosedForCause

=============================================================================
