----------------------------- MODULE P2PServer -----------------------------
(***************************************************************************)
(* The server of the peer-to-peer protocol (src/p2p/sdsp2pserver.cpp): one *)
(* thread that polls its listening socket and the connections it accepted, *)
(* and handles one request at a time with blocking reads.  A connection is *)
(* named by its client; what its two ends may do with it is the state of   *)
(* the sockets below.                                                      *)
(*                                                                         *)
(* The loops over wait_fds run one element past the array: Past is that    *)
(* element, whatever memory it is.  Free elements have the descriptor 0,   *)
(* so poll() reports the standard input for them.                          *)
(***************************************************************************)
EXTENDS Integers, Sequences, FiniteSets

CONSTANTS
    Clients,     \* the connections other nodes make to this one
    Free,        \* 0 in wait_fds
    Failed,      \* -1, which accept() returns when it fails
    Garbage,     \* what memory past wait_fds may hold, a descriptor of nothing
    MaxClients,  \* MAX_CLIENT_COUNT, 100 in the code
    Surroundings \* what the server may start with: see Surrounding

\* The standard input, and the memory past wait_fds
Surrounding ==
    [stdin : {"quiet", "readable", "hungup"}, fd : {Free, Garbage}, revents : {"none", "in"}]

ASSUME ServerAssumption ==
    /\ Surroundings \subseteq Surrounding
    /\ MaxClients \in Nat \ {0}
    /\ IsFiniteSet(Clients)
    /\ {Free, Failed, Garbage} \cap Clients = {}
    /\ Free # Failed /\ Free # Garbage /\ Failed # Garbage

VARIABLES
    pc,             \* "poll", "accept", "scan", "blocked", "dead" or "stopped"
    running,        \* cleared by the handler of SIGINT
    wait_fds,       \* Free, Failed, Garbage or a connection
    events,         \* the elements that ask for POLLIN
    revents,        \* what the last poll() reported of each element
    at,             \* the element the loop over wait_fds comes to next
    clients_count,
    locked,         \* storeResult threw, and the mutex of LocalNode stays locked
    stdin           \* the standard input: "quiet", "readable" or "hungup"

serverVars == <<pc, running, wait_fds, events, revents, at, clients_count, locked, stdin>>

VARIABLES
    backlog,    \* connections that wait for accept()
    request,    \* what the server has to read: "none", "header" or the function
    reply,      \* what the client has to read: "none", "whole", "cut" or "error"
    gone,       \* the client's end: "no", "fin" (closed) or "reset" (broken)
    serverEnd   \* the server's end: "open" or "closed"

socketVars == <<backlog, request, reply, gone, serverEnd>>

Slots == 1 .. MaxClients
Past == MaxClients + 1
Elements == 1 .. Past

Functions == {"ping", "findNode", "storeResult", "findResults"}

-----------------------------------------------------------------------------
(* poll() *)

\* Mutant of ReportOf: a connection that can be written is reported as well
ReportOfAll(s) ==
    IF wait_fds[s] = Failed THEN "none"
    ELSE IF wait_fds[s] = Free
    THEN IF stdin = "hungup" THEN "hup" ELSE IF stdin = "readable" /\ s \in events THEN "in" ELSE "none"
    ELSE IF gone[wait_fds[s]] = "reset" THEN "hup" ELSE "in"

\* What poll() says of an element of the array
ReportOf(s) ==
    LET c == wait_fds[s]
    IN  IF c \in Clients
        THEN IF gone[c] = "reset" THEN "hup"
             ELSE IF gone[c] = "fin" \/ request[c] # "none" THEN "in" ELSE "none"
        ELSE IF c # Free THEN "none"
        ELSE IF stdin = "hungup" THEN "hup"
        ELSE IF stdin = "readable" /\ s \in events THEN "in" ELSE "none"

\* Mutant of Poll: a connection is accepted whether there is a slot or not
PollUnlimited ==
    /\ pc = "poll"
    /\ running
    /\ pc' = IF backlog # << >> THEN "accept" ELSE "scan"
    /\ revents' = [s \in Elements |-> IF s \in Slots THEN ReportOf(s) ELSE revents[s]]
    /\ UNCHANGED <<running, wait_fds, events, at, clients_count, locked, stdin, socketVars>>

\* poll() returns: with nothing to report, the loop begins again, as it does
\* when a connection waits and there is no slot.  Past is not polled.
Poll ==
    /\ pc = "poll"
    /\ running
    /\ pc' = IF backlog # << >>
             THEN IF clients_count >= MaxClients THEN "poll" ELSE "accept"
             ELSE IF \E s \in Slots : ReportOf(s) # "none" THEN "scan" ELSE "poll"
    /\ revents' = [s \in Elements |-> IF s \in Slots /\ pc' # "poll" THEN ReportOf(s) ELSE revents[s]]
    /\ UNCHANGED <<running, wait_fds, events, at, clients_count, locked, stdin, socketVars>>

\* Mutant of FirstFree: the loop goes on after it stored the connection
AllFree == {s \in Elements : wait_fds[s] = Free}

\* The elements whose descriptor is 0, the first of which takes a connection
FirstFree == {s \in Elements : wait_fds[s] = Free /\ \A r \in 1 .. (s - 1) : wait_fds[r] # Free}

Take(fd) ==
    /\ wait_fds' = [s \in Elements |-> IF s \in FirstFree THEN fd ELSE wait_fds[s]]
    /\ events' = events \cup FirstFree
    /\ clients_count' = clients_count + Cardinality(FirstFree)

Accept ==
    /\ pc = "accept"
    /\ pc' = "scan"
    /\ Take(Head(backlog))
    /\ backlog' = Tail(backlog)
    /\ UNCHANGED <<running, revents, at, locked, stdin, request, reply, gone, serverEnd>>

\* accept() fails, for want of descriptors or of the connection: -1 is stored
AcceptFails ==
    /\ pc = "accept"
    /\ pc' = "scan"
    /\ Take(Failed)
    /\ \/ UNCHANGED <<backlog, request, serverEnd>>
       \/ /\ backlog' = Tail(backlog)
          /\ request' = [request EXCEPT ![Head(backlog)] = "none"]
          /\ serverEnd' = [serverEnd EXCEPT ![Head(backlog)] = "closed"]
    /\ UNCHANGED <<running, revents, at, locked, stdin, reply, gone>>

-----------------------------------------------------------------------------
(* The loop over wait_fds, and handleRequest *)

\* Mutant of Due: the loop begins one element late
DueAfterFirst(s) ==
    /\ s >= at
    /\ s > 1
    /\ revents[s] # "none"
    /\ wait_fds[s] \in Clients \cup {Garbage}

\* An element the loop has still to serve
Due(s) ==
    /\ s >= at
    /\ revents[s] # "none"
    /\ wait_fds[s] \in Clients \cup {Garbage}

Turn(s) == Due(s) /\ \A r \in Elements : Due(r) => s <= r

\* poll() will overwrite what it reported: none of it is kept
EndScan ==
    /\ pc = "scan"
    /\ \A s \in Elements : ~Due(s)
    /\ pc' = "poll"
    /\ revents' = [s \in Elements |-> IF s = Past THEN revents[s] ELSE "none"]
    /\ at' = 1
    /\ UNCHANGED <<running, wait_fds, events, clients_count, locked, stdin, socketVars>>

\* Mutant of FreeSlot: the count is not kept
FreeUncounted(s) ==
    /\ wait_fds' = [wait_fds EXCEPT ![s] = Free]
    /\ revents' = [revents EXCEPT ![s] = "none"]
    /\ UNCHANGED clients_count

\* The end of the loop's body
FreeSlot(s) ==
    /\ wait_fds' = [wait_fds EXCEPT ![s] = Free]
    /\ revents' = [revents EXCEPT ![s] = "none"]
    /\ clients_count' = clients_count - 1

\* Mutant of Unreadable: the arguments are not waited for
UnreadableShort(s) ==
    wait_fds[s] \in Clients =>
        LET c == wait_fds[s]
        IN  revents[s] = "hup" \/ gone[c] = "reset" \/ request[c] = "header"

\* The client left, the standard input hung up while the element was free, what
\* the client sent is incomplete, or recv() fails, as it does on Garbage
Unreadable(s) ==
    wait_fds[s] \in Clients =>
        LET c == wait_fds[s]
        IN  revents[s] = "hup" \/ gone[c] = "reset" \/ (gone[c] = "fin" /\ request[c] \notin Functions)

\* The connection is closed without a request
CloseUnread(s) ==
    /\ pc = "scan"
    /\ Turn(s)
    /\ Unreadable(s)
    /\ serverEnd' = [c \in Clients |-> IF c = wait_fds[s] THEN "closed" ELSE serverEnd[c]]
    /\ request' = [c \in Clients |-> IF c = wait_fds[s] THEN "none" ELSE request[c]]
    /\ FreeSlot(s)
    /\ at' = s + 1
    /\ UNCHANGED <<pc, running, events, locked, stdin, backlog, reply, gone>>

\* handleRequest reads this connection
Reading(s) ==
    /\ pc = "scan"
    /\ Turn(s)
    /\ wait_fds[s] \in Clients
    /\ revents[s] = "in"

\* recv() answers -1 in the loop that reads the arguments, taken for a size
ReadBroken(s) ==
    /\ Reading(s)
    /\ gone[wait_fds[s]] = "reset"
    /\ request[wait_fds[s]] = "header"
    /\ pc' = "dead"
    /\ UNCHANGED <<running, wait_fds, events, revents, at, clients_count, locked, stdin, socketVars>>

\* recv() has nothing to return, and waits
Waiting(s) ==
    /\ Reading(s)
    /\ request[wait_fds[s]] \in {"none", "header"}
    /\ gone[wait_fds[s]] = "no"

\* A whole request has been read
Readable(s, f) ==
    /\ Reading(s)
    /\ request[wait_fds[s]] = f

\* ping, findNode or findResults is handled; all but ping need the mutex
Handles(s, f) ==
    /\ f # "storeResult"
    /\ Readable(s, f)
    /\ f # "ping" => ~locked
    /\ request' = [request EXCEPT ![wait_fds[s]] = "none"]
    /\ at' = s + 1
    /\ UNCHANGED <<running, wait_fds, events, revents, clients_count, locked, stdin, backlog, serverEnd>>

\* The reply has a body, which is sent on its own: to write twice to a client
\* that has gone may end the process (SIGPIPE)
Answer(s, f) ==
    /\ Handles(s, f)
    /\ LET c == wait_fds[s]
       IN  /\ reply' = IF gone[c] = "no" THEN [reply EXCEPT ![c] = "whole"] ELSE reply
           /\ pc' \in CASE gone[c] = "no" -> {pc}
                         [] gone[c] = "fin" -> {pc, "dead"}
                         [] gone[c] = "reset" -> {"dead"}
    /\ UNCHANGED gone

\* The connection breaks between the header and the body
AnswerCut(s, f) ==
    /\ Handles(s, f)
    /\ LET c == wait_fds[s]
       IN  /\ gone[c] = "no"
           /\ reply' = [reply EXCEPT ![c] = "cut"]
           /\ gone' = [gone EXCEPT ![c] = "reset"]
    /\ UNCHANGED pc

\* storeResult has a header for a reply
StoreResult(s) ==
    /\ Readable(s, "storeResult")
    /\ ~locked
    /\ LET c == wait_fds[s]
       IN  /\ request' = [request EXCEPT ![c] = "none"]
           /\ reply' = IF gone[c] = "no" THEN [reply EXCEPT ![c] = "whole"] ELSE reply
    /\ at' = s + 1
    /\ UNCHANGED <<pc, running, wait_fds, events, revents, clients_count, locked, stdin, backlog, gone, serverEnd>>

\* LocalNode::storeResult throws with the mutex locked: the handler catches it,
\* answers an error, and the connection is closed
StoreResultFails(s) ==
    /\ Readable(s, "storeResult")
    /\ ~locked
    /\ locked' = TRUE
    /\ LET c == wait_fds[s]
       IN  /\ request' = [request EXCEPT ![c] = "none"]
           /\ reply' = IF gone[c] = "no" THEN [reply EXCEPT ![c] = "error"] ELSE reply
           /\ serverEnd' = [serverEnd EXCEPT ![c] = "closed"]
    /\ FreeSlot(s)
    /\ at' = s + 1
    /\ UNCHANGED <<pc, running, events, stdin, backlog, gone>>

\* A handler waits for a mutex that its own thread left locked
Block(s, f) ==
    /\ f # "ping"
    /\ Readable(s, f)
    /\ locked
    /\ pc' = "blocked"
    /\ UNCHANGED <<running, wait_fds, events, revents, at, clients_count, locked, stdin, socketVars>>

-----------------------------------------------------------------------------
(* SIGINT *)

\* The handler, in the thread of the server or in another
Shutdown ==
    /\ running
    /\ pc \notin {"dead", "stopped"}
    /\ running' = FALSE
    /\ UNCHANGED <<pc, wait_fds, events, revents, at, clients_count, locked, stdin, socketVars>>

\* The signal interrupts recv(), which answers -1: as an incomplete request when
\* it waits for a header, as a size when it waits for the arguments
Interrupt(s) ==
    /\ running
    /\ running' = FALSE
    /\ Waiting(s)
    /\ LET c == wait_fds[s]
       IN  \/ /\ request[c] = "none"
              /\ reply' = [reply EXCEPT ![c] = "error"]
              /\ serverEnd' = [serverEnd EXCEPT ![c] = "closed"]
              /\ FreeSlot(s)
              /\ at' = s + 1
              /\ UNCHANGED pc
           \/ /\ request[c] = "header"
              /\ pc' = "dead"
              /\ UNCHANGED <<wait_fds, revents, at, clients_count, reply, serverEnd>>
    /\ UNCHANGED <<events, locked, stdin, backlog, request, gone>>

Stop ==
    /\ pc = "poll"
    /\ ~running
    /\ pc' = "stopped"
    /\ UNCHANGED <<running, wait_fds, events, revents, at, clients_count, locked, stdin, socketVars>>

ServerInit ==
    /\ pc = "poll"
    /\ running = TRUE
    /\ \E around \in Surroundings :
        /\ stdin = around.stdin
        /\ wait_fds = [s \in Elements |-> IF s = Past THEN around.fd ELSE Free]
        /\ revents = [s \in Elements |-> IF s = Past THEN around.revents ELSE "none"]
    /\ events = {}
    /\ at = 1
    /\ clients_count = 0
    /\ locked = FALSE
    /\ backlog = << >>
    /\ request = [c \in Clients |-> "none"]
    /\ reply = [c \in Clients |-> "none"]
    /\ gone = [c \in Clients |-> "no"]
    /\ serverEnd = [c \in Clients |-> "open"]

\* The thread of the server
Serve ==
    \/ Poll \/ Accept \/ EndScan \/ Stop
    \/ \E s \in Elements :
        \/ CloseUnread(s) \/ ReadBroken(s) \/ StoreResult(s)
        \/ \E f \in Functions : Answer(s, f) \/ Block(s, f)

\* The faults it may meet
ServeFailing ==
    \/ AcceptFails
    \/ \E s \in Elements :
        StoreResultFails(s) \/ \E f \in Functions : AnswerCut(s, f)

-----------------------------------------------------------------------------
ServerTypeOK ==
    /\ pc \in {"poll", "accept", "scan", "blocked", "dead", "stopped"}
    /\ running \in BOOLEAN
    /\ wait_fds \in [Elements -> Clients \cup {Free, Failed, Garbage}]
    /\ events \subseteq Elements
    /\ revents \in [Elements -> {"none", "in", "hup"}]
    /\ at \in 1 .. Past + 1
    /\ clients_count \in -1 .. MaxClients
    /\ locked \in BOOLEAN
    /\ stdin \in {"quiet", "readable", "hungup"}
    /\ backlog \in Seq(Clients)
    /\ request \in [Clients -> Functions \cup {"none", "header"}]
    /\ reply \in [Clients -> {"none", "whole", "cut", "error"}]
    /\ gone \in [Clients -> {"no", "fin", "reset"}]
    /\ serverEnd \in [Clients -> {"open", "closed"}]

\* clients_count is the number of the elements in use, or one less when the
\* memory past the array counts as one: the server never takes more clients
\* than it has elements for, and no slot is given up unused.
CountsSlots ==
    LET used == Cardinality({s \in Elements : wait_fds[s] # Free})
    IN  clients_count \in {used - 1, used}
=============================================================================
