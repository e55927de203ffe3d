----------------------------- MODULE P2PNetwork -----------------------------
(***************************************************************************)
(* The clients of the peer-to-peer server (src/p2p/sdsp2pclient.cpp), each *)
(* with one connection on which it makes the calls of its script, one      *)
(* after the other: a lookup pings and asks for nodes, a publisher pings   *)
(* and stores entries.  Neither side of a call has a timeout.              *)
(***************************************************************************)
EXTENDS P2PServer

CONSTANTS
    Scripts,     \* the calls of each client
    Backlog,     \* connections the kernel keeps for accept(), listen(fd, 3)
    MaxFaults    \* bound of the faults in one behaviour

ASSUME NetworkAssumption ==
    /\ Scripts \in [Clients -> Seq(Functions) \ {<< >>}]
    /\ Backlog \in Nat \ {0}
    /\ MaxFaults \in Nat

VARIABLES
    cpc,      \* where the client is: see ClientPlaces
    script,   \* what is left of its calls, the current one first
    misread,  \* history: the clients that took a cut reply for a good one
    faults

clientVars == <<cpc, script, misread, faults>>

networkVars == <<serverVars, socketVars, clientVars>>

\* "new" before the connection, then "header", "args" and "waiting" in a call;
\* "done" when the connection is closed or the client's process has ended,
\* "silent" when the client does no more and its connection stays
ClientPlaces == {"new", "header", "args", "waiting", "done", "silent"}

Connected == {c \in Clients : cpc[c] \in {"header", "args", "waiting"}}

\* The server's process has ended
Down == pc \in {"dead", "stopped"}

\* Nothing the client sends will be read
Broken(c) == gone[c] = "reset" \/ serverEnd[c] = "closed" \/ Down

Fault == faults < MaxFaults /\ faults' = faults + 1

-----------------------------------------------------------------------------
Connect(c) ==
    /\ cpc[c] = "new"
    /\ ~Down
    /\ Len(backlog) < Backlog
    /\ backlog' = Append(backlog, c)
    /\ cpc' = [cpc EXCEPT ![c] = "header"]
    /\ UNCHANGED <<serverVars, request, reply, gone, serverEnd, script, misread, faults>>

\* Refused, or not in time
ConnectFails(c) ==
    /\ cpc[c] = "new"
    /\ cpc' = [cpc EXCEPT ![c] = "done"]
    /\ UNCHANGED <<serverVars, socketVars, script, misread, faults>>

\* connect() succeeds at once, which net_socket_connect takes for a failure: the
\* connection is neither used nor closed
ConnectLeaks(c) ==
    /\ cpc[c] = "new"
    /\ ~Down
    /\ Len(backlog) < Backlog
    /\ Fault
    /\ backlog' = Append(backlog, c)
    /\ cpc' = [cpc EXCEPT ![c] = "silent"]
    /\ UNCHANGED <<serverVars, request, reply, gone, serverEnd, script, misread>>

-----------------------------------------------------------------------------
(* The end of a call *)

\* The client's object is destroyed, which closes the connection
CloseConnection(c) ==
    /\ cpc' = [cpc EXCEPT ![c] = "done"]
    /\ gone' = [gone EXCEPT ![c] = IF gone[c] = "no" THEN "fin" ELSE gone[c]]
    /\ script' = [script EXCEPT ![c] = << >>]

Proceed(c) ==
    IF Tail(script[c]) = << >> THEN CloseConnection(c)
    ELSE /\ cpc' = [cpc EXCEPT ![c] = "header"]
         /\ script' = [script EXCEPT ![c] = Tail(script[c])]
         /\ UNCHANGED gone

\* The call fails.  storeResult returns what the others throw, and its callers
\* do not look at it.
Errs(c) ==
    IF Head(script[c]) = "storeResult" THEN Proceed(c) ELSE CloseConnection(c)

\* SIGPIPE, or a write past a buffer, ends the client's process
Killed(c) == CloseConnection(c)

-----------------------------------------------------------------------------
(* sendRpcRequest *)

\* The next part of the request is sent.  On a broken connection, send() takes
\* it all the same, or fails, or ends the process.
Send(c, here, part, next) ==
    /\ cpc[c] = here
    /\ \/ /\ request' = IF Broken(c) THEN request ELSE [request EXCEPT ![c] = part]
          /\ cpc' = [cpc EXCEPT ![c] = next]
          /\ UNCHANGED <<gone, script>>
       \/ /\ Broken(c)
          /\ Errs(c) \/ Killed(c)
          /\ UNCHANGED request
    /\ UNCHANGED <<serverVars, backlog, reply, serverEnd, misread, faults>>

SendHeader(c) == Send(c, "header", "header", "args")

SendArgs(c) == Send(c, "args", Head(script[c]), "waiting")

\* The reply is whole, or an error
Receive(c) ==
    /\ cpc[c] = "waiting"
    /\ reply[c] \in {"whole", "error"}
    /\ reply' = [reply EXCEPT ![c] = "none"]
    /\ IF reply[c] = "whole" THEN Proceed(c) ELSE Errs(c)
    /\ UNCHANGED <<serverVars, backlog, request, serverEnd, misread, faults>>

\* The body never comes.  When recv() answers 0, the error is stored where
\* nobody looks, and the call is good, though ping finds no nonce in the reply;
\* when it answers -1, that is taken for a size.
ReceiveCut(c) ==
    /\ cpc[c] = "waiting"
    /\ reply[c] = "cut"
    /\ reply' = [reply EXCEPT ![c] = "none"]
    /\ \/ Killed(c) /\ UNCHANGED misread
       \/ Head(script[c]) = "ping" /\ Errs(c) /\ UNCHANGED misread
       \/ Head(script[c]) # "ping" /\ Proceed(c) /\ misread' = misread \cup {c}
    /\ UNCHANGED <<serverVars, backlog, request, serverEnd, faults>>

\* No reply comes, as the connection is broken
ReceiveNothing(c) ==
    /\ cpc[c] = "waiting"
    /\ reply[c] = "none"
    /\ Broken(c)
    /\ Errs(c)
    /\ UNCHANGED <<serverVars, backlog, request, reply, serverEnd, misread, faults>>

-----------------------------------------------------------------------------
(* Faults *)

\* The client's process is killed: what it has not read resets the connection
Crash(c) ==
    /\ Fault
    /\ c \in Connected
    /\ cpc' = [cpc EXCEPT ![c] = "done"]
    /\ script' = [script EXCEPT ![c] = << >>]
    /\ gone' = [gone EXCEPT ![c] = IF gone[c] = "no" /\ reply[c] = "none" THEN "fin" ELSE "reset"]
    /\ UNCHANGED <<serverVars, backlog, request, reply, serverEnd, misread>>

\* The network breaks the connection
Break(c) ==
    /\ Fault
    /\ c \in Connected
    /\ gone' = [gone EXCEPT ![c] = "reset"]
    /\ UNCHANGED <<serverVars, backlog, request, reply, serverEnd, cpc, script, misread>>

\* The client's host is lost, and nobody is told
Vanish(c) ==
    /\ Fault
    /\ c \in Connected
    /\ cpc' = [cpc EXCEPT ![c] = "silent"]
    /\ UNCHANGED <<serverVars, socketVars, script, misread>>

-----------------------------------------------------------------------------
NetworkInit ==
    /\ ServerInit
    /\ cpc = [c \in Clients |-> "new"]
    /\ script = Scripts
    /\ misread = {}
    /\ faults = 0

ClientStep(c) ==
    \/ Connect(c) \/ ConnectFails(c) \/ SendHeader(c) \/ SendArgs(c)
    \/ Receive(c) \/ ReceiveCut(c) \/ ReceiveNothing(c)

ServerStep == Serve /\ UNCHANGED clientVars

ServerFails == ServeFailing /\ Fault /\ UNCHANGED <<cpc, script, misread>>

Signal ==
    /\ Fault
    /\ Shutdown \/ \E s \in Elements : Interrupt(s)
    /\ UNCHANGED <<cpc, script, misread>>

NetworkNext ==
    \/ ServerStep \/ ServerFails
    \/ Signal
    \/ \E c \in Clients : ClientStep(c) \/ ConnectLeaks(c) \/ Crash(c) \/ Break(c) \/ Vanish(c)

\* The thread of the server and those of the clients run
NetworkSpec ==
    /\ NetworkInit
    /\ [][NetworkNext]_networkVars
    /\ WF_networkVars(ServerStep)
    /\ \A c \in Clients : WF_networkVars(ClientStep(c))

-----------------------------------------------------------------------------
NetworkTypeOK ==
    /\ ServerTypeOK
    /\ Len(backlog) <= Backlog
    /\ cpc \in [Clients -> ClientPlaces]
    /\ script \in [Clients -> Seq(Functions)]
    /\ misread \subseteq Clients
    /\ faults \in 0 .. MaxFaults

Holding(c) == {s \in Elements : wait_fds[s] = c}

Pending(c) == \E i \in 1 .. Len(backlog) : backlog[i] = c

\* Every connection the server has is in one element of wait_fds, until it is
\* closed or the client never used it: none is forgotten or handled twice,
\* whatever the order of arrivals, failures and closings.
HeldOnce ==
    \A c \in Clients :
        LET connected == cpc[c] # "new" /\ (cpc[c] = "done" => gone[c] # "no")
        IN  Cardinality(Holding(c)) =
                IF connected /\ serverEnd[c] = "open" /\ ~Pending(c) THEN 1 ELSE 0

\* The server waits in recv() for a client that has begun a request, so that
\* one that sends nothing holds up nobody: the exceptions are a standard input
\* that poll() reported for a free element, and the element past the array.
WaitsForStarted ==
    \A s \in Elements :
        Waiting(s) => request[wait_fds[s]] = "header" \/ stdin = "readable" \/ s = Past

\* The server closes a connection when the client's end is gone, when it has
\* told the client of an error, when accept() fails, or when the standard input
\* hung up: "the client will close them if needed" holds of all the others.
ClosedForCause ==
    [][\A c \in Clients :
        serverEnd'[c] # serverEnd[c] =>
            \/ gone[c] # "no"
            \/ reply'[c] = "error"
            \/ Pending(c)
            \/ stdin = "hungup"]_networkVars

\* A connection waits, and there is no slot for it
FullHouse == pc = "poll" /\ backlog # << >> /\ clients_count >= MaxClients

\* What can hold the server up for ever
HeldUp ==
    \/ pc \in {"blocked", "dead", "stopped"}
    \/ FullHouse
    \/ \E s \in Elements : Waiting(s) /\ cpc[wait_fds[s]] = "silent"

\* A whole request on a connection that is polled is taken up, whatever the
\* other clients do, unless the server is held up: by the mutex, by a full
\* house, by a client it waits for, or by its end.
RequestsTakenUp ==
    \A c \in Clients :
        (request[c] \in Functions /\ Holding(c) \cap Slots # {}) ~> (request[c] = "none" \/ HeldUp)

\* A reply of which only the header came is an error to the caller, as the
\* comment of sendRpcRequest has it ("logerror or send error").
CutReported == misread = {}
=============================================================================
