----------------------------- MODULE Transports -----------------------------
(***************************************************************************)
(* How a node gets its connections: a socket of its own                    *)
(* (src/net/netutil.c), the SOCKS5 proxy of Tor (src/net/socks5.c), the    *)
(* SAM bridge of I2P (src/net/libsam3.c), and the control port of Tor      *)
(* (src/net/tor.c).  A call is a sequence of exchanges, each a request     *)
(* that is sent over a socket and a reply that is read from it, and any of *)
(* them may fail.                                                          *)
(***************************************************************************)
EXTENDS Naturals, Sequences

VARIABLES
    route,   \* the call that is made, or "none"
    step,    \* which of its exchanges is next
    open,    \* the sockets that are open
    ended    \* "no", or how the call ended: "ok", "error" or "hung", and "closed"

callVars == <<route, step, open, ended>>

Exchange(socket, what) == [socket |-> socket, what |-> what]

\* Every connection to the SAM bridge begins with a greeting
Hello(socket) == Exchange(socket, "hello")

\* The calls of libsam3
CreateSession == <<Hello("session"), Exchange("session", "create"), Exchange("session", "me")>>
NameLookup == <<Hello("query"), Exchange("query", "lookup")>>
GenerateKeys == <<Hello("query"), Exchange("query", "generate")>>
StreamConnect == <<Hello("stream"), Exchange("stream", "connect")>>
StreamForward == <<Hello("forward"), Exchange("forward", "forward")>>

\* The exchanges with Tor
ProtocolInfo == Exchange("control", "info")
AuthChallenge == Exchange("control", "challenge")
Authenticate == Exchange("control", "authenticate")
AddOnion == Exchange("control", "add")

Socks == <<Exchange("proxy", "method"), Exchange("proxy", "request")>>
Direct == <<Exchange("tcp", "none")>>

\* newConnection() of a client, and what main calls to have a hidden service
Calls ==
    [direct      |-> Direct,
     socks       |-> Socks,
     i2p         |-> CreateSession \o StreamConnect,
     i2pName     |-> CreateSession \o NameLookup \o StreamConnect,
     keys        |-> GenerateKeys,
     forward     |-> CreateSession \o StreamForward,
     onion       |-> <<Authenticate, AddOnion>>,
     onionCookie |-> <<ProtocolInfo, AuthChallenge, Authenticate, AddOnion>>]

ClientCalls == {"direct", "socks", "i2p", "i2pName"}

Now == Calls[route][step]

OverSam == Now.socket \in {"session", "stream", "query", "forward"}

-----------------------------------------------------------------------------
(* What the SAM bridge may reply: whether the first two words are those of
   the reply that is due, the field RESULT, and the field that is asked for *)

SamReplies ==
    [words : BOOLEAN, result : {"OK", "error", "missing"}, value : {"whole", "short", "missing"}]

\* sam3IsGoodReply(), which takes a field that is not there for a good one
IsGoodReply(rep) == rep.words /\ rep.result # "error"

\* The reply lets the call go on.  sam3GenerateKeys() notes that a reply is bad
\* and goes on.
Accepted(what, rep) ==
    CASE what \in {"hello", "connect", "forward"} -> IsGoodReply(rep)
      [] what \in {"create", "me"}                -> IsGoodReply(rep) /\ rep.value = "whole"
      [] what = "lookup"   -> rep.words /\ rep.result = "OK" /\ rep.value = "whole"
      [] what = "generate" -> rep.value # "missing"

\* A field that is not there is used as a string
Crashes(what, rep) ==
    \/ what = "lookup" /\ rep.words /\ rep.result = "missing"
    \/ what = "generate" /\ rep.value = "missing"

-----------------------------------------------------------------------------
(* The ends of a call *)

\* Mutant of ClosedOnError: the session stays when its second connection fails
ClosedOnErrorOne(what) == {Now.socket}

\* What is closed when an exchange fails: its socket and, by newConnection(), the
\* session it needed.  A forward that fails is not closed.
ClosedOnError(what) ==
    CASE what = "forward"                              -> {}
      [] route \in ClientCalls /\ Now.socket # "proxy" -> {Now.socket, "session"}
      [] OTHER                                         -> {Now.socket}

Fail(closed) ==
    /\ ended' = "error"
    /\ open' = open \ closed
    /\ UNCHANGED <<route, step>>

\* The next exchange; a query is closed when it is answered
GoOn ==
    /\ open' = IF Now.what \in {"lookup", "generate"} THEN open \ {Now.socket} ELSE open
    /\ IF step = Len(Calls[route])
       THEN ended' = "ok" /\ UNCHANGED step
       ELSE step' = step + 1 /\ UNCHANGED ended
    /\ UNCHANGED route

-----------------------------------------------------------------------------
(* The steps of a call *)

Unconnected == ended = "no" /\ route # "none" /\ Now.socket \notin open

Call(r) ==
    /\ route = "none"
    /\ route' = r
    /\ step' = 1
    /\ UNCHANGED <<open, ended>>

\* A socket of its own needs no exchange
Connect ==
    /\ Unconnected
    /\ open' = open \cup {Now.socket}
    /\ IF route = "direct" THEN ended' = "ok" ELSE UNCHANGED ended
    /\ UNCHANGED <<route, step>>

\* No socket, no such host, or refused.  The functions of SAM close what they
\* opened; newConnection() closes the session of a stream or a query.
ConnectFails == Unconnected /\ Fail(IF route \in ClientCalls THEN {"session"} ELSE {})

\* net_socket_connect(), socks5_connect() and tor_add_onion() return without
\* closing the socket: always but for a timeout or an error that is reported late
ConnectLeaks ==
    /\ Unconnected
    /\ ~OverSam
    /\ ended' = "error"
    /\ open' = open \cup {Now.socket}
    /\ UNCHANGED <<route, step>>

Waiting == ended = "no" /\ route \notin {"none", "direct"} /\ Now.socket \in open

\* A reply that is not one of SAM is good or it is not
Reply == Waiting /\ ~OverSam /\ GoOn

ReplyFails == Waiting /\ ~OverSam /\ Fail(ClosedOnError(Now.what))

SamReply(rep) ==
    /\ Waiting /\ OverSam
    /\ ~Crashes(Now.what, rep)
    /\ IF Accepted(Now.what, rep) THEN GoOn ELSE Fail(ClosedOnError(Now.what))

\* The connection is reset, or the line is too long: no reply
SamBroken ==
    /\ Waiting /\ OverSam
    /\ Now.what # "generate"
    /\ Fail(ClosedOnError(Now.what))

\* The bridge closes the connection: sam3tcpReceiveStr() peeks at its end for ever
SamHangs ==
    /\ Waiting /\ OverSam
    /\ ended' = "hung"
    /\ UNCHANGED <<route, step, open>>

\* Every process begins without
CallInit == route = "none" /\ step = 1 /\ open = {} /\ ended = "no"

\* The process ends, with all its sockets
CallOver == route' = "none" /\ step' = 1 /\ open' = {} /\ ended' = "no"

CallStep ==
    \/ Connect \/ ConnectFails \/ ConnectLeaks \/ Reply \/ ReplyFails \/ SamBroken \/ SamHangs
    \/ \E rep \in SamReplies : SamReply(rep)

-----------------------------------------------------------------------------
(* A client *)

\* closeConnection(): the connection itself; nobody closes a session
Connection == IF route \in {"i2p", "i2pName"} THEN "stream" ELSE Now.socket

Close ==
    /\ ended = "ok"
    /\ ended' = "closed"
    /\ open' = open \ {Connection}
    /\ UNCHANGED <<route, step>>

SomeReplyCrashes ==
    /\ Waiting /\ OverSam
    /\ \E rep \in SamReplies : Crashes(Now.what, rep)
    /\ CallOver

\* When a connection is over nothing of it stays open, but the session of an
\* I2P connection that came about, and a socket that was never connected.
OnlyKnownLeaks ==
    route \in ClientCalls =>
        /\ ended = "error" => open \subseteq (IF step = 1 THEN {Now.socket} \ {"session"} ELSE {})
        /\ ended = "closed" => open = (IF route \in {"i2p", "i2pName"} THEN {"session"} ELSE {})
=============================================================================
