---------------------------- MODULE ServicesProofs ----------------------------
(***************************************************************************)
(* What holds of the calls of the transports and of the address of a       *)
(* hidden service, for any set of keys and any number of runs, and of the  *)
(* entries the crawler finds, for any pages and any answers of the search  *)
(* engines.                                                                *)
(*                                                                         *)
(* CallInv says which sockets are open at each exchange of a client's      *)
(* call, ServiceInv where the key of the service is while no part of it is *)
(* lost, and CrawlerInv of which urls and entries the lists of the crawler *)
(* are made: FindsHandedOver follows from it, as an entry goes to the end  *)
(* of two lists at once and leaves neither but for the other.              *)
(***************************************************************************)
EXTENDS HiddenService, WebCrawler, FiniteSetTheorems, TLAPS

vars == <<callVars, serviceVars>>

-----------------------------------------------------------------------------
(* The sockets of a client's call *)

I2PCalls == {"i2p", "i2pName"}

\* The session is there once its three exchanges are over
Held == IF route \in I2PCalls /\ step > 3 THEN {"session"} ELSE {}

\* Between two exchanges nothing is open but what the next one needs, and the
\* proxy stays connected from one exchange to the next
CallInv ==
    /\ route \in ClientCalls => step \in 1 .. Len(Calls[route])
    /\ route = "none" => open = {} /\ ended = "no" /\ step = 1
    /\ route \in ClientCalls /\ ended = "no" =>
            /\ Held \subseteq open /\ open \subseteq Held \cup {Now.socket}
            /\ route = "socks" /\ step = 2 => "proxy" \in open
    /\ route \in ClientCalls /\ ended = "ok" =>
            step = Len(Calls[route]) /\ open = Held \cup {Connection}
    /\ OnlyKnownLeaks

\* The exchanges of a client's call, one after the other
LEMMA ClientExchanges ==
    /\ Len(Calls["direct"]) = 1 /\ Calls["direct"][1].socket = "tcp"
    /\ Len(Calls["socks"]) = 2
    /\ \A i \in 1 .. 2 : /\ Calls["socks"][i].socket = "proxy"
                         /\ Calls["socks"][i].what \in {"method", "request"}
    /\ Len(Calls["i2p"]) = 5
    /\ \A i \in 1 .. 3 : /\ Calls["i2p"][i].socket = "session"
                         /\ Calls["i2p"][i].what \in {"hello", "create", "me"}
    /\ \A i \in 4 .. 5 : /\ Calls["i2p"][i].socket = "stream"
                         /\ Calls["i2p"][i].what \in {"hello", "connect"}
    /\ Len(Calls["i2pName"]) = 7
    /\ \A i \in 1 .. 3 : /\ Calls["i2pName"][i].socket = "session"
                         /\ Calls["i2pName"][i].what \in {"hello", "create", "me"}
    /\ Calls["i2pName"][4].socket = "query" /\ Calls["i2pName"][4].what = "hello"
    /\ Calls["i2pName"][5].socket = "query" /\ Calls["i2pName"][5].what = "lookup"
    /\ \A i \in 6 .. 7 : /\ Calls["i2pName"][i].socket = "stream"
                         /\ Calls["i2pName"][i].what \in {"hello", "connect"}
<1> USE DEF Calls, Exchange, Hello
<1>1. Len(Calls["direct"]) = 1 /\ Calls["direct"][1].socket = "tcp"
    BY DEF Direct
<1>2. /\ Len(Calls["socks"]) = 2
      /\ \A i \in 1 .. 2 : /\ Calls["socks"][i].socket = "proxy"
                           /\ Calls["socks"][i].what \in {"method", "request"}
    BY DEF Socks
<1>3. /\ Len(Calls["i2p"]) = 5
      /\ \A i \in 1 .. 3 : /\ Calls["i2p"][i].socket = "session"
                           /\ Calls["i2p"][i].what \in {"hello", "create", "me"}
    BY DEF CreateSession, StreamConnect
<1>4. \A i \in 4 .. 5 : /\ Calls["i2p"][i].socket = "stream"
                        /\ Calls["i2p"][i].what \in {"hello", "connect"}
    BY DEF CreateSession, StreamConnect
<1>5. /\ Len(Calls["i2pName"]) = 7
      /\ \A i \in 1 .. 3 : /\ Calls["i2pName"][i].socket = "session"
                           /\ Calls["i2pName"][i].what \in {"hello", "create", "me"}
    BY DEF CreateSession, NameLookup, StreamConnect
<1>6. /\ Calls["i2pName"][4].socket = "query" /\ Calls["i2pName"][4].what = "hello"
      /\ Calls["i2pName"][5].socket = "query" /\ Calls["i2pName"][5].what = "lookup"
    BY DEF CreateSession, NameLookup, StreamConnect
<1>7. \A i \in 6 .. 7 : /\ Calls["i2pName"][i].socket = "stream"
                        /\ Calls["i2pName"][i].what \in {"hello", "connect"}
    BY DEF CreateSession, NameLookup, StreamConnect
<1> QED
    BY <1>1, <1>2, <1>3, <1>4, <1>5, <1>6, <1>7

\* The same, of one exchange
LEMMA ExchangeIs ==
    ASSUME NEW r \in ClientCalls, NEW i \in 1 .. Len(Calls[r])
    PROVE  /\ i \in Nat /\ Len(Calls[r]) \in Nat
           /\ r = "direct" => i = 1 /\ Len(Calls[r]) = 1 /\ Calls[r][i].socket = "tcp"
           /\ r = "socks" => /\ i \in 1 .. 2 /\ Len(Calls[r]) = 2
                             /\ Calls[r][i].socket = "proxy"
                             /\ Calls[r][i].what \in {"method", "request"}
           /\ r = "i2p" => /\ i \in 1 .. 5 /\ Len(Calls[r]) = 5
                           /\ i <= 3 => Calls[r][i].socket = "session"
                           /\ i > 3 => Calls[r][i].socket = "stream"
                           /\ Calls[r][i].what \in {"hello", "create", "me", "connect"}
           /\ r = "i2pName" => /\ i \in 1 .. 7 /\ Len(Calls[r]) = 7
                               /\ i <= 3 => Calls[r][i].socket = "session"
                               /\ i \in 4 .. 5 => Calls[r][i].socket = "query"
                               /\ i > 5 => Calls[r][i].socket = "stream"
                               /\ i # 5 => Calls[r][i].what \in {"hello", "create", "me", "connect"}
                               /\ i = 5 => Calls[r][i].what = "lookup"
<1>1. CASE r = "direct"
    BY <1>1, ClientExchanges
<1>2. CASE r = "socks"
    BY <1>2, ClientExchanges
<1>3. CASE r = "i2p"
  <2>1. i \in 1 .. 5 /\ (i \in 1 .. 3 \/ i \in 4 .. 5)
      BY <1>3, ClientExchanges
  <2> QED
      BY <1>3, <2>1, ClientExchanges
<1>4. CASE r = "i2pName"
  <2>1. i \in 1 .. 7 /\ (i \in 1 .. 3 \/ i = 4 \/ i = 5 \/ i \in 6 .. 7)
      BY <1>4, ClientExchanges
  <2> QED
      BY <1>4, <2>1, ClientExchanges
<1> QED
    BY <1>1, <1>2, <1>3, <1>4 DEF ClientCalls

\* A step of a call may only go on, or end it
LEMMA CallStepEffect ==
    ASSUME CallStep
    PROVE  /\ route # "none" /\ route' = route
           /\ ended = "no" /\ ended' \in {"no", "ok", "error", "hung"}
           /\ step' \in {step, step + 1}
<1>1. CASE Connect
    BY <1>1 DEF Connect, Unconnected
<1>2. CASE ConnectFails
    BY <1>2 DEF ConnectFails, Unconnected, Fail
<1>3. CASE ConnectLeaks
    BY <1>3 DEF ConnectLeaks, Unconnected
<1>4. CASE Reply
    BY <1>4 DEF Reply, Waiting, GoOn
<1>5. CASE ReplyFails
    BY <1>5 DEF ReplyFails, Waiting, Fail
<1>6. CASE SamBroken
    BY <1>6 DEF SamBroken, Waiting, Fail
<1>7. CASE SamHangs
    BY <1>7 DEF SamHangs, Waiting
<1>8. CASE \E rep \in SamReplies : SamReply(rep)
    BY <1>8 DEF SamReply, Waiting, GoOn, Fail
<1> QED
    BY <1>1, <1>2, <1>3, <1>4, <1>5, <1>6, <1>7, <1>8 DEF CallStep

\* What the steps of a client's call do to its sockets: it is connected, it goes
\* on when it is answered, or it ends with what Fail and ConnectLeaks leave
LEMMA ClientStep ==
    ASSUME CallInv, CallStep, route \in ClientCalls
    PROVE  \/ Connect
           \/ ended' = "hung"
           \/ /\ Now.socket \notin open /\ ended' = "error" /\ step' = step
              /\ \/ open' = open \ {"session"}
                 \/ route \in {"direct", "socks"} /\ open' = open \cup {Now.socket}
           \/ Now.socket \in open /\ GoOn /\ route # "direct"
           \/ /\ Now.socket \in open /\ ended' = "error" /\ step' = step
              /\ open' = open \ (IF Now.socket = "proxy" THEN {Now.socket} ELSE {Now.socket, "session"})
<1>1. step \in 1 .. Len(Calls[route])
    BY DEF CallInv
<1>2. Now.what # "forward" \/ route = "direct"
    BY <1>1, ExchangeIs DEF ClientCalls, Now
<1>3. OverSam <=> route \in I2PCalls
    BY <1>1, ExchangeIs DEF ClientCalls, OverSam, Now, I2PCalls
<1>4. CASE ConnectFails
    BY <1>4 DEF ConnectFails, Unconnected, Fail
<1>5. CASE ConnectLeaks
    BY <1>3, <1>5 DEF ConnectLeaks, Unconnected, ClientCalls, I2PCalls
<1>6. CASE Reply
    BY <1>6 DEF Reply, Waiting
<1>7. ASSUME Fail(ClosedOnError(Now.what)), Waiting
      PROVE  /\ Now.socket \in open /\ ended' = "error" /\ step' = step
             /\ open' = open \ (IF Now.socket = "proxy" THEN {Now.socket} ELSE {Now.socket, "session"})
  <2>1. Now.what # "forward" /\ Now.socket \in open
      BY <1>2, <1>7 DEF Waiting
  <2>2. ClosedOnError(Now.what) = IF Now.socket = "proxy" THEN {Now.socket} ELSE {Now.socket, "session"}
      BY <2>1 DEF ClosedOnError
  <2> QED
      BY <1>7, <2>1, <2>2 DEF Fail
<1>8. CASE ReplyFails
    BY <1>7, <1>8 DEF ReplyFails
<1>9. CASE SamBroken
    BY <1>7, <1>9 DEF SamBroken
<1>10. CASE SamHangs
    BY <1>10 DEF SamHangs
<1>11. CASE \E rep \in SamReplies : SamReply(rep)
    BY <1>7, <1>11 DEF SamReply, Waiting
<1> QED
    BY <1>4, <1>5, <1>6, <1>8, <1>9, <1>10, <1>11 DEF CallStep

\* Every step of a call leaves the sockets as CallInv has them
LEMMA CallStepKeeps ==
    ASSUME CallInv, CallStep
    PROVE  CallInv'
<1>1. /\ route # "none" /\ route' = route /\ ended = "no"
    BY CallStepEffect
<1>2. CASE route \notin ClientCalls
    BY <1>1, <1>2 DEF CallInv, OnlyKnownLeaks
<1>3. CASE route \in ClientCalls
  <2>1. step \in 1 .. Len(Calls[route]) /\ Held \subseteq open /\ open \subseteq Held \cup {Now.socket}
        /\ (route = "socks" /\ step = 2 => "proxy" \in open)
      BY <1>1, <1>3 DEF CallInv
  <2>2. /\ route = "direct" => /\ step = 1 /\ Len(Calls[route]) = 1 /\ Now.socket = "tcp"
        /\ route = "socks" => /\ step \in 1 .. 2 /\ Len(Calls[route]) = 2 /\ Now.socket = "proxy"
                              /\ Now.what \notin {"lookup", "generate"}
        /\ route = "i2p" => /\ step \in 1 .. 5 /\ Len(Calls[route]) = 5
                            /\ step <= 3 => Now.socket = "session"
                            /\ step > 3 => Now.socket = "stream"
                            /\ Now.what \notin {"lookup", "generate"}
        /\ route = "i2pName" => /\ step \in 1 .. 7 /\ Len(Calls[route]) = 7
                                /\ step <= 3 => Now.socket = "session"
                                /\ step \in 4 .. 5 => Now.socket = "query"
                                /\ step > 5 => Now.socket = "stream"
                                /\ step # 5 => Now.what \notin {"lookup", "generate"}
                                /\ step = 5 => Now.what = "lookup"
      BY <1>3, <2>1, ExchangeIs DEF Now
  <2>3. CASE Connect
    <3>1. /\ Now.socket \notin open /\ open' = open \cup {Now.socket} /\ step' = step
          /\ ended' = IF route = "direct" THEN "ok" ELSE "no"
        BY <1>1, <2>3 DEF Connect, Unconnected
    <3>2. Now' = Now /\ Held' = Held
        BY <1>1, <3>1 DEF Now, Held
    <3> QED
        BY <1>1, <1>3, <2>1, <2>2, <3>1, <3>2
        DEF CallInv, OnlyKnownLeaks, Connection, ClientCalls, I2PCalls, Held
  <2>4. CASE ended' = "hung"
    <3>1. step' = step
        BY <2>4, CallStepEffect DEF CallStep, Connect, ConnectFails, ConnectLeaks, Reply, ReplyFails,
           SamBroken, SamHangs, SamReply, Fail, GoOn
    <3> QED
        BY <1>1, <1>3, <2>1, <2>4, <3>1 DEF CallInv, OnlyKnownLeaks
  <2>5. CASE /\ Now.socket \notin open /\ ended' = "error" /\ step' = step
             /\ \/ open' = open \ {"session"}
                \/ route \in {"direct", "socks"} /\ open' = open \cup {Now.socket}
    <3>1. Now' = Now
        BY <1>1, <2>5 DEF Now
    <3>2. Held \subseteq {"session"} /\ (route \notin I2PCalls => Held = {})
        BY DEF Held
    <3>3. CASE open' = open \ {"session"}
      <4>1. open' = {}
          BY <2>1, <2>5, <3>2, <3>3
      <4> QED
          BY <1>1, <1>3, <2>1, <2>5, <4>1 DEF CallInv, OnlyKnownLeaks
    <3>4. CASE route \in {"direct", "socks"} /\ open' = open \cup {Now.socket}
      <4>1. step = 1 /\ Now.socket # "session"
          BY <2>1, <2>2, <2>5, <3>4
      <4>2. open' = {Now.socket}
          BY <2>1, <2>5, <3>2, <3>4 DEF I2PCalls
      <4> QED
          BY <1>1, <1>3, <2>1, <2>5, <3>1, <4>1, <4>2 DEF CallInv, OnlyKnownLeaks
    <3> QED
        BY <2>5, <3>3, <3>4
  <2>6. CASE Now.socket \in open /\ GoOn /\ route # "direct"
    <3>1. open' = IF Now.what \in {"lookup", "generate"} THEN open \ {Now.socket} ELSE open
        BY <2>6 DEF GoOn
    <3>2. CASE step = Len(Calls[route])
      <4>1. ended' = "ok" /\ step' = step
          BY <2>6, <3>2 DEF GoOn
      <4>2. Now' = Now /\ Held' = Held /\ Connection' = Connection
          BY <1>1, <4>1 DEF Now, Held, Connection
      <4>3. open' = Held \cup {Connection}
        <5>1. Now.what \notin {"lookup", "generate"} /\ Connection = Now.socket
          <6>1. CASE route = "direct"
              BY <2>6, <6>1
          <6>2. CASE route = "socks"
              BY <2>2, <6>2 DEF Connection
          <6>3. CASE route = "i2p"
            <7>1. step = 5
                BY <2>2, <3>2, <6>3
            <7> QED
                BY <2>2, <6>3, <7>1 DEF Connection
          <6>4. CASE route = "i2pName"
            <7>1. step = 7
                BY <2>2, <3>2, <6>4
            <7> QED
                BY <2>2, <6>4, <7>1 DEF Connection
          <6> QED
              BY <1>3, <6>1, <6>2, <6>3, <6>4 DEF ClientCalls
        <5> QED
            BY <2>1, <2>6, <3>1, <5>1
      <4> QED
          BY <1>1, <1>3, <2>1, <3>2, <4>1, <4>2, <4>3 DEF CallInv, OnlyKnownLeaks, ClientCalls
    <3>3. CASE step # Len(Calls[route])
      <4>1. ended' = "no" /\ step' = step + 1 /\ step' \in 1 .. Len(Calls[route])
        <5>1. ended' = "no" /\ step' = step + 1
            BY <1>1, <2>6, <3>3 DEF GoOn
        <5>2. step \in 1 .. Len(Calls[route]) /\ Len(Calls[route]) \in Nat
            BY <1>3, <2>1, ExchangeIs
        <5> QED
            BY <3>3, <5>1, <5>2
      <4>2. Held' \subseteq open' /\ open' \subseteq Held' \cup {Now'.socket}
        <5>1. route \in {"socks", "i2p", "i2pName"}
            BY <1>3, <2>6 DEF ClientCalls
        <5>2. Now' = Calls[route][step + 1]
            BY <1>1, <4>1 DEF Now
        <5>3. Held' = IF route \in I2PCalls /\ step + 1 > 3 THEN {"session"} ELSE {}
            BY <1>1, <4>1 DEF Held
        <5>4. CASE route = "socks"
          <6>1. Held = {} /\ Held' = {}
              BY <5>3, <5>4 DEF Held, I2PCalls
          <6>2. Now'.socket = "proxy" /\ Now.socket = "proxy" /\ open' = open
              BY <1>3, <2>2, <3>1, <4>1, <5>2, <5>4, ExchangeIs
          <6> QED
              BY <2>1, <6>1, <6>2
        <5>5. CASE route = "i2p"
          <6>0. step \in 1 .. 5 /\ Len(Calls[route]) = 5
              BY <2>2, <5>5
          <6>5. Now.what \notin {"lookup", "generate"}
              BY <2>2, <5>5
          <6>6. step \in 1 .. 4
              BY <3>3, <6>0
          <6>1. step \in 1 .. 4 /\ open' = open
              BY <3>1, <6>5, <6>6
          <6>2. CASE step < 3
            <7>1. Held = {} /\ Held' = {}
                BY <5>3, <6>1, <6>2 DEF Held
            <7>2. Now.socket = "session" /\ Now'.socket = "session"
                BY <1>3, <2>2, <4>1, <5>2, <5>5, <6>1, <6>2, ExchangeIs
            <7> QED
                BY <2>1, <6>1, <7>1, <7>2
          <6>3. CASE step = 3
            <7>1. Held = {} /\ Held' = {"session"} /\ Now.socket = "session"
                BY <2>2, <5>3, <5>5, <6>3 DEF Held, I2PCalls
            <7> QED
                BY <2>1, <2>6, <6>1, <7>1
          <6>4. CASE step = 4
            <7>1. Held = {"session"} /\ Held' = {"session"}
                BY <5>3, <5>5, <6>4 DEF Held, I2PCalls
            <7>2. Now.socket = "stream" /\ Now'.socket = "stream"
                BY <1>3, <2>2, <4>1, <5>2, <5>5, <6>4, ExchangeIs
            <7> QED
                BY <2>1, <6>1, <7>1, <7>2
          <6> QED
              BY <6>1, <6>2, <6>3, <6>4
        <5>6. CASE route = "i2pName"
          <6>1. step \in 1 .. 6
            <7>1. step \in 1 .. 7 /\ Len(Calls[route]) = 7
                BY <2>2, <5>6
            <7> QED
                BY <3>3, <7>1
          <6>2. CASE step < 3
            <7>1. Held = {} /\ Held' = {} /\ open' = open
                BY <2>2, <3>1, <5>3, <5>6, <6>1, <6>2 DEF Held
            <7>2. Now.socket = "session" /\ Now'.socket = "session"
                BY <1>3, <2>2, <4>1, <5>2, <5>6, <6>1, <6>2, ExchangeIs
            <7> QED
                BY <2>1, <7>1, <7>2
          <6>3. CASE step = 3
            <7>1. Held = {} /\ Held' = {"session"} /\ Now.socket = "session" /\ open' = open
                BY <2>2, <3>1, <5>3, <5>6, <6>3 DEF Held, I2PCalls
            <7> QED
                BY <2>1, <2>6, <7>1
          <6>4. CASE step > 3
            <7>1. Held = {"session"} /\ Held' = {"session"}
                BY <5>3, <5>6, <6>1, <6>4 DEF Held, I2PCalls
            <7>2. CASE step = 5
              <8>1. Now.socket = "query" /\ Now.what = "lookup"
                  BY <2>2, <5>6, <7>2
              <8>2. open' = {"session"}
                  BY <2>1, <3>1, <7>1, <8>1
              <8> QED
                  BY <7>1, <8>2
            <7>3. CASE step # 5
              <8>1. step = 4 \/ step = 6
                  BY <6>1, <6>4, <7>3
              <8>2. open' = open
                  BY <2>2, <3>1, <5>6, <7>3
              <8>3. Now'.socket = Now.socket
                <9>1. /\ Calls["i2pName"][4].socket = Calls["i2pName"][5].socket
                      /\ Calls["i2pName"][6].socket = Calls["i2pName"][7].socket
                    BY ClientExchanges
                <9>2. Now = Calls["i2pName"][step] /\ Now' = Calls["i2pName"][step + 1]
                    BY <5>2, <5>6 DEF Now
                <9>3. CASE step = 4
                    BY <9>1, <9>2, <9>3
                <9>4. CASE step = 6
                    BY <9>1, <9>2, <9>4
                <9> QED
                    BY <8>1, <9>3, <9>4
              <8> QED
                  BY <2>1, <7>1, <8>2, <8>3
            <7> QED
                BY <7>2, <7>3
          <6> QED
              BY <6>1, <6>2, <6>3, <6>4
        <5> QED
            BY <5>1, <5>4, <5>5, <5>6
      <4>3. route = "socks" => "proxy" \in open'
          BY <2>2, <2>6, <3>1
      <4> QED
          BY <1>1, <1>3, <4>1, <4>2, <4>3 DEF CallInv, OnlyKnownLeaks
    <3> QED
        BY <3>2, <3>3
  <2>7. CASE /\ Now.socket \in open /\ ended' = "error" /\ step' = step
             /\ open' = open \ (IF Now.socket = "proxy" THEN {Now.socket} ELSE {Now.socket, "session"})
    <3>1. open' = {}
      <4>1. Now.socket = "proxy" => Held = {}
          BY <1>3, <2>2 DEF ClientCalls, I2PCalls, Held
      <4>2. Held \subseteq {"session"}
          BY DEF Held
      <4> QED
          BY <2>1, <2>7, <4>1, <4>2
    <3> QED
        BY <1>1, <1>3, <2>1, <2>7, <3>1 DEF CallInv, OnlyKnownLeaks
  <2> QED
      BY <1>3, <2>3, <2>4, <2>5, <2>6, <2>7, ClientStep
<1> QED
    BY <1>2, <1>3

\* Every step of the specification keeps CallInv
LEMMA CallInvStep ==
    ASSUME CallInv, [ServiceNext]_vars
    PROVE  CallInv'
<1>1. ASSUME UNCHANGED callVars
      PROVE  CallInv'
    BY <1>1 DEF callVars, CallInv, Held, Now, Connection, OnlyKnownLeaks
<1>2. ASSUME NEW r, Call(r)
      PROVE  CallInv'
  <2>1. open' = {} /\ ended' = "no" /\ step' = 1 /\ route' = r
      BY <1>2 DEF Call, CallInv
  <2>2. CASE r \in ClientCalls
    <3>1. 1 \in 1 .. Len(Calls[r])
        BY <2>2, ClientExchanges DEF ClientCalls
    <3> QED
        BY <2>1, <2>2, <3>1 DEF CallInv, Held, OnlyKnownLeaks, ClientCalls
  <2>3. CASE r \notin ClientCalls
      BY <2>1, <2>3 DEF CallInv, OnlyKnownLeaks
  <2> QED
      BY <2>2, <2>3
<1>3. ASSUME CallOver
      PROVE  CallInv'
    BY <1>3 DEF CallOver, CallInv, OnlyKnownLeaks, ClientCalls
<1>4. ASSUME GoOnWithKey
      PROVE  CallInv'
    BY <1>1, <1>4 DEF GoOnWithKey, CallInv, OnlyKnownLeaks, ClientCalls
<1>5. CASE Start
    BY <1>2, <1>5 DEF Start
<1>6. CASE Proceed \/ Established
    BY <1>6, CallStepKeeps DEF Proceed, Established
<1>7. CASE Truncate
    BY <1>1, <1>7 DEF Truncate
<1>8. CASE WriteKey \/ KeepsNothing
    BY <1>4, <1>8 DEF WriteKey, KeepsNothing
<1>9. CASE ProcessEnds
    BY <1>3, <1>9 DEF ProcessEnds
<1>10. CASE Crashed
    BY <1>3, <1>10 DEF Crashed, SomeReplyCrashes
<1>11. route \in ClientCalls => step \in 1 .. Len(Calls[route])
    BY DEF CallInv
<1>12. ASSUME Close
       PROVE  CallInv'
  <2>1. /\ ended = "ok" /\ ended' = "closed" /\ open' = open \ {Connection}
        /\ route' = route /\ step' = step
      BY <1>12 DEF Close
  <2>2. CASE route \in ClientCalls
    <3>1. open = Held \cup {Connection} /\ step = Len(Calls[route])
        BY <2>1, <2>2 DEF CallInv
    <3>2. Held = IF route \in I2PCalls THEN {"session"} ELSE {}
        BY <2>2, <3>1, ClientExchanges DEF Held, ClientCalls, I2PCalls
    <3>3. Connection # "session" \/ route \notin I2PCalls
        BY DEF Connection, I2PCalls
    <3>4. open' = IF route \in {"i2p", "i2pName"} THEN {"session"} ELSE {}
        BY <2>1, <3>1, <3>2, <3>3 DEF I2PCalls, Connection
    <3> QED
        BY <2>1, <2>2, <3>4, <1>11 DEF CallInv, OnlyKnownLeaks, ClientCalls
  <2>3. CASE route \notin ClientCalls
      BY <2>1, <2>3 DEF CallInv, OnlyKnownLeaks
  <2> QED
      BY <2>2, <2>3
<1>13. CASE Connected
    BY <1>2, <1>12, <1>13, CallStepKeeps DEF Connected
<1>14. CASE UNCHANGED vars
    BY <1>1, <1>14 DEF vars
<1> QED
    BY <1>5, <1>6, <1>7, <1>8, <1>9, <1>10, <1>13, <1>14 DEF ServiceNext

\* Of a connection that is over, or did not come about, only what is known to
\* stay open stays open (newConnection, closeConnection, and the functions of
\* libsam3 and socks5.c they call)
THEOREM OnlyKnownLeaksCorrectness == ServiceSpec => []OnlyKnownLeaks
<1>1. ServiceInit => CallInv
    BY DEF ServiceInit, CallInit, CallInv, OnlyKnownLeaks, ClientCalls
<1>2. CallInv /\ [ServiceNext]_vars => CallInv'
    BY CallInvStep
<1>3. CallInv => OnlyKnownLeaks
    BY DEF CallInv
<1> QED
    BY <1>1, <1>2, <1>3, PTL DEF ServiceSpec, vars

-----------------------------------------------------------------------------
(* The key of the service *)

HoldsKey == Keys \cup {NoKey, CutKey}

ServiceTypeOK ==
    /\ kind \in Services \cup {"client"}
    /\ at \in {"off", "calling", "keeping", "truncated", "serving"}
    /\ file \in HoldsKey /\ key \in HoldsKey
    /\ served \subseteq Keys

\* What is called is what main() calls for that kind of service, and for the key
\* there is
CallOfKind ==
    /\ kind = "client" => at = "off"
    /\ kind = "tor" /\ at = "calling" => route \in {"onion", "onionCookie"}
    /\ kind = "i2p" /\ at = "calling" =>
            \/ route = "keys" /\ key = NoKey /\ file = NoKey
            \/ route = "forward" /\ key # NoKey
    /\ at \in {"keeping", "truncated"} =>
            IF kind = "tor" THEN address \in Keys ELSE key # NoKey

\* As long as no part of a key is lost, the address the peers know is that of the
\* key in the file, or, while the file is empty, of the key in memory
KeyKept ==
    ~lost =>
        /\ at # "truncated" => served \subseteq {file}
        /\ at = "calling" => key = file
        /\ at \in {"keeping", "truncated"} =>
                served \subseteq {key} /\ (kind = "tor" => key = address)

ServiceInv == ServiceTypeOK /\ CallOfKind /\ KeyKept

\* Before its first run a service has no key
LEMMA ServiceInvInit == ServiceInit => ServiceInv
<1> QED
    BY DEF ServiceInit, ServiceInv, ServiceTypeOK, CallOfKind, KeyKept, HoldsKey, Services

\* A run starts with the key of the file
LEMMA StartKeeps ==
    ASSUME ServiceInv, Start
    PROVE  ServiceInv'
<1>1. /\ kind \in Services /\ at = "off" /\ at' = "calling" /\ key' = file
      /\ kind' = kind /\ file' = file /\ served' = served /\ lost' = lost
      /\ kind = "tor" => route' \in {"onion", "onionCookie"}
      /\ kind = "i2p" => route' = IF file = NoKey THEN "keys" ELSE "forward"
    BY DEF Start, Call, Services
<1>2. ServiceTypeOK'
    BY <1>1 DEF ServiceInv, ServiceTypeOK
<1>3. CallOfKind'
    BY <1>1 DEF CallOfKind, Services
<1>4. KeyKept'
    BY <1>1 DEF ServiceInv, KeyKept
<1> QED
    BY <1>2, <1>3, <1>4 DEF ServiceInv

\* A reply before the last changes neither the key nor its file
LEMMA ProceedKeeps ==
    ASSUME ServiceInv, Proceed
    PROVE  ServiceInv'
<1>1. route' = route
    BY CallStepEffect DEF Proceed
<1>2. UNCHANGED <<kind, at, file, key, address, served, lost>>
    BY DEF Proceed, serviceVars
<1> QED
    BY <1>1, <1>2 DEF ServiceInv, ServiceTypeOK, CallOfKind, KeyKept

\* The service of Tor is there: its key is in memory, or part of it is lost
LEMMA TorEstablished ==
    ASSUME ServiceInv, Established, kind = "tor"
    PROVE  ServiceInv'
<1>1. /\ at = "calling" /\ route' = route /\ route \in {"onion", "onionCookie"}
      /\ kind' = kind /\ file' = file
    BY CallStepEffect DEF Established, ServiceInv, CallOfKind
<1>2. at' = "keeping" /\ served' = served
    BY <1>1 DEF Established
<1>3. GivenOnion \/ NewOnion
    BY DEF Established
<1>4. address' \in Keys /\ key' \in HoldsKey
    BY <1>3 DEF GivenOnion, NewOnion, HoldsKey
<1>5. ~lost' => /\ ~lost /\ key' = address'
                /\ key = key' \/ key = NoKey
    BY <1>3 DEF GivenOnion, NewOnion
<1>6. ~lost => served \subseteq {key} /\ served \subseteq {file} /\ served \subseteq Keys
    BY <1>1 DEF ServiceInv, ServiceTypeOK, KeyKept
<1>7. ServiceTypeOK'
    BY <1>1, <1>2, <1>4 DEF ServiceInv, ServiceTypeOK
<1>8. CallOfKind'
    BY <1>1, <1>2, <1>4 DEF CallOfKind
<1>9. ~lost' => served \subseteq {key'}
    BY <1>5, <1>6, KeysAssumption
<1>10. KeyKept'
    BY <1>1, <1>2, <1>5, <1>6, <1>9 DEF KeyKept
<1> QED
    BY <1>7, <1>8, <1>10 DEF ServiceInv

\* I2P has given a key, or made the service of the key there is
LEMMA I2PEstablished ==
    ASSUME ServiceInv, Established, kind = "i2p"
    PROVE  ServiceInv'
<1>1. /\ at = "calling" /\ route' = route
      /\ kind' = kind /\ file' = file /\ ~Refused
    BY CallStepEffect DEF Established
<1>2. NewDestination \/ Forwarded
    BY DEF Established
<1>3. CASE NewDestination
  <2>1. /\ route = "keys" /\ key' \in HoldsKey /\ key' # NoKey /\ lost' = lost
        /\ at' = "keeping" /\ served' = served
      BY <1>3, KeysAssumption DEF NewDestination, HoldsKey, Established
  <2>2. ~lost => served = {}
      BY <1>1, <2>1, KeysAssumption DEF ServiceInv, ServiceTypeOK, CallOfKind, KeyKept
  <2>3. ServiceTypeOK'
      BY <1>1, <2>1 DEF ServiceInv, ServiceTypeOK
  <2>4. CallOfKind'
      BY <1>1, <2>1 DEF CallOfKind
  <2>5. KeyKept'
      BY <1>1, <2>1, <2>2 DEF KeyKept
  <2> QED
      BY <2>3, <2>4, <2>5 DEF ServiceInv
<1>4. CASE Forwarded
  <2>1. /\ route = "forward" /\ address' = key /\ key' = key /\ lost' = lost
        /\ at' = "serving" /\ served' = served \cup {key}
      BY <1>4 DEF Forwarded, Established
  <2>2. key \in Keys
      BY <1>1, <2>1 DEF ServiceInv, ServiceTypeOK, CallOfKind, HoldsKey, Refused
  <2>3. ServiceTypeOK'
      BY <1>1, <2>1, <2>2 DEF ServiceInv, ServiceTypeOK
  <2>4. CallOfKind'
      BY <1>1, <2>1 DEF CallOfKind
  <2>5. KeyKept'
      BY <1>1, <2>1 DEF ServiceInv, KeyKept
  <2> QED
      BY <2>3, <2>4, <2>5 DEF ServiceInv
<1> QED
    BY <1>2, <1>3, <1>4

\* The key is in memory while its file is empty
LEMMA TruncateKeeps ==
    ASSUME ServiceInv, Truncate
    PROVE  ServiceInv'
<1>1. /\ at = "keeping" /\ at' = "truncated" /\ file' = NoKey
      /\ UNCHANGED <<kind, key, address, served, lost>>
    BY DEF Truncate
<1> QED
    BY <1>1 DEF ServiceInv, ServiceTypeOK, CallOfKind, KeyKept, HoldsKey

\* The file has the key when it is written, or part of it is lost
LEMMA GoOnKeeps ==
    ASSUME ServiceInv, GoOnWithKey, at \in {"keeping", "truncated"},
           file' \in HoldsKey, ~lost' => ~lost /\ file' = key
    PROVE  ServiceInv'
<1>1. kind \in Services /\ kind' = kind /\ key' = key /\ address' = address
    BY DEF GoOnWithKey, ServiceInv, ServiceTypeOK, CallOfKind
<1>2. CASE kind = "tor"
  <2>1. at' = "serving" /\ served' = served \cup {address} /\ address \in Keys
      BY <1>2 DEF GoOnWithKey, ServiceInv, CallOfKind
  <2>2. ServiceTypeOK'
      BY <1>1, <2>1 DEF ServiceInv, ServiceTypeOK
  <2>3. CallOfKind'
      BY <1>1, <1>2, <2>1 DEF CallOfKind
  <2>4. KeyKept'
      BY <1>1, <1>2, <2>1 DEF ServiceInv, KeyKept
  <2> QED
      BY <2>2, <2>3, <2>4 DEF ServiceInv
<1>3. CASE kind = "i2p"
  <2>1. at' = "calling" /\ served' = served /\ route' = "forward" /\ key # NoKey
      BY <1>3 DEF GoOnWithKey, ServiceInv, CallOfKind
  <2>2. ServiceTypeOK'
      BY <1>1, <2>1 DEF ServiceInv, ServiceTypeOK
  <2>3. CallOfKind'
      BY <1>1, <1>3, <2>1 DEF CallOfKind
  <2>4. KeyKept'
      BY <1>1, <1>3, <2>1 DEF ServiceInv, KeyKept
  <2> QED
      BY <2>2, <2>3, <2>4 DEF ServiceInv
<1> QED
    BY <1>1, <1>2, <1>3 DEF Services

\* What a process leaves is the key of its file, or part of it was lost
LEMMA ProcessEndsKeeps ==
    ASSUME ServiceInv, ProcessEnds
    PROVE  ServiceInv'
<1>1. /\ at' = "off" /\ key' = NoKey /\ lost' = (lost \/ at = "truncated")
      /\ UNCHANGED <<kind, file, served>>
    BY DEF ProcessEnds
<1>2. ServiceTypeOK'
    BY <1>1 DEF ServiceInv, ServiceTypeOK, HoldsKey
<1>3. CallOfKind'
    BY <1>1 DEF CallOfKind
<1>4. KeyKept'
    BY <1>1 DEF ServiceInv, KeyKept
<1> QED
    BY <1>2, <1>3, <1>4 DEF ServiceInv

\* Every step of a run, and its end, keeps the invariant
LEMMA ServiceInvStep ==
    ASSUME ServiceInv, [ServiceNext]_vars
    PROVE  ServiceInv'
<1>1. CASE Established
    BY <1>1, TorEstablished, I2PEstablished DEF Established
<1>2. CASE WriteKey
  <2>1. /\ at = "truncated" /\ file' \in HoldsKey /\ GoOnWithKey
        /\ lost' = (lost \/ file' # key)
      BY <1>2 DEF WriteKey, ServiceInv, ServiceTypeOK, HoldsKey
  <2> QED
      BY <2>1, GoOnKeeps
<1>3. CASE KeepsNothing
  <2>1. /\ at = "keeping" /\ file' \in HoldsKey /\ file' = file /\ GoOnWithKey
        /\ lost' = (lost \/ file # key)
      BY <1>3 DEF KeepsNothing, ServiceInv, ServiceTypeOK
  <2> QED
      BY <2>1, GoOnKeeps
<1>4. ASSUME UNCHANGED serviceVars, kind = "client" \/ UNCHANGED callVars
      PROVE  ServiceInv'
    BY <1>4 DEF serviceVars, callVars, ServiceInv, ServiceTypeOK, CallOfKind, KeyKept
<1>5. CASE Connected \/ Crashed \/ UNCHANGED vars
    BY <1>4, <1>5 DEF Connected, Crashed, vars
<1> QED
    BY <1>1, <1>2, <1>3, <1>5, StartKeeps, ProceedKeeps, TruncateKeeps, ProcessEndsKeeps
    DEF ServiceNext

\* The keys and the file of a service are as ServiceInv says, in every run of the
\* program and between the runs
THEOREM ServiceInvariance == ServiceSpec => []ServiceInv
<1> QED
    BY ServiceInvInit, ServiceInvStep, PTL DEF ServiceSpec, vars

\* A set within a set of one
LEMMA AtMostOne ==
    ASSUME NEW S, NEW x, S \subseteq {x}
    PROVE  Cardinality(S) <= 1
<1>1. CASE S = {}
    BY <1>1, FS_EmptySet
<1>2. CASE S = {x}
    BY <1>2, FS_Singleton
<1> QED
    BY <1>1, <1>2

\* Unless part of a key is lost on its way into the file, the node has one
\* address in all its runs, and its key is in the file between them (main, with
\* tor_add_onion and sam3GenerateKeys)
THEOREM SameAddressCorrectness == ServiceSpec => []SameAddress
<1>1. ServiceInv => SameAddress
  <2> SUFFICES ASSUME ServiceInv, ~lost
               PROVE  SameAddress
      BY DEF SameAddress
  <2>1. served \subseteq {file} \/ served \subseteq {key}
      BY DEF ServiceInv, ServiceTypeOK, KeyKept
  <2>2. Cardinality(served) <= 1
      BY <2>1, AtMostOne
  <2>3. at = "off" => served \subseteq {file}
      BY DEF ServiceInv, KeyKept
  <2> QED
      BY <2>2, <2>3 DEF SameAddress
<1> QED
    BY <1>1, ServiceInvariance, PTL

-----------------------------------------------------------------------------
(* The entries of the crawler *)

WebUrls == DOMAIN Sites

\* The entries of the pages there are
WebEntries == UNION {Range(ScanDocument(Sites[u])) : u \in {u \in WebUrls : Sites[u] # NoPage}}

CrawlerInv ==
    /\ url \in WebUrls
    /\ urlQueue \in Seq(WebUrls)
    /\ seeds \in Seq(WebUrls \cup {LongLine})
    /\ searches \in Seq(WebEntries) /\ handed \in Seq(WebEntries) /\ found \in Seq(WebEntries)
    /\ FindsHandedOver

-----------------------------------------------------------------------------
(* The operators of the model *)

\* Increasing is a list of all the elements of a set, each at one place
LEMMA IncreasingLists ==
    ASSUME NEW S, S \subseteq Nat, IsFiniteSet(S)
    PROVE  /\ Increasing(S) \in Seq(S)
           /\ Len(Increasing(S)) = Cardinality(S)
           /\ Range(Increasing(S)) = S
<1> DEFINE UpTo(u) == {v \in S : v <= u}
           rank == [u \in S |-> Cardinality(UpTo(u))]
           n == Cardinality(S)
<1>1. n \in Nat /\ IsFiniteSet(1 .. n) /\ Cardinality(1 .. n) = n
    BY FS_CardinalityType, FS_Interval
<1>2. \A u \in S : IsFiniteSet(UpTo(u)) /\ Cardinality(UpTo(u)) \in 1 .. n
  <2> TAKE u \in S
  <2>1. UpTo(u) \in SUBSET S /\ u \in UpTo(u)
      OBVIOUS
  <2>2. IsFiniteSet(UpTo(u)) /\ Cardinality(UpTo(u)) <= n
      BY <2>1, FS_Subset
  <2>3. Cardinality(UpTo(u)) \in Nat /\ Cardinality(UpTo(u)) # 0
      BY <2>1, <2>2, FS_CardinalityType, FS_EmptySet
  <2> QED
      BY <1>1, <2>2, <2>3
<1>3. \A u, w \in S : u < w => rank[u] # rank[w]
  <2> TAKE u, w \in S
  <2> HAVE u < w
  <2>0. u \in Nat /\ w \in Nat
      OBVIOUS
  <2>1. /\ \A v \in UpTo(u) : v \in UpTo(w)
        /\ w \in UpTo(w) /\ w \notin UpTo(u)
      BY <2>0
  <2> QED
      BY <1>2, <2>1, FS_Subset
<1>4. rank \in Injection(S, 1 .. n)
  <2>1. rank \in [S -> 1 .. n]
      BY <1>2
  <2>2. \A u, w \in S : rank[u] = rank[w] => u = w
      BY <1>3
  <2> HIDE DEF rank
  <2> QED
      BY <2>1, <2>2 DEF Injection, IsInjective
<1>5. rank \in Surjection(S, 1 .. n)
    BY <1>1, <1>4, FS_Injection
<1>6. \A i \in 1 .. n : \E u \in S : rank[u] = i
    BY <1>5 DEF Surjection
<1>7. \A i \in 1 .. n : Increasing(S)[i] \in S /\ rank[Increasing(S)[i]] = i
  <2> TAKE i \in 1 .. n
  <2>1. Increasing(S)[i] = CHOOSE u \in S : Cardinality(UpTo(u)) = i
      BY DEF Increasing
  <2>2. \E u \in S : Cardinality(UpTo(u)) = i
      BY <1>6
  <2> QED
      BY <2>1, <2>2
<1>8. DOMAIN Increasing(S) = 1 .. n
    BY DEF Increasing
<1>9. Increasing(S) = [i \in 1 .. n |-> Increasing(S)[i]]
    BY DEF Increasing
<1>10. \A u \in S : Increasing(S)[rank[u]] = u
  <2> TAKE u \in S
  <2>1. rank[u] \in 1 .. n
      BY <1>2
  <2> QED
      BY <1>4, <1>7, <2>1 DEF Injection, IsInjective
<1> HIDE DEF rank, n
<1>11. Increasing(S) \in Seq(S) /\ Len(Increasing(S)) = n
    BY <1>1, <1>7, <1>8, <1>9
<1>12. Range(Increasing(S)) = S
    BY <1>4, <1>7, <1>8, <1>10 DEF Range, Injection
<1> QED
    BY <1>11, <1>12 DEF n

\* The places of a list, and the values of a function of them, are finitely many
LEMMA FinitePlaces ==
    ASSUME NEW T, NEW s \in Seq(T)
    PROVE  /\ DOMAIN s \subseteq Nat /\ IsFiniteSet(DOMAIN s)
           /\ \A I \in SUBSET DOMAIN s : IsFiniteSet(I)
           /\ IsFiniteSet(Range(s))
<1>1. DOMAIN s = 1 .. Len(s) /\ Len(s) \in Nat
    OBVIOUS
<1>2. IsFiniteSet(DOMAIN s)
    BY <1>1, FS_Interval
<1>3. s \in Surjection(DOMAIN s, Range(s))
    BY <1>1 DEF Surjection, Range
<1> QED
    BY <1>1, <1>2, <1>3, FS_Subset, FS_Surjection

\* A list of as many values, one for each
LEMMA ListOfList ==
    ASSUME NEW T, NEW s \in Seq(T), NEW f, f = [i \in DOMAIN s |-> f[i]]
    PROVE  f \in Seq(Range(f)) /\ Len(f) = Len(s)
<1> QED
    BY DEF Range

\* A list of elements of a set is one of any wider set
LEMMA WiderSeq ==
    ASSUME NEW S, NEW T, S \subseteq T, NEW s \in Seq(S)
    PROVE  s \in Seq(T)
<1>1. /\ Len(s) \in Nat /\ s = [i \in 1 .. Len(s) |-> s[i]]
      /\ \A i \in 1 .. Len(s) : s[i] \in T
    OBVIOUS
<1> QED
    BY <1>1

\* What is in a list is in its set
LEMMA SeqElements ==
    ASSUME NEW T, NEW s \in Seq(T)
    PROVE  /\ Len(s) \in Nat /\ DOMAIN s = 1 .. Len(s)
           /\ \A i \in DOMAIN s : s[i] \in T
<1> QED
    OBVIOUS

\* Links and results lead to urls of Sites
LEMMA HrefsAreUrls ==
    /\ \A l \in [parent : Nat, text : Nat, href : WebUrls] : l.href \in WebUrls
    /\ \A l \in [isResult : BOOLEAN, hasUrl : BOOLEAN, text : Nat, href : WebUrls] : l.href \in WebUrls
<1> QED
    OBVIOUS

\* A list behind another has the elements of both
LEMMA ConcatRange ==
    ASSUME NEW T, NEW s \in Seq(T), NEW t \in Seq(T)
    PROVE  s \o t \in Seq(T) /\ Range(s \o t) = Range(s) \cup Range(t)
<1>1. /\ s \o t \in Seq(T) /\ Len(s \o t) = Len(s) + Len(t)
      /\ \A i \in 1 .. Len(s) : (s \o t)[i] = s[i]
      /\ \A i \in 1 .. Len(t) : (s \o t)[Len(s) + i] = t[i]
    OBVIOUS
<1>2. DOMAIN s = 1 .. Len(s) /\ DOMAIN t = 1 .. Len(t) /\ DOMAIN (s \o t) = 1 .. Len(s \o t)
    BY <1>1
<1>3. Len(s) \in Nat /\ Len(t) \in Nat
    OBVIOUS
<1>4. \A i \in DOMAIN (s \o t) : (s \o t)[i] \in Range(s) \cup Range(t)
  <2> TAKE i \in DOMAIN (s \o t)
  <2>1. CASE i <= Len(s)
      BY <1>1, <1>2, <1>3, <2>1 DEF Range
  <2>2. CASE i > Len(s)
    <3>1. i - Len(s) \in 1 .. Len(t) /\ Len(s) + (i - Len(s)) = i
        BY <1>1, <1>2, <1>3, <2>2
    <3>2. (s \o t)[i] = t[i - Len(s)]
        BY <1>1, <3>1
    <3> QED
        BY <1>2, <3>1, <3>2 DEF Range
  <2> QED
      BY <1>2, <1>3, <2>1, <2>2
<1>5. \A i \in 1 .. Len(s) : i \in DOMAIN (s \o t)
    BY <1>1, <1>2, <1>3
<1>6. \A i \in 1 .. Len(t) : Len(s) + i \in DOMAIN (s \o t)
    BY <1>1, <1>2, <1>3
<1>7. Range(s) \subseteq Range(s \o t) /\ Range(t) \subseteq Range(s \o t)
    BY <1>1, <1>2, <1>5, <1>6 DEF Range
<1>8. Range(s \o t) \subseteq Range(s) \cup Range(t)
    BY <1>4 DEF Range
<1> QED
    BY <1>1, <1>7, <1>8

\* The urls of a list of entries are those of its elements
LEMMA UrlsRange == \A s : Range(Urls(s)) = {e.url : e \in Range(s)}
<1> QED
    BY DEF Range, Urls

\* The elements of a part of a list are elements of the list
LEMMA PartRange ==
    ASSUME NEW T, NEW s \in Seq(T)
    PROVE  /\ s # << >> => /\ Head(s) \in Range(s) /\ Head(s) \in T
                          /\ Tail(s) \in Seq(T) /\ Range(Tail(s)) \subseteq Range(s)
           /\ \A i \in 0 .. Len(s) : SubSeq(s, 1, i) \in Seq(T)
<1>1. ASSUME s # << >>
      PROVE  /\ Head(s) \in Range(s) /\ Head(s) \in T /\ Tail(s) \in Seq(T)
             /\ \A i \in 1 .. Len(Tail(s)) : i + 1 \in DOMAIN s /\ Tail(s)[i] = s[i + 1]
  <2>1. 1 \in DOMAIN s /\ Head(s) = s[1]
      BY <1>1
  <2> QED
      BY <1>1, <2>1 DEF Range
<1>2. s # << >> => Range(Tail(s)) \subseteq Range(s)
    BY <1>1 DEF Range
<1> QED
    BY <1>1, <1>2

\* The pages and the answers of the engines give lists of entries
LEMMA EntriesListed ==
    /\ \A u \in WebUrls : Sites[u] # NoPage =>
            /\ ScanDocument(Sites[u]) \in Seq(WebEntries)
            /\ Urls(ScanDocument(Sites[u])) \in Seq(WebUrls)
    /\ \A p \in EnginePages : Urls(EngineEntries(p)) \in Seq(WebUrls)
                            /\ Range(Urls(EngineEntries(p))) \subseteq EngineUrls
<1>1. ASSUME NEW u \in WebUrls, Sites[u] # NoPage
      PROVE  /\ ScanDocument(Sites[u]) \in Seq(WebEntries)
             /\ Urls(ScanDocument(Sites[u])) \in Seq(WebUrls)
  <2> DEFINE links == Sites[u]
             hrefs == {links[i].href : i \in DOMAIN links}
             hrefAt == [i \in DOMAIN links |-> links[i].href]
             urls == Increasing(hrefs)
             entries == ScanDocument(links)
  <2>1. links \in Seq([parent : Nat, text : Nat, href : WebUrls])
      BY <1>1, SitesAssumption DEF WebUrls
  <2> HIDE DEF links
  <2>2. hrefAt \in Seq(WebUrls) /\ Range(hrefAt) = hrefs
    <3>1. /\ Len(links) \in Nat /\ DOMAIN links = 1 .. Len(links)
          /\ \A i \in DOMAIN links : links[i].href \in WebUrls
        BY <2>1, SeqElements, HrefsAreUrls
    <3>2. DOMAIN hrefAt = DOMAIN links /\ \A i \in DOMAIN links : hrefAt[i] = links[i].href
        OBVIOUS
    <3>3. hrefAt \in Seq(WebUrls)
        BY <3>1
    <3> HIDE DEF hrefAt
    <3>4. Range(hrefAt) = hrefs
        BY <3>2 DEF Range
    <3> QED
        BY <3>3, <3>4
  <2>3. hrefs \subseteq WebUrls /\ hrefs \subseteq Nat /\ IsFiniteSet(hrefs)
    <3>1. hrefs \subseteq WebUrls
      <4>1. \A i \in DOMAIN links : links[i].href \in WebUrls
          BY <2>1, SeqElements, HrefsAreUrls
      <4> QED
          BY <4>1
    <3> HIDE DEF hrefAt, hrefs
    <3>2. IsFiniteSet(hrefs)
        BY <2>2, FinitePlaces
    <3> QED
        BY <3>1, <3>2, SitesAssumption DEF WebUrls
  <2>4. urls \in Seq(WebUrls)
    <3> HIDE DEF hrefs
    <3>1. urls \in Seq(hrefs)
        BY <2>3, IncreasingLists
    <3> QED
        BY <2>3, <3>1, WiderSeq
  <2>5. DOMAIN entries = DOMAIN urls /\ entries = [n \in DOMAIN urls |-> entries[n]]
        /\ \A n \in DOMAIN urls : entries[n].url = urls[n]
      BY DEF ScanDocument
  <2> HIDE DEF urls, entries
  <2>6. entries \in Seq(Range(entries)) /\ Len(entries) = Len(urls)
      BY <2>4, <2>5, ListOfList
  <2>7. Range(entries) \subseteq WebEntries
      BY <1>1 DEF WebEntries, links, entries
  <2>8. Urls(entries) \in Seq(WebUrls)
      BY <2>4, <2>5 DEF Urls
  <2> QED
      BY <2>6, <2>7, <2>8, WiderSeq DEF links, entries
<1>2. ASSUME NEW p \in EnginePages
      PROVE  /\ Urls(EngineEntries(p)) \in Seq(WebUrls)
             /\ Range(Urls(EngineEntries(p))) \subseteq EngineUrls
  <2> DEFINE kept == {i \in DOMAIN p :
                        i # 1 /\ p[i].isResult /\ p[i].hasUrl /\ p[i].text # Absent}
             places == Increasing(kept)
             entries == EngineEntries(p)
  <2>1. p \in Seq([isResult : BOOLEAN, hasUrl : BOOLEAN, text : Nat, href : WebUrls])
      BY SitesAssumption DEF WebUrls
  <2>2. kept \subseteq Nat /\ IsFiniteSet(kept) /\ kept \subseteq DOMAIN p
      BY <2>1, FinitePlaces
  <2>3. places \in Seq(DOMAIN p)
    <3> HIDE DEF kept
    <3>1. places \in Seq(kept)
        BY <2>2, IncreasingLists
    <3> QED
        BY <2>2, <3>1, WiderSeq
  <2>4. DOMAIN entries = DOMAIN places
        /\ \A n \in DOMAIN places : entries[n].url = p[places[n]].href
      BY DEF EngineEntries, Results
  <2> HIDE DEF places, entries
  <2>5. \A n \in DOMAIN places : entries[n].url \in WebUrls
    <3>1. \A n \in DOMAIN places : places[n] \in DOMAIN p
        BY <2>3
    <3>2. \A i \in DOMAIN p : p[i].href \in WebUrls
        BY <2>1, SeqElements, HrefsAreUrls
    <3> QED
        BY <2>4, <3>1, <3>2
  <2>6. Urls(entries) \in Seq(WebUrls)
      BY <2>3, <2>4, <2>5 DEF Urls
  <2>7. Range(Urls(entries)) \subseteq EngineUrls
      BY DEF EngineUrls, entries
  <2> QED
      BY <2>6, <2>7 DEF entries
<1> QED
    BY <1>1, <1>2

-----------------------------------------------------------------------------
(* The steps *)

KnownUrls == {Absent} \cup Range(Urls(found)) \cup EngineUrls

\* Before the first start the lists are empty
LEMMA CrawlerInvInit == CrawlerInit => CrawlerInv
<1> SUFFICES ASSUME CrawlerInit
             PROVE  CrawlerInv
    OBVIOUS
<1>1. url = Absent /\ urlQueue = << >> /\ seeds = << >>
      /\ searches = << >> /\ handed = << >> /\ found = << >>
    BY DEF CrawlerInit
<1>2. << >> \o << >> = << >> /\ Range(<< >>) = {}
    BY DEF Range
<1>3. FindsHandedOver
    BY <1>1, <1>2 DEF FindsHandedOver
<1> QED
    BY <1>1, <1>3, SitesAssumption DEF CrawlerInv, WebUrls

\* The thread takes the first url of the queue
LEMMA TakeKeeps ==
    ASSUME CrawlerInv, urlQueue # << >>, url' = Head(urlQueue), urlQueue' = Tail(urlQueue),
           UNCHANGED <<seeds, searches, handed, found>>
    PROVE  CrawlerInv'
<1>1. /\ Head(urlQueue) \in Range(urlQueue) /\ Head(urlQueue) \in WebUrls
      /\ Tail(urlQueue) \in Seq(WebUrls) /\ Range(Tail(urlQueue)) \subseteq Range(urlQueue)
    BY PartRange DEF CrawlerInv
<1>2. Range(urlQueue) \subseteq KnownUrls /\ KnownUrls' = KnownUrls
    BY DEF CrawlerInv, FindsHandedOver, KnownUrls
<1>3. FindsHandedOver'
    BY <1>1, <1>2 DEF CrawlerInv, FindsHandedOver, KnownUrls
<1> QED
    BY <1>1, <1>3 DEF CrawlerInv, WebUrls, WebEntries

\* The queue and the entries found grow by the links of a page
LEMMA VisitKeeps ==
    ASSUME CrawlerInv, Visit
    PROVE  CrawlerInv'
<1>1. CASE Sites[url] = NoPage
    BY <1>1 DEF Visit, CrawlerInv, FindsHandedOver, WebUrls, WebEntries
<1>2. CASE Sites[url] # NoPage
  <2> DEFINE entries == ScanDocument(Sites[url])
  <2>1. /\ urlQueue' = urlQueue \o Urls(entries) /\ searches' = searches \o entries
        /\ found' = found \o entries
        /\ url' = url /\ seeds' = seeds /\ handed' = handed
      BY <1>2 DEF Visit
  <2>2. entries \in Seq(WebEntries) /\ Urls(entries) \in Seq(WebUrls)
      BY <1>2, EntriesListed DEF CrawlerInv
  <2> HIDE DEF entries
  <2>3. /\ urlQueue' \in Seq(WebUrls) /\ Range(urlQueue') = Range(urlQueue) \cup Range(Urls(entries))
        /\ searches' \in Seq(WebEntries) /\ found' \in Seq(WebEntries)
      BY <2>1, <2>2, ConcatRange DEF CrawlerInv
  <2>4. handed' \o searches' = found'
    <3>1. handed \o (searches \o entries) = (handed \o searches) \o entries
        BY <2>2 DEF CrawlerInv
    <3> QED
        BY <2>1, <3>1 DEF CrawlerInv, FindsHandedOver
  <2>5. Range(Urls(found')) = Range(Urls(found)) \cup Range(Urls(entries))
    <3>1. Range(found') = Range(found) \cup Range(entries)
        BY <2>1, <2>2, ConcatRange DEF CrawlerInv
    <3> QED
        BY <3>1, UrlsRange
  <2>6. FindsHandedOver'
      BY <2>1, <2>3, <2>4, <2>5 DEF CrawlerInv, FindsHandedOver
  <2> QED
      BY <2>1, <2>3, <2>6 DEF CrawlerInv, WebUrls, WebEntries
<1> QED
    BY <1>1, <1>2

\* The publish task gets what was found since it last asked
LEMMA HandOverKeeps ==
    ASSUME CrawlerInv, GetEntriesForBroadcast
    PROVE  CrawlerInv'
<1>1. /\ handed' = handed \o searches /\ searches' = << >>
      /\ UNCHANGED <<url, urlQueue, seeds, found>>
    BY DEF GetEntriesForBroadcast
<1>2. handed' = found
    BY <1>1 DEF CrawlerInv, FindsHandedOver
<1>3. found \in Seq(WebEntries) /\ found \o << >> = found
    BY DEF CrawlerInv
<1>4. FindsHandedOver'
    BY <1>1, <1>2, <1>3 DEF CrawlerInv, FindsHandedOver
<1> QED
    BY <1>1, <1>2, <1>3, <1>4 DEF CrawlerInv, WebUrls, WebEntries

\* A search adds the urls of an engine
LEMMA DoSearchKeeps ==
    ASSUME CrawlerInv, DoSearch
    PROVE  CrawlerInv'
<1>1. PICK children \in EnginePages : urlQueue' = urlQueue \o Urls(EngineEntries(children))
    BY DEF DoSearch
<1>2. UNCHANGED <<url, searches, seeds, handed, found>>
    BY DEF DoSearch
<1>3. /\ Urls(EngineEntries(children)) \in Seq(WebUrls)
      /\ Range(Urls(EngineEntries(children))) \subseteq EngineUrls
    BY EntriesListed
<1>4. /\ urlQueue' \in Seq(WebUrls)
      /\ Range(urlQueue') = Range(urlQueue) \cup Range(Urls(EngineEntries(children)))
    BY <1>1, <1>3, ConcatRange DEF CrawlerInv
<1>5. FindsHandedOver'
    BY <1>2, <1>3, <1>4 DEF CrawlerInv, FindsHandedOver
<1> QED
    BY <1>2, <1>4, <1>5 DEF CrawlerInv, WebUrls, WebEntries

\* The queue of the last run comes back as so many blank urls
LEMMA LoadKeeps ==
    ASSUME CrawlerInv, Load
    PROVE  CrawlerInv'
<1>1. urlQueue' = [i \in DOMAIN seeds |-> Absent] /\ UNCHANGED <<url, searches, seeds, handed, found>>
    BY DEF Load
<1>2. DOMAIN seeds = 1 .. Len(seeds) /\ Len(seeds) \in Nat
    BY SeqElements DEF CrawlerInv
<1>3. urlQueue' \in Seq(WebUrls) /\ Range(urlQueue') \subseteq {Absent}
    BY <1>1, <1>2, SitesAssumption DEF WebUrls, Range
<1>4. FindsHandedOver'
    BY <1>1, <1>3 DEF CrawlerInv, FindsHandedOver
<1> QED
    BY <1>1, <1>3, <1>4 DEF CrawlerInv, WebUrls, WebEntries

\* The run is over: nothing is left but the seeds
LEMMA ResetKeeps ==
    ASSUME CrawlerInv, Reset, seeds' \in Seq(WebUrls \cup {LongLine})
    PROVE  CrawlerInv'
<1>1. url' = Absent /\ urlQueue' = << >> /\ searches' = << >> /\ handed' = << >> /\ found' = << >>
    BY DEF Reset
<1>2. << >> \o << >> = << >> /\ Range(<< >>) = {}
    BY DEF Range
<1>3. FindsHandedOver'
    BY <1>1, <1>2 DEF FindsHandedOver
<1> QED
    BY <1>1, <1>3, SitesAssumption DEF CrawlerInv, WebUrls

\* Each step of the crawler keeps the invariant
LEMMA CrawlerInvStep ==
    ASSUME CrawlerInv, [CrawlerNext]_crawlerVars
    PROVE  CrawlerInv'
<1>1. urlQueue \in Seq(WebUrls \cup {LongLine})
    BY WiderSeq DEF CrawlerInv
<1>2. CASE StartCrawling \/ StopCrawling \/ Save \/ UNCHANGED crawlerVars
  <2>1. UNCHANGED <<url, urlQueue, searches, handed, found>> /\ seeds' \in {seeds, urlQueue}
      BY <1>2 DEF StartCrawling, StopCrawling, Save, crawlerVars
  <2> QED
      BY <1>1, <2>1 DEF CrawlerInv, FindsHandedOver, WebUrls, WebEntries
<1>3. CASE Over
    BY <1>3, ResetKeeps DEF Over, CrawlerInv
<1>4. CASE KilledSaving
  <2>1. PICK i \in 0 .. Len(urlQueue) :
            seeds' \in {SubSeq(urlQueue, 1, i), Append(SubSeq(urlQueue, 1, i), LongLine)}
      BY <1>4 DEF KilledSaving
  <2>2. SubSeq(urlQueue, 1, i) \in Seq(WebUrls \cup {LongLine})
      BY <1>1, PartRange
  <2>3. seeds' \in Seq(WebUrls \cup {LongLine})
      BY <2>1, <2>2
  <2> QED
      BY <1>4, <2>3, ResetKeeps DEF KilledSaving
<1>5. CASE NextUrl
    BY <1>5, TakeKeeps DEF NextUrl
<1>6. CASE NextAfterStop
  <2>1. CASE UNCHANGED <<url, urlQueue>>
      BY <1>6, <2>1 DEF NextAfterStop, CrawlerInv, FindsHandedOver, WebUrls, WebEntries
  <2>2. CASE urlQueue # << >> /\ url' = Head(urlQueue) /\ urlQueue' = Tail(urlQueue)
      BY <1>6, <2>2, TakeKeeps DEF NextAfterStop
  <2> QED
      BY <1>6, <2>1, <2>2 DEF NextAfterStop
<1> QED
    BY <1>2, <1>3, <1>4, <1>5, <1>6, LoadKeeps, VisitKeeps, HandOverKeeps, DoSearchKeeps
    DEF CrawlerNext

\* Whatever the thread, the publish task, the searches and the end of the program
\* do in whatever order, every entry found is handed over once, in its turn, and
\* the crawler visits no url but those of entries found or of an engine, and blank
\* ones (crawlingFunc, getEntriesForBroadcast, doSearch, load)
THEOREM FindsHandedOverCorrectness == CrawlerSpec => []FindsHandedOver
<1>1. CrawlerInv => FindsHandedOver
    BY DEF CrawlerInv
<1> QED
    BY <1>1, CrawlerInvInit, CrawlerInvStep, PTL DEF CrawlerSpec
=============================================================================
