----------------------------- MODULE NodeProofs -----------------------------
(***************************************************************************)
(* What holds of the web server, and of a node as a whole, for any number  *)
(* of connections, workers and detached threads.                           *)
(*                                                                         *)
(* HttpInv is the inductive invariant of the web server: beside the types  *)
(* and OneOwner, that a thread has a connection just where its code has    *)
(* one in client_fd, and that no worker is at work without a pool.  From   *)
(* it, the server implements RequestQueue.  Each step of a node is a step  *)
(* of its web server, so HttpInv holds in the node; NodePart adds how far  *)
(* main is when a task, the store, the pool or a server ends, and that a   *)
(* page is made only by a worker that handles a request.                   *)
(***************************************************************************)
EXTENDS Node, TLAPS

-----------------------------------------------------------------------------
(* The web server *)

Owning == {"reading", "handling", "replying"}

WorkersOwn == \A w \in Workers : worker[w].at \in Owning <=> worker[w].conn # NoConn

AcceptorOwns == acceptor.at \in {"holding", "cancelled"} <=> acceptor.conn # NoConn

Idle == pool # "started" => \A w \in Workers : worker[w].at \in {"off", "done"}

HttpInv == HttpTypeOK /\ OneOwner /\ WorkersOwn /\ AcceptorOwns /\ Idle

Accepted == {c \in Conns : socket[c] = "accepted"}

\* The parts of OneOwner
Queued == {queue[i] : i \in DOMAIN queue}
QueuedOnce == \A i, j \in DOMAIN queue : queue[i] = queue[j] => i = j
ServedOnce ==
    \A v, w \in Workers : worker[v].conn = worker[w].conn /\ worker[v].conn # NoConn => v = w
Shared ==
    /\ Queued \cap Serving = {}
    /\ acceptor.conn \notin Queued \cup Serving
    /\ Queued \cup Serving \cup ({acceptor.conn} \ {NoConn}) = Accepted

\* The handler of a worker returns, whatever it did to the process
HandlerReturns(w) ==
    /\ worker[w].at = "handling"
    /\ Goes(w, "replying")
    /\ up' \in BOOLEAN
    /\ UNCHANGED <<running, pool, deleted, queue, acceptor, socket, arrived, browser>>

\* Nothing happens in the server, but the process may end
Elsewhere == up' \in BOOLEAN /\ UNCHANGED <<serverVars, socket, arrived, browser>>

\* A step of the server, with handlers and an owner that do more than HttpNext has
ServerStep ==
    \/ Browse \/ Accepting \/ AcceptFails
    \/ \E w \in Workers : Working(w) \/ HandlerReturns(w) \/ ReplyDeaf(w)
    \/ Start \/ StopWorkers \/ StopAccepting \/ DeleteServer
    \/ Elsewhere

-----------------------------------------------------------------------------
(* The connections and their owners *)

LEMMA OwnerParts ==
    /\ OneOwner <=> QueuedOnce /\ ServedOnce /\ Shared
    /\ OneOwner' <=> QueuedOnce' /\ ServedOnce' /\ Shared'
<1>1. OneOwner <=> QueuedOnce /\ ServedOnce /\ Shared
    BY DEF OneOwner, QueuedOnce, ServedOnce, Shared, Queued, Accepted
<1>2. OneOwner' <=> QueuedOnce' /\ ServedOnce' /\ Shared'
    BY DEF OneOwner, QueuedOnce, ServedOnce, Shared, Queued, Accepted
<1> QED
    BY <1>1, <1>2

\* Nobody gets or gives away a connection
LEMMA OwnersKept ==
    ASSUME OneOwner, queue' = queue, acceptor'.conn = acceptor.conn,
           \A w \in Workers : worker'[w].conn = worker[w].conn,
           Accepted' = Accepted
    PROVE  OneOwner' /\ Serving' = Serving
<1>1. Serving' = Serving
    BY DEF Serving
<1> QED
    BY <1>1 DEF OneOwner, Accepted

\* To wake workers gives them nothing
LEMMA WokenKeeps ==
    ASSUME HttpTypeOK, WorkersOwn, Idle, NEW some, worker' = Woken(some)
    PROVE  /\ worker' \in [Workers -> [at : {"off", "checking", "fetching", "waiting", "reading",
                                             "handling", "replying", "done"},
                                       conn : Conns \cup {NoConn}, read : Parts]]
           /\ \A w \in Workers :
                /\ worker'[w].conn = worker[w].conn
                /\ worker'[w].at \in Owning <=> worker[w].at \in Owning
                /\ worker[w].at \in {"off", "done"} => worker'[w].at = worker[w].at
           /\ WorkersOwn' /\ (pool' = pool => Idle')
<1>1. ASSUME NEW w \in Workers
      PROVE  /\ worker'[w] \in [at : {"off", "checking", "fetching", "waiting", "reading",
                                      "handling", "replying", "done"},
                                conn : Conns \cup {NoConn}, read : Parts]
             /\ worker'[w].conn = worker[w].conn
             /\ worker'[w].at \in Owning <=> worker[w].at \in Owning
             /\ worker[w].at \in {"off", "done"} => worker'[w].at = worker[w].at
    BY DEF Woken, HttpTypeOK, Owning
<1> QED
    BY <1>1 DEF Woken, WorkersOwn, Idle

-----------------------------------------------------------------------------
(* One lemma for each action, or for each kind of action *)

LEMMA BrowseKeeps ==
    ASSUME HttpInv, Browse
    PROVE  HttpInv' /\ Accepted' = Accepted /\ UNCHANGED <<queue, Serving>>
<1>1. PICK c \in Conns : Connect(c) \/ Send(c) \/ Leave(c)
    BY DEF Browse
<1>2. HttpTypeOK'
    BY <1>1 DEF HttpInv, HttpTypeOK, Connect, Send, Leave, serverVars, Parts
<1>3. UNCHANGED <<queue, acceptor, worker, pool>> /\ Accepted' = Accepted
    BY <1>1 DEF HttpInv, HttpTypeOK, Connect, Send, Leave, serverVars, Accepted
<1>4. OneOwner' /\ Serving' = Serving
    BY <1>3, OwnersKept DEF HttpInv
<1> QED
    BY <1>2, <1>3, <1>4 DEF HttpInv, WorkersOwn, AcceptorOwns, Idle

LEMMA AcceptKeeps ==
    ASSUME HttpInv, NEW c \in Conns, Accept(c)
    PROVE  HttpInv' /\ UNCHANGED <<queue, Serving>>
<1>1. HttpTypeOK'
    BY DEF HttpInv, HttpTypeOK, Accept
<1>2. Accepted' = Accepted \cup {c} /\ c \notin Accepted
    BY DEF HttpInv, HttpTypeOK, Accept, Accepted
<1>3. acceptor.conn = NoConn /\ acceptor'.conn = c
    BY DEF HttpInv, AcceptorOwns, Accept
<1>4. UNCHANGED <<Serving, queue, worker, Queued>>
    BY DEF Accept, Serving, Queued
<1>5. QueuedOnce /\ ServedOnce /\ Shared
    BY OwnerParts DEF HttpInv
<1>6. QueuedOnce' /\ ServedOnce'
    BY <1>4, <1>5 DEF QueuedOnce, ServedOnce
<1>7. Shared'
    BY <1>2, <1>3, <1>4, <1>5, HttpAssumption DEF Shared
<1>8. OneOwner'
    BY <1>6, <1>7, OwnerParts
<1> QED
    BY <1>1, <1>4, <1>8, HttpAssumption DEF HttpInv, WorkersOwn, AcceptorOwns, Idle, Accept

LEMMA EnqueueKeeps ==
    ASSUME HttpInv, Enqueue
    PROVE  /\ HttpInv' /\ Accepted' = Accepted /\ Serving' = Serving
           /\ queue' = Append(queue, acceptor.conn)
           /\ acceptor.conn \in Accepted
<1> DEFINE c == acceptor.conn
<1>1. /\ c \in Conns /\ queue' = Append(queue, c)
      /\ acceptor'.conn = NoConn /\ acceptor'.at \in {"accepting", "ended"}
      /\ UNCHANGED <<socket, pool>>
    BY DEF Enqueue
<1>2. PICK w \in Workers : worker' = Woken({w})
    BY DEF Enqueue
<1>3. /\ \A v \in Workers : worker'[v].conn = worker[v].conn
      /\ WorkersOwn' /\ Idle'
    BY <1>1, <1>2, WokenKeeps DEF HttpInv
<1>4. HttpTypeOK'
  <2>1. up' \in BOOLEAN
      BY DEF HttpInv, HttpTypeOK, Enqueue
  <2>2. worker' \in [Workers -> [at : {"off", "checking", "fetching", "waiting", "reading",
                                      "handling", "replying", "done"},
                                conn : Conns \cup {NoConn}, read : Parts]]
      BY <1>2, WokenKeeps DEF HttpInv
  <2>3. queue' \in Seq(Conns)
      BY <1>1 DEF HttpInv, HttpTypeOK
  <2> QED
      BY <2>1, <2>2, <2>3 DEF HttpInv, HttpTypeOK, Enqueue
<1>5. Serving' = Serving /\ Accepted' = Accepted
    BY <1>1, <1>3 DEF Serving, Accepted
<1>6. queue \in Seq(Conns)
    BY DEF HttpInv, HttpTypeOK
<1>7. {queue'[i] : i \in DOMAIN queue'} = {queue[i] : i \in DOMAIN queue} \cup {c}
  <2>1. DOMAIN queue' = DOMAIN queue \cup {Len(queue) + 1} /\ queue'[Len(queue) + 1] = c
      BY <1>1, <1>6
  <2>2. \A i \in DOMAIN queue : queue'[i] = queue[i]
      BY <1>1, <1>6
  <2> QED
      BY <2>1, <2>2
<1>8. \A i, j \in DOMAIN queue' : queue'[i] = queue'[j] => i = j
  <2>1. \A i \in DOMAIN queue : queue[i] # c
      BY DEF HttpInv, OneOwner
  <2>2. \A i, j \in DOMAIN queue : queue[i] = queue[j] => i = j
      BY DEF HttpInv, OneOwner
  <2> QED
      BY <1>1, <1>6, <2>1, <2>2
<1>9. OneOwner'
  <2>1. NoConn \notin {queue'[i] : i \in DOMAIN queue'} /\ NoConn \notin Serving'
      BY <1>6, <1>7, <1>1, HttpAssumption DEF Serving
  <2> QED
      BY <1>1, <1>3, <1>5, <1>7, <1>8, <2>1, HttpAssumption DEF HttpInv, OneOwner, Accepted
<1>10. AcceptorOwns'
    BY <1>1 DEF AcceptorOwns
<1>11. c \in Accepted
    BY <1>1, HttpAssumption DEF HttpInv, OneOwner, Accepted
<1> QED
    BY <1>1, <1>3, <1>4, <1>5, <1>9, <1>10, <1>11 DEF HttpInv

LEMMA AcceptFailsKeeps ==
    ASSUME HttpInv, AcceptFails
    PROVE  HttpInv' /\ Accepted' = Accepted /\ UNCHANGED <<queue, Serving>>
<1>1. HttpTypeOK'
    BY DEF HttpInv, HttpTypeOK, AcceptFails
<1>2. /\ UNCHANGED <<queue, worker, pool, socket>> /\ Accepted' = Accepted
      /\ acceptor.conn = NoConn /\ acceptor' = [at |-> "ended", conn |-> NoConn]
    BY DEF AcceptFails, Accepted, HttpInv, AcceptorOwns
<1>3. OneOwner' /\ Serving' = Serving
    BY <1>2, OwnersKept DEF HttpInv
<1> QED
    BY <1>1, <1>2, <1>3 DEF HttpInv, WorkersOwn, AcceptorOwns, Idle

LEMMA FetchKeeps ==
    ASSUME HttpInv, NEW w \in Workers, Fetch(w)
    PROVE  /\ HttpInv' /\ Accepted' = Accepted
           /\ \/ UNCHANGED <<queue, Serving>>
              \/ /\ queue # << >> /\ queue' = Tail(queue)
                 /\ Serving' = Serving \cup {Head(queue)}
<1>1. CASE queue = << >>
  <2>1. HttpTypeOK'
      BY <1>1 DEF HttpInv, HttpTypeOK, Fetch, Goes
  <2>2. /\ UNCHANGED <<queue, acceptor, pool, socket>> /\ Accepted' = Accepted
        /\ \A v \in Workers : worker'[v].conn = worker[v].conn
        /\ WorkersOwn' /\ Idle'
      BY <1>1 DEF Fetch, Goes, Accepted, HttpInv, HttpTypeOK, WorkersOwn, Owning, Idle
  <2>3. OneOwner' /\ Serving' = Serving
      BY <2>2, OwnersKept DEF HttpInv
  <2> QED
      BY <2>1, <2>2, <2>3 DEF HttpInv, AcceptorOwns
<1>2. CASE queue # << >>
  <2> DEFINE c == Head(queue)
  <2>1. /\ queue \in Seq(Conns) /\ queue' = Tail(queue) /\ c \in Conns /\ c = queue[1]
        /\ UNCHANGED <<acceptor, pool, socket>>
        /\ worker' = [worker EXCEPT ![w] = [at |-> "reading", conn |-> c, read |-> "nothing"]]
        /\ worker[w].at = "fetching"
      BY <1>2 DEF Fetch, HttpInv, HttpTypeOK
  <2>2. HttpTypeOK'
    <3>1. queue' \in Seq(Conns)
        BY <2>1, <1>2
    <3>2. [at |-> "reading", conn |-> c, read |-> "nothing"] \in
             [at : {"off", "checking", "fetching", "waiting", "reading", "handling", "replying", "done"},
              conn : Conns \cup {NoConn}, read : Parts]
        BY <2>1 DEF Parts
    <3> QED
        BY <2>1, <3>1, <3>2 DEF HttpInv, HttpTypeOK, Fetch
  <2>3. /\ \A v \in Workers : v # w => worker'[v] = worker[v]
        /\ worker'[w].conn = c /\ worker'[w].at = "reading" /\ worker[w].conn = NoConn
      BY <2>1 DEF HttpInv, HttpTypeOK, WorkersOwn, Owning
  <2>4. WorkersOwn' /\ Idle' /\ AcceptorOwns'
      BY <2>1, <2>3, HttpAssumption DEF HttpInv, WorkersOwn, Owning, Idle, AcceptorOwns
  <2>5. Serving' = Serving \cup {c}
      BY <2>1, <2>3, HttpAssumption DEF Serving
  <2>6. \A i \in DOMAIN queue' : i + 1 \in DOMAIN queue /\ queue'[i] = queue[i + 1]
      BY <2>1, <1>2
  <2>7. \A i \in DOMAIN queue : i = 1 \/ (i - 1 \in DOMAIN queue' /\ queue[i] = queue'[i - 1])
      BY <2>1, <1>2
  <2>8. \A i, j \in DOMAIN queue : queue[i] = queue[j] => i = j
      BY DEF HttpInv, OneOwner
  <2>9. 1 \in DOMAIN queue
      BY <2>1, <1>2
  <2>10. Queued = Queued' \cup {c}
    <3>1. ASSUME NEW d \in Queued'
          PROVE  d \in Queued
        BY <2>6 DEF Queued
    <3>2. c \in Queued
        BY <2>1, <2>9 DEF Queued
    <3>3. ASSUME NEW d \in Queued, d # c
          PROVE  d \in Queued'
        BY <2>1, <2>7, <3>3 DEF Queued
    <3> QED
        BY <3>1, <3>2, <3>3
  <2>11. DOMAIN queue \subseteq Nat /\ DOMAIN queue' \subseteq Nat
      BY <2>1, <1>2
  <2>12. c \notin Queued'
      BY <2>1, <2>6, <2>8, <2>9, <2>11 DEF Queued
  <2>13. QueuedOnce'
      BY <2>6, <2>8, <2>11 DEF QueuedOnce
  <2>14. Shared /\ ServedOnce /\ Accepted' = Accepted
      BY <2>1, OwnerParts DEF HttpInv, Accepted
  <2>15. ServedOnce'
      BY <2>3, <2>10, <2>14 DEF Shared, ServedOnce, Serving
  <2>16. Shared'
      BY <2>1, <2>5, <2>10, <2>12, <2>14 DEF Shared
  <2>17. OneOwner'
      BY <2>13, <2>15, <2>16, OwnerParts
  <2> QED
      BY <1>2, <2>1, <2>2, <2>4, <2>5, <2>14, <2>17 DEF HttpInv
<1> QED
    BY <1>1, <1>2

\* A worker goes on and keeps its connection
LEMMA WorkerGoesOn ==
    ASSUME HttpInv, NEW w \in Workers,
           CheckRunning(w) \/ Read(w) \/ ReadEnd(w) \/ ReadBroken(w) \/ HandlerReturns(w)
    PROVE  HttpInv' /\ Accepted' = Accepted /\ UNCHANGED <<queue, Serving>>
<1>1. /\ UNCHANGED <<running, pool, deleted, queue, acceptor, socket, browser>>
      /\ up' \in BOOLEAN
      BY DEF HttpInv, HttpTypeOK, CheckRunning, Read, ReadEnd, ReadBroken, HandlerReturns, serverVars
<1>2. /\ worker'[w] \in [at : {"off", "checking", "fetching", "waiting", "reading",
                               "handling", "replying", "done"},
                         conn : Conns \cup {NoConn}, read : Parts]
      /\ worker'[w].conn = worker[w].conn
      /\ worker'[w].at \in Owning <=> worker[w].at \in Owning
      /\ worker[w].at \notin {"off", "done"}
      /\ worker' = [worker EXCEPT ![w] = worker'[w]]
  <2>1. CASE CheckRunning(w)
      BY <2>1 DEF HttpInv, HttpTypeOK, CheckRunning, Goes, Owning
  <2>2. CASE Read(w)
    <3>1. worker[w].conn \in Conns /\ worker[w].at = "reading"
        BY <2>2 DEF HttpInv, HttpTypeOK, WorkersOwn, Owning, Read
    <3>2. arrived[worker[w].conn] \in {"whole", "cut", "full"}
        BY <2>2, <3>1 DEF HttpInv, HttpTypeOK, Read, Parts
    <3> QED
        BY <2>2, <3>1, <3>2 DEF HttpInv, HttpTypeOK, Read, Owning, Parts
  <2>3. CASE ReadEnd(w)
      BY <2>3 DEF HttpInv, HttpTypeOK, ReadEnd, Goes, Owning
  <2>4. CASE ReadBroken(w)
      BY <2>4 DEF HttpInv, HttpTypeOK, ReadBroken, serverVars, Owning
  <2>5. CASE HandlerReturns(w)
      BY <2>5 DEF HttpInv, HttpTypeOK, HandlerReturns, Goes, Owning
  <2> QED
      BY <2>1, <2>2, <2>3, <2>4, <2>5
<1>3. arrived' \in [Conns -> Parts]
    BY DEF HttpInv, HttpTypeOK, CheckRunning, Read, ReadEnd, ReadBroken, HandlerReturns, Parts
<1>4. HttpTypeOK'
    BY <1>1, <1>2, <1>3 DEF HttpInv, HttpTypeOK
<1>5. Accepted' = Accepted
    BY <1>1 DEF Accepted
<1>6. \A v \in Workers : v # w => worker'[v] = worker[v]
    BY <1>2 DEF HttpInv, HttpTypeOK
<1>7. OneOwner' /\ Serving' = Serving
    BY <1>1, <1>2, <1>5, <1>6, OwnersKept DEF HttpInv
<1>8. WorkersOwn' /\ AcceptorOwns' /\ Idle'
    BY <1>1, <1>2, <1>6 DEF HttpInv, WorkersOwn, AcceptorOwns, Idle
<1> QED
    BY <1>1, <1>4, <1>5, <1>7, <1>8 DEF HttpInv

LEMMA ReplyKeeps ==
    ASSUME HttpInv, NEW w \in Workers, Reply(w) \/ ReplyDeaf(w)
    PROVE  /\ HttpInv' /\ queue' = queue
           /\ worker[w].conn \in Serving
           /\ Serving' = Serving \ {worker[w].conn}
           /\ socket' = [socket EXCEPT ![worker[w].conn] = "closed"]
<1>0. PICK ends : SendTo(ends, w)
    BY DEF Reply, ReplyDeaf
<1> DEFINE c == worker[w].conn
<1>1. c \in Conns /\ c \in Serving /\ worker[w].at = "replying" /\ c # NoConn
    BY <1>0, HttpAssumption DEF HttpInv, HttpTypeOK, WorkersOwn, Owning, Serving, SendTo
<1>2. HttpTypeOK'
  <2>1. up' \in BOOLEAN
      BY <1>0 DEF SendTo, HttpInv, HttpTypeOK
  <2> QED
      BY <1>0, <1>1, <2>1 DEF SendTo, HttpInv, HttpTypeOK, Parts
<1>3. /\ UNCHANGED <<queue, acceptor, pool>>
      /\ Accepted' = Accepted \ {c}
      /\ worker'[w].conn = NoConn /\ worker'[w].at = "checking"
      /\ \A v \in Workers : v # w => worker'[v] = worker[v]
    BY <1>0, <1>1 DEF HttpInv, HttpTypeOK, Accepted, SendTo
<1>4. \A v \in Workers : v # w => worker[v].conn # c
    BY <1>1 DEF HttpInv, OneOwner
<1>5. Serving' = Serving \ {c}
    BY <1>3, <1>4 DEF Serving
<1>6. OneOwner'
    BY <1>1, <1>3, <1>4, <1>5 DEF HttpInv, OneOwner, Accepted
<1>7. WorkersOwn' /\ AcceptorOwns' /\ Idle'
    BY <1>1, <1>3 DEF HttpInv, WorkersOwn, AcceptorOwns, Idle, Owning
<1> QED
    BY <1>0, <1>1, <1>2, <1>3, <1>5, <1>6, <1>7 DEF HttpInv, SendTo

LEMMA StartKeeps ==
    ASSUME HttpInv, Start
    PROVE  HttpInv' /\ Accepted' = Accepted /\ UNCHANGED <<queue, Serving>>
<1>1. /\ acceptor.conn = NoConn /\ acceptor'.conn = NoConn /\ acceptor'.at = "accepting"
      /\ UNCHANGED <<queue, socket>> /\ Accepted' = Accepted
    BY DEF HttpInv, HttpTypeOK, AcceptorOwns, Start, StartListening, Accepted
<1>2. HttpTypeOK'
  <2>1. /\ UNCHANGED <<up, deleted, queue, socket, arrived, browser>>
        /\ running' \in BOOLEAN /\ pool' \in {"null", "garbage", "started"}
      BY DEF HttpInv, HttpTypeOK, Start, StartListening
  <2>2. acceptor' = [at |-> "accepting", conn |-> NoConn]
      BY <1>1 DEF HttpInv, HttpTypeOK, Start, StartListening
  <2>3. worker' \in [Workers -> [at : {"off", "checking", "fetching", "waiting", "reading",
                                      "handling", "replying", "done"},
                                conn : Conns \cup {NoConn}, read : Parts]]
      BY DEF HttpInv, HttpTypeOK, Start, StartListening
  <2> QED
      BY <2>1, <2>2, <2>3 DEF HttpInv, HttpTypeOK
<1>3. \A w \in Workers : worker'[w].conn = worker[w].conn
    BY DEF HttpInv, HttpTypeOK, Start, StartListening
<1>4. WorkersOwn' /\ Idle'
    BY DEF HttpInv, HttpTypeOK, Start, StartListening, WorkersOwn, Owning, Idle
<1>5. OneOwner' /\ Serving' = Serving
    BY <1>1, <1>3, OwnersKept DEF HttpInv
<1> QED
    BY <1>1, <1>2, <1>4, <1>5 DEF HttpInv, AcceptorOwns

LEMMA StopWorkersKeeps ==
    ASSUME HttpInv, StopWorkers
    PROVE  HttpInv' /\ Accepted' = Accepted /\ UNCHANGED <<queue, Serving>>
<1>1. UNCHANGED <<up, pool, deleted, queue, acceptor, socket, arrived, browser>> /\ running' \in BOOLEAN
    BY DEF HttpInv, HttpTypeOK, StopWorkers
<1>2. /\ worker' \in [Workers -> [at : {"off", "checking", "fetching", "waiting", "reading",
                                        "handling", "replying", "done"},
                                  conn : Conns \cup {NoConn}, read : Parts]]
      /\ \A w \in Workers : worker'[w].conn = worker[w].conn
      /\ WorkersOwn' /\ Idle'
  <2>1. CASE pool = "null"
      BY <2>1, <1>1 DEF StopWorkers, HttpInv, HttpTypeOK, WorkersOwn, Idle
  <2>2. CASE pool # "null"
      BY <2>2, <1>1, WokenKeeps DEF StopWorkers, HttpInv
  <2> QED
      BY <2>1, <2>2
<1>3. HttpTypeOK'
    BY <1>1, <1>2 DEF HttpInv, HttpTypeOK
<1>4. Accepted' = Accepted
    BY <1>1 DEF Accepted
<1>5. OneOwner' /\ Serving' = Serving
    BY <1>1, <1>2, <1>4, OwnersKept DEF HttpInv
<1> QED
    BY <1>1, <1>2, <1>3, <1>4, <1>5 DEF HttpInv, AcceptorOwns

LEMMA StopAcceptingKeeps ==
    ASSUME HttpInv, StopAccepting
    PROVE  /\ HttpInv' /\ Accepted' = Accepted /\ UNCHANGED <<queue, Serving>>
           /\ pool' = "null" /\ worker' = worker
<1>1. /\ UNCHANGED <<queue, worker, socket>> /\ pool' = "null" /\ Accepted' = Accepted
      /\ acceptor'.conn = acceptor.conn
      /\ acceptor'.at \in {"holding", "cancelled"} <=> acceptor.at \in {"holding", "cancelled"}
    BY DEF StopAccepting, Accepted, HttpInv, HttpTypeOK
<1>2. HttpTypeOK'
    BY DEF StopAccepting, HttpInv, HttpTypeOK
<1>3. OneOwner' /\ Serving' = Serving
    BY <1>1, OwnersKept DEF HttpInv
<1>4. Idle'
    BY <1>1 DEF StopAccepting, Joined, HttpInv, Idle
<1> QED
    BY <1>1, <1>2, <1>3, <1>4 DEF HttpInv, WorkersOwn, AcceptorOwns

LEMMA ElsewhereKeeps ==
    ASSUME HttpInv, DeleteServer \/ Elsewhere
    PROVE  HttpInv' /\ Accepted' = Accepted /\ UNCHANGED <<queue, Serving>>
<1>1. UNCHANGED <<pool, queue, acceptor, worker, socket>>
    BY DEF DeleteServer, Elsewhere, serverVars
<1>2. HttpTypeOK'
    BY DEF HttpInv, HttpTypeOK, DeleteServer, Elsewhere, serverVars
<1>3. Accepted' = Accepted
    BY <1>1 DEF Accepted
<1>4. OneOwner' /\ Serving' = Serving
    BY <1>1, <1>3, OwnersKept DEF HttpInv
<1> QED
    BY <1>1, <1>2, <1>3, <1>4 DEF HttpInv, WorkersOwn, AcceptorOwns, Idle

-----------------------------------------------------------------------------
(* The invariant *)

LEMMA HttpInitially == HttpInit => HttpInv
<1> SUFFICES ASSUME HttpInit PROVE HttpInv
    OBVIOUS
<1>1. HttpTypeOK
  <2>1. browser \in [Conns -> {"here", "deaf", "left", "reset"}]
      BY DEF HttpInit
  <2>2. queue \in Seq(Conns)
      BY DEF HttpInit
  <2>3. up \in BOOLEAN /\ running \in BOOLEAN /\ deleted \in BOOLEAN
      BY DEF HttpInit
  <2> QED
      BY <2>1, <2>2, <2>3 DEF HttpInit, HttpTypeOK, Parts
<1>2. Serving = {} /\ DOMAIN queue = {}
    BY DEF HttpInit, Serving
<1>3. OneOwner
    BY <1>2 DEF HttpInit, OneOwner
<1> QED
    BY <1>1, <1>3 DEF HttpInit, HttpInv, WorkersOwn, AcceptorOwns, Idle, Owning

LEMMA HttpStepKeeps ==
    ASSUME HttpInv, ServerStep
    PROVE  HttpInv'
<1>1. CASE Browse
    BY <1>1, BrowseKeeps
<1>2. CASE Accepting
    BY <1>2, AcceptKeeps, EnqueueKeeps DEF Accepting
<1>3. CASE AcceptFails
    BY <1>3, AcceptFailsKeeps
<1>4. ASSUME NEW w \in Workers, Working(w) \/ HandlerReturns(w) \/ ReplyDeaf(w)
      PROVE  HttpInv'
    BY <1>4, FetchKeeps, WorkerGoesOn, ReplyKeeps DEF Working
<1>5. CASE Start
    BY <1>5, StartKeeps
<1>6. CASE StopWorkers
    BY <1>6, StopWorkersKeeps
<1>7. CASE StopAccepting
    BY <1>7, StopAcceptingKeeps
<1>8. CASE DeleteServer \/ Elsewhere
    BY <1>8, ElsewhereKeeps
<1> QED
    BY <1>1, <1>2, <1>3, <1>4, <1>5, <1>6, <1>7, <1>8 DEF ServerStep

LEMMA HttpNextIsServerStep ==
    ASSUME HttpInv, [HttpNext]_httpVars
    PROVE  ServerStep
<1>1. up \in BOOLEAN
    BY DEF HttpInv, HttpTypeOK
<1>2. CASE UNCHANGED httpVars
    BY <1>1, <1>2 DEF httpVars, serverVars, ServerStep, Elsewhere
<1>3. ASSUME NEW w \in Workers, Handle(w)
      PROVE  ServerStep
    BY <1>1, <1>3 DEF Handle, HandlerReturns, ServerStep
<1>4. CASE HttpNext
    BY <1>3, <1>4 DEF HttpNext, ServerStep
<1> QED
    BY <1>2, <1>4

-----------------------------------------------------------------------------
(* The queue it implements *)

Closed == {c \in Conns : socket[c] = "closed"}

LEMMA HttpInitiallyPromised == HttpInit => Promised!Init
    BY DEF HttpInit, Promised!Init, Serving

LEMMA HttpStepRefines ==
    ASSUME HttpInv, ServerStep
    PROVE  [Promised!Next]_(Promised!queueVars)
<1> USE DEF Promised!queueVars, Closed
<1>1. CASE Browse
  <2>1. UNCHANGED <<queue, Serving>>
      BY <1>1, BrowseKeeps
  <2>2. Closed' = Closed
      BY <1>1 DEF Browse, Connect, Send, Leave, HttpInv, HttpTypeOK
  <2> QED
      BY <2>1, <2>2
<1>2. ASSUME NEW c \in Conns, Accept(c)
      PROVE  [Promised!Next]_(Promised!queueVars)
  <2>1. UNCHANGED <<queue, Serving>>
      BY <1>2, AcceptKeeps
  <2>2. Closed' = Closed
      BY <1>2 DEF Accept, HttpInv, HttpTypeOK
  <2> QED
      BY <2>1, <2>2
<1>3. CASE Enqueue
  <2> DEFINE c == acceptor.conn
  <2>1. /\ queue' = Append(queue, c) /\ Serving' = Serving /\ c \in Accepted
        /\ c \in Conns /\ Closed' = Closed
      BY <1>3, EnqueueKeeps DEF Enqueue
  <2>2. c \notin {queue[i] : i \in DOMAIN queue} \cup Serving
      BY DEF HttpInv, OneOwner
  <2>3. c \notin Closed
      BY <2>1 DEF Accepted
  <2>4. Promised!Arrive
      BY <2>1, <2>2, <2>3 DEF Promised!Arrive, Promised!Known
  <2> QED
      BY <2>4 DEF Promised!Next
<1>4. CASE AcceptFails
  <2>1. UNCHANGED <<queue, Serving>> /\ Closed' = Closed
      BY <1>4, AcceptFailsKeeps DEF AcceptFails
  <2> QED
      BY <2>1
<1>5. ASSUME NEW w \in Workers, Fetch(w)
      PROVE  [Promised!Next]_(Promised!queueVars)
  <2>1. Closed' = Closed
      BY <1>5 DEF Fetch
  <2>2. \/ UNCHANGED <<queue, Serving>>
        \/ queue # << >> /\ queue' = Tail(queue) /\ Serving' = Serving \cup {Head(queue)}
      BY <1>5, FetchKeeps
  <2> QED
      BY <2>1, <2>2 DEF Promised!Next, Promised!Take
<1>6. ASSUME NEW w \in Workers, Reply(w) \/ ReplyDeaf(w)
      PROVE  [Promised!Next]_(Promised!queueVars)
  <2> DEFINE c == worker[w].conn
  <2>1. /\ queue' = queue /\ c \in Serving /\ Serving' = Serving \ {c}
        /\ socket' = [socket EXCEPT ![c] = "closed"]
      BY <1>6, ReplyKeeps
  <2>2. c \in Conns
      BY <2>1 DEF HttpInv, HttpTypeOK, Serving
  <2>3. Closed' = Closed \cup {c}
      BY <2>1, <2>2 DEF HttpInv, HttpTypeOK
  <2>4. Promised!Answer
      BY <2>1, <2>3 DEF Promised!Answer
  <2> QED
      BY <2>4 DEF Promised!Next
<1>7. ASSUME NEW w \in Workers,
             CheckRunning(w) \/ Read(w) \/ ReadEnd(w) \/ ReadBroken(w) \/ HandlerReturns(w)
      PROVE  [Promised!Next]_(Promised!queueVars)
  <2>1. UNCHANGED <<queue, Serving>>
      BY <1>7, WorkerGoesOn
  <2>2. Closed' = Closed
      BY <1>7 DEF CheckRunning, Read, ReadEnd, ReadBroken, HandlerReturns
  <2> QED
      BY <2>1, <2>2
<1>8. CASE Start \/ StopWorkers \/ StopAccepting \/ DeleteServer \/ Elsewhere
  <2>1. UNCHANGED <<queue, Serving>>
      BY <1>8, StartKeeps, StopWorkersKeeps, StopAcceptingKeeps, ElsewhereKeeps
  <2>2. Closed' = Closed
      BY <1>8 DEF Start, StartListening, StopWorkers, StopAccepting, DeleteServer, Elsewhere
  <2> QED
      BY <2>1, <2>2
<1> QED
    BY <1>1, <1>2, <1>3, <1>4, <1>5, <1>6, <1>7, <1>8 DEF ServerStep, Accepting, Working

-----------------------------------------------------------------------------
(* The server alone *)

\* HttpInv holds of the server in every state
THEOREM HttpInvariance == HttpSpec => []HttpInv
<1>1. HttpInv /\ [HttpNext]_httpVars => HttpInv'
    BY HttpNextIsServerStep, HttpStepKeeps
<1> QED
    BY HttpInitially, <1>1, PTL DEF HttpSpec

\* The threads of the server keep the queue it promises: each accepted connection
\* is queued once, taken in its turn and answered once
THEOREM ServerImplementsQueue == HttpSpec => Promised!Spec
<1>1. HttpInv /\ [HttpNext]_httpVars => [Promised!Next]_(Promised!queueVars)
    BY HttpNextIsServerStep, HttpStepRefines
<1> QED
    BY HttpInitiallyPromised, HttpInvariance, <1>1, PTL DEF HttpSpec, Promised!Spec

-----------------------------------------------------------------------------
(* The node *)

\* Where main is once it has deleted the pool, closed the store, and joined the
\* publish task and the lookup task
AfterPool == {"closeService", "deleteWeb", "deleteNode", "exited"}
AfterClose == {"stopWeb", "joinWeb"} \cup AfterPool
AfterPublish == {"close"} \cup AfterClose
AfterLookup == {"stopPublish", "joinPublish"} \cup AfterPublish

StepNames == {"tasks", "web", "server", "listen", "loop", "stopLookup", "joinLookup", "stopPublish",
              "joinPublish", "close", "stopWeb", "joinWeb", "closeService", "deleteWeb", "deleteNode",
              "exited"}

\* The part of NodeTypeOK that is not of the server
OwnTypes ==
    /\ mainAt \in StepNames \cup {"reading", "answering", "blocked"}
    /\ told \in BOOLEAN /\ locked \in BOOLEAN
    /\ silent \subseteq {"peer", "client", "service"}
    /\ store \in {"open", "closed", "deleted"}
    /\ task \in [Tasks -> [at : {"off", "begin", "targets", "network", "push", "sleep", "done"},
                          running : BOOLEAN]]
    /\ page \in [Workers -> {"none", "search", "network", "push", "last", "insert"}]
    /\ greeting \in [Greetings -> {"none", "look", "greet", "push", "republish"}]

NodePart ==
    /\ OwnTypes
    /\ mainAt \in {"tasks", "web"} => acceptor.at = "off"
    /\ \A w \in Workers : page[w] # "none" => worker[w].at = "handling"
    /\ mainAt \in AfterLookup => task["lookup"].at = "done"
    /\ mainAt \in AfterPublish => task["publish"].at = "done"
    /\ store # "open" => mainAt \in AfterClose
    /\ store = "deleted" => mainAt = "exited"
    /\ mainAt \in AfterPool => pool = "null"
    /\ deleted => mainAt \in {"deleteNode", "exited"}
    /\ late \subseteq {"page", "greeting", "join", "signal"}

NodeInv == HttpInv /\ NodePart

-----------------------------------------------------------------------------
(* The steps of main *)

LEMMA StepsDiffer ==
    /\ DOMAIN Steps = 1 .. 16
    /\ \A i, j \in 1 .. 16 : Steps[i] = Steps[j] => i = j
<1>1. DOMAIN Steps = 1 .. 16
    BY DEF Steps
<1>2. ASSUME NEW i \in 1 .. 16, NEW j \in 1 .. 16, Steps[i] = Steps[j]
      PROVE  i = j
    BY <1>2 DEF Steps
<1> QED
    BY <1>1, <1>2

LEMMA PlaceIs ==
    ASSUME NEW i \in 1 .. 16
    PROVE  Place(Steps[i]) = i
    BY StepsDiffer DEF Place

LEMMA MainGoes ==
    ASSUME NEW step, Main(step)
    PROVE  /\ step = "tasks" => mainAt' = "web"
           /\ step = "web" => mainAt' = "server"
           /\ step = "server" => mainAt' = "listen"
           /\ step = "loop" => mainAt' = "stopLookup"
           /\ step = "stopLookup" => mainAt' = "joinLookup"
           /\ step = "joinLookup" => mainAt' = "stopPublish"
           /\ step = "stopPublish" => mainAt' = "joinPublish"
           /\ step = "joinPublish" => mainAt' = "close"
           /\ step = "close" => mainAt' = "stopWeb"
           /\ step = "stopWeb" => mainAt' = "joinWeb"
           /\ step = "joinWeb" => mainAt' = "closeService"
           /\ step = "closeService" => mainAt' = "deleteWeb"
           /\ step = "deleteWeb" => mainAt' = "deleteNode"
           /\ step = "deleteNode" => mainAt' = "exited"
<1>1. ASSUME NEW i \in 1 .. 16, step = Steps[i]
      PROVE  mainAt' = Steps[i + 1]
    BY <1>1, PlaceIs DEF Main
<1>2. /\ Steps[1] = "tasks" /\ Steps[2] = "web" /\ Steps[3] = "server" /\ Steps[4] = "listen"
      /\ Steps[5] = "loop" /\ Steps[6] = "stopLookup" /\ Steps[7] = "joinLookup"
      /\ Steps[8] = "stopPublish" /\ Steps[9] = "joinPublish" /\ Steps[10] = "close"
      /\ Steps[11] = "stopWeb" /\ Steps[12] = "joinWeb" /\ Steps[13] = "closeService"
      /\ Steps[14] = "deleteWeb" /\ Steps[15] = "deleteNode" /\ Steps[16] = "exited"
    BY DEF Steps
<1> QED
    BY <1>1, <1>2

-----------------------------------------------------------------------------
(* Steps that are none of the server's *)

\* A step that leaves main, the store, the tasks' progress and the pages alone
LEMMA PartKept ==
    ASSUME NodePart, OwnTypes',
           UNCHANGED <<serverVars, mainAt, store, page>>,
           \A t \in Tasks : task[t].at = "done" => task'[t].at = "done",
           late' \subseteq {"page", "greeting", "join", "signal"}
    PROVE  NodePart'
    BY DEF NodePart, serverVars, Tasks

LEMMA TaskStep ==
    ASSUME NodeInv, NEW t \in Tasks, TaskThread(t) \/ TaskThrows(t)
    PROVE  ServerStep /\ NodePart'
<1>1. CASE TaskBegins(t)
  <2>1. ServerStep
      BY <1>1 DEF TaskBegins, ServerStep, Elsewhere, Uses, UsesNode, NodeInv, HttpInv, HttpTypeOK
  <2>2. task[t].running => late' = late
      BY <1>1 DEF TaskBegins, NodeInv, NodePart, Uses, UsesNode, AfterLookup, AfterPublish, AfterClose,
                  AfterPool, Tasks
  <2>3. late' = late
      BY <1>1, <2>2 DEF TaskBegins
  <2>4. \E at \in {"targets", "network", "sleep", "done"} : task' = [task EXCEPT ![t].at = at]
      BY <1>1 DEF TaskBegins
  <2>5. OwnTypes'
      BY <1>1, <2>4 DEF TaskBegins, NodeInv, NodePart, OwnTypes
  <2> QED
      BY <1>1, <2>1, <2>3, <2>4, <2>5, PartKept DEF TaskBegins, NodeInv, NodePart, OwnTypes
<1>2. CASE TaskHeard(t)
  <2>1. ServerStep
      BY <1>2 DEF TaskHeard, ServerStep, Elsewhere, httpVars, NodeInv, HttpInv, HttpTypeOK
  <2>2. OwnTypes'
      BY <1>2 DEF TaskHeard, NodeInv, NodePart, OwnTypes
  <2> QED
      BY <1>2, <2>1, <2>2, PartKept DEF TaskHeard, NodeInv, NodePart, OwnTypes, httpVars
<1>3. CASE TaskPushes(t)
  <2>1. ServerStep
      BY <1>3 DEF TaskPushes, ServerStep, Elsewhere, UsesNode, NodeInv, HttpInv, HttpTypeOK
  <2>2. late' = late
      BY <1>3 DEF TaskPushes, NodeInv, NodePart, UsesNode, AfterLookup, AfterPublish, AfterClose,
                  AfterPool, Tasks
  <2>3. OwnTypes'
      BY <1>3 DEF TaskPushes, NodeInv, NodePart, OwnTypes
  <2> QED
      BY <1>3, <2>1, <2>2, <2>3, PartKept DEF TaskPushes, NodeInv, NodePart, OwnTypes
<1>4. CASE TaskWakes(t)
  <2>1. ServerStep
      BY <1>4 DEF TaskWakes, ServerStep, Elsewhere, httpVars, NodeInv, HttpInv, HttpTypeOK
  <2>2. OwnTypes'
      BY <1>4 DEF TaskWakes, NodeInv, NodePart, OwnTypes
  <2> QED
      BY <1>4, <2>1, <2>2, PartKept DEF TaskWakes, NodeInv, NodePart, OwnTypes, httpVars
<1>6. CASE TaskTargets(t)
  <2>1. ServerStep
      BY <1>6 DEF TaskTargets, ServerStep, Elsewhere, Uses, NodeInv, HttpInv, HttpTypeOK
  <2>2. late' = late
      BY <1>6 DEF TaskTargets, NodeInv, NodePart, Uses, AfterLookup, AfterPublish, AfterClose,
                  AfterPool, Tasks
  <2>3. OwnTypes'
      BY <1>6 DEF TaskTargets, NodeInv, NodePart, OwnTypes
  <2> QED
      BY <1>6, <2>1, <2>2, <2>3, PartKept DEF TaskTargets, NodeInv, NodePart, OwnTypes
<1>5. CASE TaskThrows(t)
  <2>1. ServerStep
      BY <1>5 DEF TaskThrows, ServerStep, Elsewhere
  <2> QED
      BY <1>5, <2>1, PartKept DEF TaskThrows, NodeInv, NodePart, OwnTypes, nodeVars
<1> QED
    BY <1>1, <1>2, <1>3, <1>4, <1>5, <1>6 DEF TaskThread

LEMMA DetachedStep ==
    ASSUME NodeInv, NEW g \in Greetings, DetachedThread(g)
    PROVE  ServerStep /\ NodePart'
<1>1. /\ UNCHANGED <<serverVars, socket, arrived, browser, mainAt, told, locked, silent, store, task, page>>
      /\ up' \in BOOLEAN /\ late' \subseteq late \cup {"greeting"}
    BY DEF DetachedThread, GreetingLooks, GreetingHeard, GreetingPushes, UsesNode, NodeInv, HttpInv, HttpTypeOK
<1>2. greeting' \in [Greetings -> {"none", "look", "greet", "push", "republish"}]
    BY DEF DetachedThread, GreetingLooks, GreetingHeard, GreetingPushes, NodeInv, NodePart, OwnTypes
<1>3. ServerStep
    BY <1>1 DEF ServerStep, Elsewhere
<1>4. OwnTypes'
    BY <1>1, <1>2 DEF NodeInv, NodePart, OwnTypes
<1> QED
    BY <1>1, <1>3, <1>4, PartKept DEF NodeInv, NodePart

\* The loop of the P2P server: main is at a request, or between two
LEMMA ServeStep ==
    ASSUME NodeInv,
           \/ BeginRequest \/ NoRequest \/ ServeOther \/ Answered
           \/ \E g \in Greetings : ServePing(g)
    PROVE  ServerStep /\ NodePart'
<1> DEFINE Serves == {"loop", "reading", "answering", "blocked"}
<1>1. mainAt \in Serves /\ mainAt' \in Serves
    BY DEF BeginRequest, NoRequest, ServeOther, Answered, ServePing, Received
<1>2. store = "open"
    BY <1>1 DEF NodeInv, NodePart, OwnTypes, AfterClose, AfterPool
<1>3. /\ UNCHANGED <<serverVars, socket, arrived, browser, told, silent, store, task, page, late>>
      /\ up' \in BOOLEAN /\ locked' \in BOOLEAN
    BY <1>2 DEF BeginRequest, NoRequest, ServeOther, Answered, ServePing, Uses, httpVars,
                NodeInv, NodePart, OwnTypes, HttpInv, HttpTypeOK
<1>4. greeting' \in [Greetings -> {"none", "look", "greet", "push", "republish"}]
    BY DEF BeginRequest, NoRequest, ServeOther, Answered, ServePing, NodeInv, NodePart, OwnTypes
<1>5. ServerStep
    BY <1>3 DEF ServerStep, Elsewhere
<1>6. OwnTypes'
    BY <1>1, <1>3, <1>4 DEF NodeInv, NodePart, OwnTypes, StepNames
<1> QED
    BY <1>1, <1>2, <1>3, <1>5, <1>6 DEF NodeInv, NodePart, serverVars, AfterLookup, AfterPublish,
                                        AfterClose, AfterPool

LEMMA SurroundingsStep ==
    ASSUME NodeInv,
           \/ Interrupt \/ CloseServiceFails
           \/ \E who \in {"peer", "client", "service"} : FallSilent(who)
    PROVE  ServerStep /\ NodePart'
<1>2. CASE Interrupt
  <2>1. /\ UNCHANGED <<serverVars, socket, arrived, browser, mainAt, locked, silent, store, task, page, greeting>>
        /\ up' \in BOOLEAN /\ told' = TRUE /\ late' \subseteq late \cup {"signal"}
      BY <1>2 DEF Interrupt, NodeInv, HttpInv, HttpTypeOK
  <2>2. ServerStep
      BY <2>1 DEF ServerStep, Elsewhere
  <2> QED
      BY <2>1, <2>2, PartKept DEF NodeInv, NodePart, OwnTypes
<1>3. CASE \E who \in {"peer", "client", "service"} : FallSilent(who)
  <2>1. ServerStep
      BY <1>3 DEF FallSilent, httpVars, ServerStep, Elsewhere, NodeInv, HttpInv, HttpTypeOK
  <2> QED
      BY <1>3, <2>1, PartKept DEF FallSilent, httpVars, NodeInv, NodePart, OwnTypes
<1>4. CASE CloseServiceFails
  <2>1. ServerStep
      BY <1>4 DEF CloseServiceFails, ServerStep, Elsewhere
  <2> QED
      BY <1>4, <2>1, PartKept DEF CloseServiceFails, NodeInv, NodePart, OwnTypes, nodeVars
<1> QED
    BY <1>2, <1>3, <1>4

-----------------------------------------------------------------------------
(* Steps of the server *)

\* A step of its threads or of a browser, with the node as it was
LEMMA ServerThreadStep ==
    ASSUME NodeInv,
           \/ Browse \/ Accepting \/ AcceptFails
           \/ \E w \in Workers : Working(w) \/ ReplyDeaf(w),
           UNCHANGED nodeVars
    PROVE  ServerStep /\ NodePart'
<1>1. ServerStep
    BY DEF ServerStep
<1>2. UNCHANGED <<pool, deleted>> /\ (acceptor.at = "off" => acceptor' = acceptor)
    BY DEF Browse, Connect, Send, Leave, Accepting, Accept, Enqueue, AcceptFails, Working, CheckRunning,
           Fetch, Read, ReadEnd, ReadBroken, Reply, ReplyDeaf, SendTo, serverVars
<1>3. ASSUME NEW w \in Workers, worker[w].at = "handling"
      PROVE  worker'[w].at = "handling"
  <2>1. CASE Browse \/ AcceptFails \/ \E c \in Conns : Accept(c)
      BY <1>3, <2>1 DEF Browse, Connect, Send, Leave, AcceptFails, Accept, serverVars
  <2>2. CASE Enqueue
      BY <1>3, <2>2 DEF Enqueue, Woken
  <2>3. ASSUME NEW v \in Workers, Working(v) \/ ReplyDeaf(v)
        PROVE  worker'[w].at = "handling"
    <3>1. worker[v].at # "handling"
        BY <2>3 DEF Working, CheckRunning, Fetch, Read, ReadEnd, ReadBroken, Reply, ReplyDeaf, SendTo
    <3>2. worker'[w] = worker[w]
        BY <1>3, <2>3, <3>1 DEF Working, CheckRunning, Fetch, Read, ReadEnd, ReadBroken, Reply, ReplyDeaf, SendTo, Goes,
                                serverVars, NodeInv, HttpInv, HttpTypeOK
    <3> QED
        BY <1>3, <3>2
  <2> QED
      BY <2>1, <2>2, <2>3 DEF Accepting
<1>4. OwnTypes'
    BY DEF nodeVars, NodeInv, NodePart, OwnTypes
<1> QED
    BY <1>1, <1>2, <1>3, <1>4 DEF nodeVars, NodeInv, NodePart

\* A worker goes on with its page, and keeps its connection until the page is made
LEMMA PageStep ==
    ASSUME NodeInv, NEW w \in Workers,
           \/ OpenPage(w) \/ SearchBegins(w) \/ SearchHeard(w) \/ SearchPushes(w)
           \/ Insert(w) \/ InsertFails(w)
    PROVE  ServerStep /\ NodePart'
<1>1. worker[w].at = "handling"
    BY DEF OpenPage, SearchBegins, SearchHeard, SearchPushes, Insert, InsertFails, NodeInv, NodePart
<1>2. /\ UNCHANGED <<running, pool, deleted, queue, acceptor, socket, arrived, browser,
                     mainAt, told, silent, store, task>>
      /\ up' \in BOOLEAN /\ locked' \in BOOLEAN /\ late' \subseteq late \cup {"page"}
    BY DEF OpenPage, SearchBegins, SearchHeard, SearchPushes, Insert, InsertFails, Uses, UsesNode, serverVars,
           NodeInv, NodePart, OwnTypes, HttpInv, HttpTypeOK
<1>3. greeting' \in [Greetings -> {"none", "look", "greet", "push", "republish"}]
    BY DEF OpenPage, SearchBegins, SearchHeard, SearchPushes, Insert, InsertFails, NodeInv, NodePart, OwnTypes
<1>4. \E at \in {"none", "search", "network", "push", "last", "insert"} :
        /\ page' = [page EXCEPT ![w] = at]
        /\ \/ worker' = worker
           \/ Goes(w, "replying") /\ at = "none"
  <2>1. page = [page EXCEPT ![w] = page[w]] /\ (page[w] = "none" \/ page[w] # "none")
      BY DEF NodeInv, NodePart, OwnTypes
  <2> QED
      BY <2>1 DEF OpenPage, SearchBegins, SearchHeard, SearchPushes, Insert, InsertFails, PageGoes, serverVars
<1>5. ServerStep
    BY <1>1, <1>2, <1>4 DEF ServerStep, Elsewhere, HandlerReturns, serverVars
<1>6. OwnTypes'
    BY <1>2, <1>3, <1>4 DEF NodeInv, NodePart, OwnTypes
<1>7. \A v \in Workers : page'[v] # "none" => worker'[v].at = "handling"
    BY <1>1, <1>4 DEF Goes, NodeInv, NodePart, OwnTypes, HttpInv, HttpTypeOK
<1> QED
    BY <1>2, <1>5, <1>6, <1>7 DEF NodeInv, NodePart

-----------------------------------------------------------------------------
(* Steps of main *)

\* A step of main that is none of the server's, nor an end of the store or of a task
LEMMA MainOwnStep ==
    ASSUME NodeInv, StartTasks \/ NewServer \/ Listen \/ EndLoop
    PROVE  ServerStep /\ NodePart'
<1>1. /\ UNCHANGED <<httpVars, told, locked, silent, store, page, greeting, late>>
      /\ task' \in [Tasks -> [at : {"off", "begin", "targets", "network", "push", "sleep", "done"},
                               running : BOOLEAN]]
  <2>1. UNCHANGED <<httpVars, told, locked, silent, store, page, greeting, late>>
      BY DEF StartTasks, NewServer, Listen, EndLoop
  <2>2. task' = task \/ task' = [t \in Tasks |-> [at |-> "begin", running |-> TRUE]]
      BY DEF StartTasks, NewServer, Listen, EndLoop
  <2>3. CASE task' = task
      BY <2>1, <2>3 DEF NodeInv, NodePart, OwnTypes
  <2>4. CASE task' = [t \in Tasks |-> [at |-> "begin", running |-> TRUE]]
      BY <2>1, <2>4
  <2> QED
      BY <2>2, <2>3, <2>4
<1>2. /\ mainAt \in {"tasks", "server", "listen", "loop"}
      /\ mainAt = "tasks" => mainAt' = "web"
      /\ mainAt # "tasks" => mainAt' \in {"listen", "loop", "stopLookup"}
    BY MainGoes DEF StartTasks, NewServer, Listen, EndLoop, Main
<1>3. ServerStep
    BY <1>1 DEF httpVars, ServerStep, Elsewhere, NodeInv, HttpInv, HttpTypeOK
<1>4. OwnTypes'
    BY <1>1, <1>2 DEF NodeInv, NodePart, OwnTypes, StepNames
<1> QED
    BY <1>1, <1>2, <1>3, <1>4 DEF NodeInv, NodePart, httpVars, serverVars, AfterLookup, AfterPublish,
                                  AfterClose, AfterPool

LEMMA StopTaskStep ==
    ASSUME NodeInv,
           \/ StopTask("stopLookup", "lookup") \/ JoinTask("joinLookup", "lookup")
           \/ StopTask("stopPublish", "publish") \/ JoinTask("joinPublish", "publish")
    PROVE  ServerStep /\ NodePart'
<1>1. UNCHANGED <<httpVars, told, locked, silent, store, page, greeting, late>>
    BY DEF StopTask, JoinTask
<1>2. /\ task' \in [Tasks -> [at : {"off", "begin", "targets", "network", "push", "sleep", "done"},
                               running : BOOLEAN]]
      /\ \A t \in Tasks : task'[t].at = task[t].at
  <2>1. task' = task \/ \E t \in Tasks : task' = [task EXCEPT ![t].running = FALSE]
      BY DEF StopTask, JoinTask, Tasks
  <2>2. task \in [Tasks -> [at : {"off", "begin", "targets", "network", "push", "sleep", "done"},
                            running : BOOLEAN]]
      BY DEF NodeInv, NodePart, OwnTypes
  <2>3. \A t \in Tasks : /\ [task EXCEPT ![t].running = FALSE] \in
                              [Tasks -> [at : {"off", "begin", "targets", "network", "push", "sleep", "done"},
                                         running : BOOLEAN]]
                         /\ \A u \in Tasks : [task EXCEPT ![t].running = FALSE][u].at = task[u].at
      BY <2>2
  <2> QED
      BY <2>1, <2>2, <2>3
<1>3. \/ mainAt = "stopLookup" /\ mainAt' = "joinLookup"
      \/ mainAt = "joinLookup" /\ mainAt' = "stopPublish" /\ task["lookup"].at = "done"
      \/ mainAt = "stopPublish" /\ mainAt' = "joinPublish"
      \/ mainAt = "joinPublish" /\ mainAt' = "close" /\ task["publish"].at = "done"
    BY MainGoes DEF StopTask, JoinTask, Main
<1>4. ServerStep
    BY <1>1 DEF httpVars, ServerStep, Elsewhere, NodeInv, HttpInv, HttpTypeOK
<1>5. OwnTypes'
    BY <1>1, <1>2, <1>3 DEF NodeInv, NodePart, OwnTypes, StepNames
<1> QED
    BY <1>1, <1>2, <1>3, <1>4, <1>5 DEF NodeInv, NodePart, httpVars, serverVars, AfterLookup, AfterPublish,
                                        AfterClose, AfterPool, Tasks

\* main closes the store, or deletes the node
LEMMA EndStep ==
    ASSUME NodeInv, Close \/ DeleteNode \/ Exit
    PROVE  ServerStep /\ NodePart'
<1>1. /\ UNCHANGED <<serverVars, socket, arrived, browser, told, locked, silent, task, page, greeting>>
      /\ up' \in BOOLEAN /\ late' \subseteq late \cup {"join"}
    BY DEF Close, DeleteNode, Exit, httpVars, nodeVars, NodeInv, HttpInv, HttpTypeOK
<1>2. \/ mainAt = "close" /\ mainAt' = "stopWeb" /\ store' = "closed"
      \/ mainAt = "deleteNode" /\ mainAt' = "exited" /\ store' = "deleted"
      \/ mainAt = "exited" /\ mainAt' = "exited" /\ store' = store
    BY MainGoes DEF Close, DeleteNode, Exit, Main, nodeVars
<1>3. ServerStep
    BY <1>1 DEF ServerStep, Elsewhere
<1>4. OwnTypes'
    BY <1>1, <1>2 DEF NodeInv, NodePart, OwnTypes, StepNames
<1> QED
    BY <1>1, <1>2, <1>3, <1>4 DEF NodeInv, NodePart, serverVars, AfterLookup, AfterPublish,
                                  AfterClose, AfterPool

LEMMA CloseServiceStep ==
    ASSUME NodeInv, CloseService
    PROVE  ServerStep /\ NodePart'
<1>1. mainAt = "closeService" /\ mainAt' = "deleteWeb"
    BY MainGoes DEF CloseService, Main
<1>2. UNCHANGED <<httpVars, told, locked, silent, store, task, page, greeting, late>>
    BY DEF CloseService
<1>3. ServerStep
    BY <1>2 DEF httpVars, ServerStep, Elsewhere, NodeInv, HttpInv, HttpTypeOK
<1>4. OwnTypes'
    BY <1>1, <1>2 DEF NodeInv, NodePart, OwnTypes, StepNames
<1> QED
    BY <1>1, <1>2, <1>3, <1>4 DEF NodeInv, NodePart, httpVars, serverVars, AfterLookup, AfterPublish,
                                  AfterClose, AfterPool

\* main starts, stops or deletes the web server
LEMMA MainWebStep ==
    ASSUME NodeInv, StartWeb \/ StopWeb \/ JoinWeb \/ DeleteWeb
    PROVE  ServerStep /\ NodePart'
<1>1. UNCHANGED <<told, locked, silent, store, task, page, greeting, late>>
    BY DEF StartWeb, StopWeb, JoinWeb, DeleteWeb
<1>2. CASE StartWeb
  <2>1. mainAt = "web" /\ mainAt' = "server"
      BY <1>2, MainGoes DEF StartWeb, Main
  <2>2. acceptor.at = "off" /\ ~deleted
      BY <2>1 DEF NodeInv, NodePart, HttpInv, HttpTypeOK
  <2>3. ServerStep
      BY <1>2, <2>2 DEF StartWeb, ServerStep, Start, StartFails, httpVars, Elsewhere, NodeInv, HttpInv, HttpTypeOK
  <2>4. UNCHANGED deleted /\ (worker' # worker => pool = "null")
      BY <1>2 DEF StartWeb, StartListening, StartFails, httpVars, serverVars
  <2>5. \A w \in Workers : page'[w] # "none" => worker'[w].at = "handling"
      BY <1>1, <2>4 DEF NodeInv, NodePart, HttpInv, Idle
  <2>6. OwnTypes'
      BY <1>1, <2>1 DEF NodeInv, NodePart, OwnTypes, StepNames
  <2> QED
      BY <1>1, <2>1, <2>3, <2>4, <2>5, <2>6 DEF NodeInv, NodePart, AfterLookup, AfterPublish,
                                                AfterClose, AfterPool
<1>3. CASE StopWeb
  <2>1. mainAt = "stopWeb" /\ mainAt' = "joinWeb"
      BY <1>3, MainGoes DEF StopWeb, Main
  <2>2. ServerStep /\ UNCHANGED deleted
      BY <1>3 DEF StopWeb, ServerStep, StopWorkers
  <2>3. \A w \in Workers : worker[w].at = "handling" => worker'[w].at = "handling"
      BY <1>3 DEF StopWeb, StopWorkers, Woken
  <2>4. OwnTypes'
      BY <1>1, <2>1 DEF NodeInv, NodePart, OwnTypes, StepNames
  <2> QED
      BY <1>1, <2>1, <2>2, <2>3, <2>4 DEF NodeInv, NodePart, AfterLookup, AfterPublish, AfterClose, AfterPool
<1>4. CASE JoinWeb
  <2>1. mainAt = "joinWeb" /\ mainAt' = "closeService"
      BY <1>4, MainGoes DEF JoinWeb, Main
  <2>2. ServerStep /\ UNCHANGED <<deleted, worker>> /\ pool' = "null"
      BY <1>4 DEF JoinWeb, ServerStep, StopAccepting, Elsewhere, httpVars, serverVars, NodeInv, HttpInv, HttpTypeOK
  <2>3. OwnTypes'
      BY <1>1, <2>1 DEF NodeInv, NodePart, OwnTypes, StepNames
  <2> QED
      BY <1>1, <2>1, <2>2, <2>3 DEF NodeInv, NodePart, AfterLookup, AfterPublish, AfterClose, AfterPool
<1>5. CASE DeleteWeb
  <2>1. mainAt = "deleteWeb" /\ mainAt' = "deleteNode"
      BY <1>5, MainGoes DEF DeleteWeb, Main
  <2>2. ServerStep /\ UNCHANGED <<worker, pool>>
      BY <1>5 DEF DeleteWeb, ServerStep, DeleteServer
  <2>3. OwnTypes'
      BY <1>1, <2>1 DEF NodeInv, NodePart, OwnTypes, StepNames
  <2> QED
      BY <1>1, <2>1, <2>2, <2>3 DEF NodeInv, NodePart, AfterLookup, AfterPublish, AfterClose, AfterPool
<1> QED
    BY <1>2, <1>3, <1>4, <1>5

-----------------------------------------------------------------------------
(* The invariant *)

LEMMA NodeInitially == NodeInit => NodeInv
<1> SUFFICES ASSUME NodeInit PROVE NodeInv
    OBVIOUS
<1>1. HttpInv
    BY HttpInitially DEF NodeInit
<1>2. OwnTypes
    BY DEF NodeInit, OwnTypes, StepNames, Tasks
<1> QED
    BY <1>1, <1>2 DEF NodeInit, HttpInit, NodeInv, NodePart, AfterLookup, AfterPublish, AfterClose, AfterPool

LEMMA NodeStepKeeps ==
    ASSUME NodeInv, [NodeNext]_vars
    PROVE  ServerStep /\ NodeInv'
<1>1. CASE UNCHANGED vars
  <2>1. ServerStep
      BY <1>1 DEF vars, httpVars, ServerStep, Elsewhere, NodeInv, HttpInv, HttpTypeOK
  <2>2. NodePart'
      BY <1>1 DEF vars, httpVars, serverVars, nodeVars, NodeInv, NodePart, OwnTypes
  <2> QED
      BY <2>1, <2>2, HttpStepKeeps DEF NodeInv
<1>2. CASE NodeNext
  <2>1. ServerStep /\ NodePart'
    <3>1. CASE MainThread
        BY <3>1, MainOwnStep, ServeStep, StopTaskStep, EndStep, MainWebStep, CloseServiceStep DEF MainThread
    <3>2. CASE AcceptThread
        BY <3>2, ServerThreadStep DEF AcceptThread
    <3>3. CASE Surroundings
        BY <3>3, ServerThreadStep, SurroundingsStep, ServeStep, PageStep, TaskStep DEF Surroundings
    <3>4. ASSUME NEW t \in Tasks, TaskThread(t)
          PROVE  ServerStep /\ NodePart'
        BY <3>4, TaskStep
    <3>5. ASSUME NEW w \in Workers, WorkerThread(w)
          PROVE  ServerStep /\ NodePart'
        BY <3>5, ServerThreadStep, PageStep DEF WorkerThread
    <3>6. ASSUME NEW g \in Greetings, DetachedThread(g)
          PROVE  ServerStep /\ NodePart'
        BY <3>6, DetachedStep
    <3> QED
        BY <1>2, <3>1, <3>2, <3>3, <3>4, <3>5, <3>6 DEF NodeNext
  <2> QED
      BY <2>1, HttpStepKeeps DEF NodeInv
<1> QED
    BY <1>1, <1>2

\* NodeInv holds of the node in every state
THEOREM NodeInvariance == NodeSpec => []NodeInv
<1>1. NodeInv /\ [NodeNext]_vars => NodeInv'
    BY NodeStepKeeps
<1> QED
    BY NodeInitially, <1>1, PTL DEF NodeSpec

-----------------------------------------------------------------------------
(* What it says of the node *)

\* Every variable of the node and of its server has its type
THEOREM NodeTypes == NodeSpec => []NodeTypeOK
<1>1. {Steps[i] : i \in DOMAIN Steps} = StepNames
    BY StepsDiffer DEF Steps, StepNames
<1>2. NodeInv => NodeTypeOK
    BY <1>1 DEF NodeInv, NodePart, OwnTypes, HttpInv, NodeTypeOK, Tasks
<1> QED
    BY NodeInvariance, <1>2, PTL

\* A connection the web server accepted is in one place, whatever the handlers and
\* main do
THEOREM OneOwnerInNode == NodeSpec => []OneOwner
<1>1. NodeInv => OneOwner
    BY DEF NodeInv, HttpInv
<1> QED
    BY NodeInvariance, <1>1, PTL

\* Neither a task nor the P2P server uses the store after it is closed or the node
\* after it is deleted, and no page outlives the web server
THEOREM OnlyKnownAreLate == NodeSpec => []OnlyKnownLate
<1>1. NodeInv => OnlyKnownLate
    BY DEF NodeInv, NodePart, HttpInv, Idle, AfterPool, OnlyKnownLate
<1> QED
    BY NodeInvariance, <1>1, PTL

\* In the node, too, the server implements the queue it promises
THEOREM NodeImplementsQueue == NodeSpec => ImplementsRequestQueue
<1>1. NodeInv /\ [NodeNext]_vars => [Promised!Next]_(Promised!queueVars)
    BY NodeStepKeeps, HttpStepRefines DEF NodeInv
<1>2. NodeInit => Promised!Init
    BY HttpInitiallyPromised DEF NodeInit
<1> QED
    BY NodeInvariance, <1>1, <1>2, PTL DEF NodeSpec, Promised!Spec, ImplementsRequestQueue
=============================================================================
