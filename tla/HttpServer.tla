----------------------------- MODULE HttpServer -----------------------------
(***************************************************************************)
(* The web server of a node (src/webserver/httpserver.cpp): a thread that  *)
(* accepts connections and queues them, a pool of workers that read a      *)
(* request each, handle it, reply and close, and the shutdown.             *)
(*                                                                         *)
(* The mutex of the server guards short sections that wait for nothing, so *)
(* a section is one step; the only wait inside is the condition variable.  *)
(* Neither recv() nor send() has a timeout.  Browsers send a request in    *)
(* one part or several, stop to read, leave or reset.                      *)
(***************************************************************************)
EXTENDS Naturals, Sequences, FiniteSets

CONSTANTS
    Conns,      \* the connections browsers make
    Workers,    \* the threads of the pool, THREAD_POOL_SZ
    Backlog,    \* the second argument of listen()
    NoConn      \* no connection

ASSUME HttpAssumption ==
    /\ NoConn \notin Conns
    /\ IsFiniteSet(Workers) /\ Workers # {}
    /\ Backlog \in Nat \ {0}

VARIABLES
    up,         \* the process lives
    running,    \* HttpServer::running
    pool,       \* threadPool: "null", "garbage" or "started"
    deleted,    \* the destructor has run
    queue,      \* clientsQueue
    acceptor,   \* the accept thread: where it is, and its client_fd
    worker,     \* each worker: where it is, its client_fd, and what it has read
    socket,     \* the server's end of a connection
    arrived,    \* what has arrived on it and was not read yet
    browser     \* the other end: "here", "deaf" (it reads no more), "left" or "reset"

serverVars == <<running, pool, deleted, queue, acceptor, worker>>
httpVars == <<up, serverVars, socket, arrived, browser>>

\* What recv finds: a last part, after which a request is whole or not, or a
\* part that fills the buffer to the last byte
Parts == {"nothing", "whole", "cut", "full"}

Pending == {c \in Conns : socket[c] = "backlog"}

-----------------------------------------------------------------------------
(* Browsers *)

Connect(c) ==
    /\ socket[c] = "none"
    /\ browser[c] = "here"
    /\ acceptor.at # "off" /\ pool # "null"    \* between listen() and close()
    /\ Cardinality(Pending) < Backlog
    /\ socket' = [socket EXCEPT ![c] = "backlog"]
    /\ UNCHANGED <<up, serverVars, arrived, browser>>

Send(c) ==
    /\ socket[c] \in {"backlog", "accepted"}
    /\ arrived[c] = "nothing"
    /\ browser[c] \in {"here", "deaf"}
    /\ \E part \in Parts \ {"nothing"} : arrived' = [arrived EXCEPT ![c] = part]
    /\ UNCHANGED <<up, serverVars, socket, browser>>

\* The browser closes its end, the connection breaks, or it stays and nobody reads
Leave(c) ==
    /\ socket[c] \in {"backlog", "accepted"}
    /\ browser[c] \in {"here", "deaf"}
    /\ \E end \in {"left", "reset", "deaf"} \ {browser[c]} :
        browser' = [browser EXCEPT ![c] = end]
    /\ UNCHANGED <<up, serverVars, socket, arrived>>

-----------------------------------------------------------------------------
(* The accept thread *)

Accept(c) ==
    /\ acceptor.at = "accepting"
    /\ socket[c] = "backlog"
    /\ socket' = [socket EXCEPT ![c] = "accepted"]
    /\ acceptor' = [at |-> "holding", conn |-> c]
    /\ UNCHANGED <<up, running, pool, deleted, queue, worker, arrived, browser>>

\* Mutant of AcceptFails: the descriptor -1 is queued like another
AcceptFailsQueued ==
    /\ acceptor.at = "accepting"
    /\ queue' = Append(queue, NoConn)
    /\ UNCHANGED <<up, running, pool, deleted, acceptor, worker, socket, arrived, browser>>

\* accept() fails, for want of descriptors or of the connection: the thread ends
AcceptFails ==
    /\ acceptor.at = "accepting"
    /\ acceptor' = [at |-> "ended", conn |-> NoConn]
    /\ UNCHANGED <<up, running, pool, deleted, queue, worker, socket, arrived, browser>>

\* Mutant of Woken: the condition is signalled to nobody
WokenNone(some) == worker

\* pthread_cond_signal wakes some waiter, if one waits; broadcast wakes them all
Woken(some) ==
    [w \in Workers |-> IF w \in some /\ worker[w].at = "waiting"
                       THEN [worker[w] EXCEPT !.at = "fetching"] ELSE worker[w]]

\* Mutant of Enqueue: the newest is put in front
EnqueueInFront ==
    /\ acceptor.at \in {"holding", "cancelled"}
    /\ acceptor.conn \in Conns
    /\ queue' = <<acceptor.conn>> \o queue
    /\ \E w \in Workers :
        /\ (\E v \in Workers : worker[v].at = "waiting") => worker[w].at = "waiting"
        /\ worker' = Woken({w})
    /\ acceptor' = [at |-> IF acceptor.at = "holding" THEN "accepting" ELSE "ended", conn |-> NoConn]
    /\ up' \in IF deleted THEN BOOLEAN ELSE {up}
    /\ UNCHANGED <<running, pool, deleted, socket, arrived, browser>>

\* The section of acceptFun, which ends in accept(), where a thread that was
\* cancelled ends, if it did not end at LOG_F, with its connection.  After the
\* destructor it uses what was deleted.
Enqueue ==
    /\ acceptor.at \in {"holding", "cancelled"}
    /\ acceptor.conn \in Conns
    /\ queue' = Append(queue, acceptor.conn)
    /\ \E w \in Workers :
        /\ (\E v \in Workers : worker[v].at = "waiting") => worker[w].at = "waiting"
        /\ worker' = Woken({w})
    /\ acceptor' = [at |-> IF acceptor.at = "holding" THEN "accepting" ELSE "ended", conn |-> NoConn]
    /\ up' \in IF deleted THEN BOOLEAN ELSE {up}
    /\ UNCHANGED <<running, pool, deleted, socket, arrived, browser>>

-----------------------------------------------------------------------------
(* A worker *)

Goes(w, at) == worker' = [worker EXCEPT ![w].at = at]

\* while (srv->running)
CheckRunning(w) ==
    /\ worker[w].at = "checking"
    /\ Goes(w, IF running THEN "fetching" ELSE "done")
    /\ UNCHANGED <<up, running, pool, deleted, queue, acceptor, socket, arrived, browser>>

\* Mutant of Fetch: the connection is served and stays in the queue
FetchTwice(w) ==
    /\ worker[w].at = "fetching"
    /\ IF queue = << >>
       THEN Goes(w, IF running THEN "waiting" ELSE "done")
       ELSE worker' = [worker EXCEPT ![w] = [at |-> "reading", conn |-> Head(queue), read |-> "nothing"]]
    /\ UNCHANGED <<up, running, pool, deleted, queue, acceptor, socket, arrived, browser>>

\* The section of accessHandlerCallback, up to the wait or to its end
Fetch(w) ==
    /\ worker[w].at = "fetching"
    /\ IF queue = << >>
       THEN /\ Goes(w, IF running THEN "waiting" ELSE "done")
            /\ UNCHANGED queue
       ELSE /\ worker' = [worker EXCEPT ![w] = [at |-> "reading", conn |-> Head(queue), read |-> "nothing"]]
            /\ queue' = Tail(queue)
    /\ UNCHANGED <<up, running, pool, deleted, acceptor, socket, arrived, browser>>

\* A part shorter than the buffer ends the loop over recv(), and a full one does
\* not; without a whole request the worker goes on to the page of the error
Read(w) ==
    LET c == worker[w].conn
    IN  /\ worker[w].at = "reading"
        /\ arrived[c] # "nothing"
        /\ arrived' = [arrived EXCEPT ![c] = "nothing"]
        /\ worker' = [worker EXCEPT ![w].read = arrived[c],
                                    ![w].at = CASE arrived[c] = "full" -> "reading"
                                                [] arrived[c] = "whole" -> "handling"
                                                [] arrived[c] = "cut" -> "replying"]
        /\ UNCHANGED <<up, running, pool, deleted, queue, acceptor, socket, browser>>

\* recv() returns 0: what has been read so far is the request
ReadEnd(w) ==
    LET c == worker[w].conn
    IN  /\ worker[w].at = "reading"
        /\ arrived[c] = "nothing"
        /\ browser[c] = "left"
        /\ \/ worker[w].read = "full" /\ Goes(w, "handling")
           \/ Goes(w, "replying")
        /\ UNCHANGED <<up, running, pool, deleted, queue, acceptor, socket, arrived, browser>>

\* recv() returns -1, taken for a size: the exception of append() ends the process
ReadBroken(w) ==
    LET c == worker[w].conn
    IN  /\ worker[w].at = "reading"
        /\ arrived[c] = "nothing"
        /\ browser[c] = "reset"
        /\ up' = FALSE
        /\ UNCHANGED <<serverVars, socket, arrived, browser>>

\* send() and close(); to send to a browser that is gone may be fatal (SIGPIPE)
SendTo(ends, w) ==
    LET c == worker[w].conn
    IN  /\ worker[w].at = "replying"
        /\ browser[c] \in ends
        /\ socket' = [socket EXCEPT ![c] = "closed"]
        /\ arrived' = [arrived EXCEPT ![c] = "nothing"]
        /\ worker' = [worker EXCEPT ![w] = [at |-> "checking", conn |-> NoConn, read |-> "nothing"]]
        /\ up' \in IF browser[c] \in {"left", "reset"} THEN BOOLEAN ELSE {up}
        /\ UNCHANGED <<running, pool, deleted, queue, acceptor, browser>>

Reply(w) == SendTo({"here", "left", "reset"}, w)

\* Nobody reads: send() returns only when the rest of the page fits the buffers
ReplyDeaf(w) == SendTo({"deaf"}, w)

-----------------------------------------------------------------------------
(* startListening, shutdown and the destructor, called by main *)

\* socket(), bind() or listen() fails, which main does not look at
StartFails == UNCHANGED httpVars

\* A threadPool that is not null is taken for a pool that was started
StartListening ==
    /\ acceptor' = [acceptor EXCEPT !.at = "accepting"]
    /\ IF pool = "null"
       THEN /\ running' = TRUE
            /\ pool' = "started"
            /\ worker' = [w \in Workers |-> [worker[w] EXCEPT !.at = "checking"]]
       ELSE UNCHANGED <<running, pool, worker>>
    /\ UNCHANGED <<up, deleted, queue, socket, arrived, browser>>

\* Mutant of StopWorkers: nobody is told
StopUntold ==
    /\ running' = IF pool = "null" THEN running ELSE FALSE
    /\ UNCHANGED <<up, pool, deleted, queue, acceptor, worker, socket, arrived, browser>>

StopWorkers ==
    /\ IF pool = "null"
       THEN UNCHANGED <<running, worker>>
       ELSE running' = FALSE /\ worker' = Woken(Workers)
    /\ UNCHANGED <<up, pool, deleted, queue, acceptor, socket, arrived, browser>>

Joined == \A w \in Workers : worker[w].at = "done"

\* The workers are joined, the descriptor closed, the accept thread cancelled and
\* not joined, the pool deleted.  To join and delete what is not a pool is fatal.
StopAccepting ==
    /\ pool # "null"
    /\ pool = "started" => Joined
    /\ up' = (up /\ pool = "started")
    /\ acceptor' = [acceptor EXCEPT !.at = CASE acceptor.at = "accepting" -> "ended"
                                             [] acceptor.at = "holding" -> "cancelled"
                                             [] OTHER -> acceptor.at]
    /\ pool' = "null"
    /\ UNCHANGED <<running, deleted, queue, worker, socket, arrived, browser>>

\* ~HttpServer, whose call of shutdown finds no pool
DeleteServer ==
    /\ pool = "null"
    /\ deleted' = TRUE
    /\ UNCHANGED <<up, running, pool, queue, acceptor, worker, socket, arrived, browser>>

-----------------------------------------------------------------------------
\* The constructor sets neither running nor threadPool
HttpInit ==
    /\ up = TRUE
    /\ running \in BOOLEAN
    /\ pool \in {"null", "garbage"}
    /\ deleted = FALSE
    /\ queue = << >>
    /\ acceptor = [at |-> "off", conn |-> NoConn]
    /\ worker = [w \in Workers |-> [at |-> "off", conn |-> NoConn, read |-> "nothing"]]
    /\ socket = [c \in Conns |-> "none"]
    /\ arrived = [c \in Conns |-> "nothing"]
    /\ browser \in [Conns -> {"here", "left"}]     \* some never come

Browse == \E c \in Conns : Connect(c) \/ Send(c) \/ Leave(c)

Accepting == Enqueue \/ \E c \in Conns : Accept(c)

Working(w) ==
    CheckRunning(w) \/ Fetch(w) \/ Read(w) \/ ReadEnd(w) \/ ReadBroken(w) \/ Reply(w)

HttpTypeOK ==
    /\ up \in BOOLEAN /\ running \in BOOLEAN /\ deleted \in BOOLEAN
    /\ pool \in {"null", "garbage", "started"}
    /\ queue \in Seq(Conns)
    /\ acceptor \in [at : {"off", "accepting", "holding", "cancelled", "ended"},
                     conn : Conns \cup {NoConn}]
    /\ worker \in [Workers -> [at : {"off", "checking", "fetching", "waiting", "reading",
                                     "handling", "replying", "done"},
                               conn : Conns \cup {NoConn}, read : Parts]]
    /\ socket \in [Conns -> {"none", "backlog", "accepted", "closed"}]
    /\ arrived \in [Conns -> Parts]
    /\ browser \in [Conns -> {"here", "deaf", "left", "reset"}]

-----------------------------------------------------------------------------
(* The server with handlers that return, and an owner that starts and deletes it *)

Handle(w) ==
    /\ worker[w].at = "handling"
    /\ Goes(w, "replying")
    /\ UNCHANGED <<up, running, pool, deleted, queue, acceptor, socket, arrived, browser>>

Start == acceptor.at = "off" /\ ~deleted /\ StartListening

HttpNext ==
    /\ up
    /\ \/ Browse \/ Accepting \/ AcceptFails
       \/ \E w \in Workers : Working(w) \/ Handle(w) \/ ReplyDeaf(w)
       \/ Start \/ StopWorkers \/ (StopAccepting /\ ~running) \/ DeleteServer

HttpSpec == HttpInit /\ [][HttpNext]_httpVars

-----------------------------------------------------------------------------
(* What the server promises of its queue *)

Serving == {worker[w].conn : w \in Workers} \ {NoConn}

Promised == INSTANCE RequestQueue
    WITH waiting <- queue, serving <- Serving, answered <- {c \in Conns : socket[c] = "closed"}

\* An accepted connection is in one place: held by the accept thread, in the
\* queue once, or with one worker.
OneOwner ==
    LET queued == {queue[i] : i \in DOMAIN queue}
    IN  /\ \A i, j \in DOMAIN queue : queue[i] = queue[j] => i = j
        /\ \A v, w \in Workers : worker[v].conn = worker[w].conn /\ worker[v].conn # NoConn => v = w
        /\ queued \cap Serving = {}
        /\ acceptor.conn \notin queued \cup Serving
        /\ queued \cup Serving \cup ({acceptor.conn} \ {NoConn}) = {c \in Conns : socket[c] = "accepted"}
=============================================================================
