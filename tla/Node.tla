-------------------------------- MODULE Node --------------------------------
(***************************************************************************)
(* A node from the start of its threads to its end: main with the loop of  *)
(* the P2P server in it (src/main.cpp), the two tasks, the web server, and *)
(* the detached threads of pings and searches (src/sds_core/localnode.cpp).*)
(* What they do to the routing table and to the store is the matter of the *)
(* modules of those; here they are used, closed and deleted.               *)
(*                                                                         *)
(* Nobody waits while it holds the mutex of LocalNode, so a section of it  *)
(* is one step, which nobody can take once an exception left it locked.    *)
(***************************************************************************)
EXTENDS HttpServer

CONSTANT Greetings   \* the detached threads

ASSUME NodeAssumption == IsFiniteSet(Greetings)

Tasks == {"lookup", "publish"}

VARIABLES
    mainAt,     \* what main does next
    told,       \* the handler of SIGINT has cleared running of the P2P server
    locked,     \* the mutex of LocalNode stays locked
    silent,     \* who accepts what a thread sends, and neither answers nor leaves
    store,      \* searchesDB: "open", "closed" or "deleted"
    task,       \* each task: where its thread is, and its running flag
    page,       \* where each worker of the web server is in its handler
    greeting,   \* where each detached thread is
    late        \* who used something after its end

nodeVars == <<mainAt, told, locked, silent, store, task, page, greeting, late>>
vars == <<httpVars, nodeVars>>

\* The steps of main from startTasks on, in their order
Steps == <<"tasks", "web", "server", "listen", "loop", "stopLookup", "joinLookup", "stopPublish",
           "joinPublish", "close", "stopWeb", "joinWeb", "closeService", "deleteWeb", "deleteNode",
           "exited">>

Place(step) == CHOOSE i \in DOMAIN Steps : Steps[i] = step

Main(step) == up /\ mainAt = step /\ mainAt' = Steps[Place(step) + 1]

\* Somebody uses the store: once it is closed, or deleted with the table and
\* the mutex, the process may go on or die
Uses(who) ==
    IF store = "open"
    THEN late' = late /\ up' = up
    ELSE late' = late \cup {who} /\ up' \in BOOLEAN

\* Somebody uses the table or the mutex, which end with the node
UsesNode(who) ==
    IF store = "deleted"
    THEN late' = late \cup {who} /\ up' \in BOOLEAN
    ELSE late' = late /\ up' = up

-----------------------------------------------------------------------------
(* The tasks: execute(), over and over, until running is cleared *)

\* The first section: the nodes to look up, or the entries to publish
TaskBegins(t) ==
    /\ up
    /\ task[t].at = "begin"
    /\ IF task[t].running
       THEN /\ ~locked
            /\ IF t = "publish" THEN Uses(t) ELSE UsesNode(t)
            /\ \E at \in {IF t = "publish" THEN "targets" ELSE "network", "sleep"} :
                task' = [task EXCEPT ![t].at = at]       \* sleep: nothing to do
       ELSE /\ task' = [task EXCEPT ![t].at = "done"]
            /\ UNCHANGED <<up, late>>
    /\ UNCHANGED <<serverVars, socket, arrived, browser, mainAt, told, locked, silent, store, page, greeting>>

\* The second section of the publish task: the nodes of each entry, of which this
\* one may be one
TaskTargets(t) ==
    /\ up
    /\ task[t].at = "targets"
    /\ ~locked
    /\ Uses(t)
    /\ task' = [task EXCEPT ![t].at = "network"]
    /\ UNCHANGED <<serverVars, socket, arrived, browser, mainAt, told, locked, silent, store, page, greeting>>

\* Its requests are answered or fail
TaskHeard(t) ==
    /\ up
    /\ task[t].at = "network"
    /\ "peer" \notin silent
    /\ task' = [task EXCEPT ![t].at = "push"]
    /\ UNCHANGED <<httpVars, mainAt, told, locked, silent, store, page, greeting, late>>

\* Nodes are pushed or removed; a lookup goes on to its next target, if it runs
TaskPushes(t) ==
    /\ up
    /\ task[t].at = "push"
    /\ ~locked
    /\ UsesNode(t)
    /\ \E at \in {"sleep", "begin"} :
        /\ t = "publish" => at = "sleep"
        /\ task' = [task EXCEPT ![t].at = at]
    /\ UNCHANGED <<serverVars, socket, arrived, browser, mainAt, told, locked, silent, store, page, greeting>>

\* The delay ends, or running is found cleared
TaskWakes(t) ==
    /\ up
    /\ task[t].at = "sleep"
    /\ task' = [task EXCEPT ![t].at = "begin"]
    /\ UNCHANGED <<httpVars, mainAt, told, locked, silent, store, page, greeting, late>>

\* The publish task has an entry it cannot store: execute() throws, in a thread
\* with no handler
TaskThrows(t) ==
    /\ up
    /\ task[t].at = "targets"
    /\ ~locked
    /\ up' = FALSE
    /\ UNCHANGED <<serverVars, socket, arrived, browser, nodeVars>>

-----------------------------------------------------------------------------
(* The handlers of the web UI *)

PageGoes(w, at) == page' = [page EXCEPT ![w] = at]

\* The handler of the url: a form, a file, or none; or one that uses the node
OpenPage(w) ==
    /\ up
    /\ worker[w].at = "handling" /\ page[w] = "none"
    /\ \/ Goes(w, "replying") /\ UNCHANGED page
       \/ \E at \in {"search", "insert"} : PageGoes(w, at) /\ UNCHANGED worker
    /\ UNCHANGED <<up, running, pool, deleted, queue, acceptor, socket, arrived, browser,
                   mainAt, told, locked, silent, store, task, greeting, late>>

\* LocalNode::doSearch: its first section, which searches the store
SearchBegins(w) ==
    /\ up
    /\ page[w] = "search"
    /\ ~locked
    /\ Uses("page")
    /\ PageGoes(w, "network")
    /\ UNCHANGED <<serverVars, socket, arrived, browser, mainAt, told, locked, silent, store, task, greeting>>

SearchHeard(w) ==
    /\ up
    /\ page[w] \in {"network", "last"}
    /\ "peer" \notin silent
    /\ IF page[w] = "network"
       THEN PageGoes(w, "push") /\ UNCHANGED worker
       ELSE PageGoes(w, "none") /\ Goes(w, "replying")
    /\ UNCHANGED <<up, running, pool, deleted, queue, acceptor, socket, arrived, browser,
                   mainAt, told, locked, silent, store, task, greeting, late>>

\* Its second section, and the detached thread that republishes the results; the
\* futures that were not asked for end before the search returns
SearchPushes(w) ==
    /\ up
    /\ page[w] = "push"
    /\ ~locked
    /\ UsesNode("page")
    /\ \/ \E g \in Greetings :
            /\ greeting[g] = "none"
            /\ greeting' = [greeting EXCEPT ![g] = "republish"]
       \/ /\ \A g \in Greetings : greeting[g] # "none"    \* one thread more than the bound
          /\ UNCHANGED greeting
    /\ PageGoes(w, "last")
    /\ UNCHANGED <<serverVars, socket, arrived, browser, mainAt, told, locked, silent, store, task>>

\* LocalNode::storeResult
Insert(w) ==
    /\ up
    /\ page[w] = "insert"
    /\ ~locked
    /\ Uses("page")
    /\ PageGoes(w, "none")
    /\ Goes(w, "replying")
    /\ UNCHANGED <<running, pool, deleted, queue, acceptor, socket, arrived, browser,
                   mainAt, told, locked, silent, store, task, greeting>>

\* It throws, the handler makes a page of it, and the mutex stays locked
InsertFails(w) ==
    /\ up
    /\ page[w] = "insert"
    /\ ~locked
    /\ locked' = TRUE
    /\ PageGoes(w, "none")
    /\ Goes(w, "replying")
    /\ UNCHANGED <<up, running, pool, deleted, queue, acceptor, socket, arrived, browser,
                   mainAt, told, silent, store, task, greeting, late>>

-----------------------------------------------------------------------------
(* The P2P server, in the thread of main, and the detached threads *)

\* Something has come from a client, in the pass that was begun before main is
\* told, or in a later one
BeginRequest ==
    /\ up
    /\ mainAt = "loop"
    /\ mainAt' = "reading"
    /\ UNCHANGED <<httpVars, told, locked, silent, store, task, page, greeting, late>>

\* The request is read to its end
Received == up /\ mainAt = "reading" /\ "client" \notin silent

\* A ping from a node: a thread looks it up, and greets it if it is new
ServePing(g) ==
    /\ Received
    /\ greeting[g] = "none"
    /\ greeting' = [greeting EXCEPT ![g] = "look"]
    /\ mainAt' = "answering"
    /\ UNCHANGED <<httpVars, told, locked, silent, store, task, page, late>>

\* A request that takes the mutex: main waits for ever when it was left locked,
\* and leaves it so when the store throws
ServeOther ==
    /\ Received
    /\ IF locked
       THEN mainAt' = "blocked" /\ UNCHANGED <<up, locked, late>>
       ELSE /\ locked' \in BOOLEAN
            /\ Uses("server")
            /\ mainAt' = "answering"
    /\ UNCHANGED <<serverVars, socket, arrived, browser, told, silent, store, task, page, greeting>>

\* The client has closed; or there is no whole header or body, or no such
\* function, which gets an answer too
NoRequest ==
    /\ Received
    /\ mainAt' \in {"loop", "answering"}
    /\ UNCHANGED <<httpVars, told, locked, silent, store, task, page, greeting, late>>

\* The answer is sent, and main goes on to the next client
Answered ==
    /\ up
    /\ mainAt = "answering"
    /\ "client" \notin silent
    /\ mainAt' = "loop"
    /\ UNCHANGED <<httpVars, told, locked, silent, store, task, page, greeting, late>>

\* hasNode, read while others may write: the answer may be either
GreetingLooks(g) ==
    /\ up
    /\ greeting[g] = "look"
    /\ UsesNode("greeting")
    /\ \E at \in {"none", "greet"} : greeting' = [greeting EXCEPT ![g] = at]
    /\ UNCHANGED <<serverVars, socket, arrived, browser, mainAt, told, locked, silent, store, task, page>>

\* The node answers, and is to be pushed, or fails; or the results are stored
GreetingHeard(g) ==
    /\ up
    /\ greeting[g] \in {"greet", "republish"}
    /\ "peer" \notin silent
    /\ UsesNode("greeting")
    /\ \E at \in {"none"} \cup (IF greeting[g] = "greet" THEN {"push"} ELSE {}) :
        greeting' = [greeting EXCEPT ![g] = at]
    /\ UNCHANGED <<serverVars, socket, arrived, browser, mainAt, told, locked, silent, store, task, page>>

GreetingPushes(g) ==
    /\ up
    /\ greeting[g] = "push"
    /\ ~locked
    /\ UsesNode("greeting")
    /\ greeting' = [greeting EXCEPT ![g] = "none"]
    /\ UNCHANGED <<serverVars, socket, arrived, browser, mainAt, told, locked, silent, store, task, page>>

-----------------------------------------------------------------------------
(* main *)

StartTasks ==
    /\ Main("tasks")
    /\ task' = [t \in Tasks |-> [at |-> "begin", running |-> TRUE]]
    /\ UNCHANGED <<httpVars, told, locked, silent, store, page, greeting, late>>

StartWeb ==
    /\ Main("web")
    /\ StartListening \/ StartFails
    /\ UNCHANGED <<told, locked, silent, store, task, page, greeting, late>>

NewServer ==
    /\ Main("server")
    /\ UNCHANGED <<httpVars, told, locked, silent, store, task, page, greeting, late>>

\* The P2P server listens, or cannot and returns at once
Listen ==
    /\ up
    /\ mainAt = "listen"
    /\ mainAt' \in {"loop", "stopLookup"}
    /\ UNCHANGED <<httpVars, told, locked, silent, store, task, page, greeting, late>>

\* The loop ends, after a pass over the clients (the matter of P2PServer)
EndLoop ==
    /\ told
    /\ Main("loop")
    /\ UNCHANGED <<httpVars, told, locked, silent, store, task, page, greeting, late>>

\* SdsTask::stop, to the join
StopTask(step, t) ==
    /\ Main(step)
    /\ task' = [task EXCEPT ![t].running = FALSE]
    /\ UNCHANGED <<httpVars, told, locked, silent, store, page, greeting, late>>

\* Mutant of JoinTask: a thread that was told is not waited for
JoinTaskNot(step, t) ==
    /\ Main(step)
    /\ UNCHANGED <<httpVars, told, locked, silent, store, task, page, greeting, late>>

JoinTask(step, t) ==
    /\ Main(step)
    /\ task[t].at = "done"
    /\ UNCHANGED <<httpVars, told, locked, silent, store, task, page, greeting, late>>

\* The last section of LocalNode::shutdown
Close ==
    /\ Main("close")
    /\ ~locked
    /\ store' = "closed"
    /\ UNCHANGED <<httpVars, told, locked, silent, task, page, greeting, late>>

StopWeb ==
    /\ Main("stopWeb")
    /\ StopWorkers
    /\ UNCHANGED <<told, locked, silent, store, task, page, greeting, late>>

JoinWeb ==
    /\ Main("joinWeb")
    /\ StopAccepting \/ (pool = "null" /\ UNCHANGED httpVars)
    /\ UNCHANGED <<told, locked, silent, store, task, page, greeting, late>>

\* The controller of Tor is asked to delete the onion, or the session of I2P ended
CloseService ==
    /\ Main("closeService")
    /\ "service" \notin silent
    /\ UNCHANGED <<httpVars, told, locked, silent, store, task, page, greeting, late>>

\* The controller refuses, or its connection is broken: LOG_F(FATAL), or a signal
CloseServiceFails ==
    /\ up
    /\ mainAt = "closeService"
    /\ up' = FALSE
    /\ UNCHANGED <<serverVars, socket, arrived, browser, nodeVars>>

DeleteWeb ==
    /\ Main("deleteWeb")
    /\ DeleteServer
    /\ UNCHANGED <<told, locked, silent, store, task, page, greeting, late>>

\* ~LocalNode: each task is stopped again, and a thread joined a second time
DeleteNode ==
    /\ Main("deleteNode")
    /\ store' = "deleted"
    /\ late' = late \cup {"join"}
    /\ up' \in BOOLEAN
    /\ UNCHANGED <<serverVars, socket, arrived, browser, told, locked, silent, task, page, greeting>>

\* main returns, and every thread ends with it
Exit ==
    /\ up
    /\ mainAt = "exited"
    /\ up' = FALSE
    /\ UNCHANGED <<serverVars, socket, arrived, browser, nodeVars>>

\* SIGINT: the handler uses p2pSrv, which is null until the server is there, and
\* deleted before the web server is
Interrupt ==
    /\ up
    /\ told' = TRUE
    /\ CASE mainAt \in {"tasks", "web", "server"} -> up' = FALSE /\ late' = late
         [] mainAt \in {"deleteWeb", "deleteNode", "exited"} ->
                late' = late \cup {"signal"} /\ up' \in BOOLEAN
         [] OTHER -> late' = late /\ up' = up
    /\ UNCHANGED <<serverVars, socket, arrived, browser, mainAt, locked, silent, store, task, page, greeting>>

\* Some peer or search engine replies no more, a client of the P2P server neither
\* finishes its request nor reads the answer, or the controller of Tor is stuck
FallSilent(who) ==
    /\ who \notin silent
    /\ silent' = silent \cup {who}
    /\ UNCHANGED <<httpVars, mainAt, told, locked, store, task, page, greeting, late>>

-----------------------------------------------------------------------------
NodeInit ==
    /\ HttpInit
    /\ mainAt = "tasks"
    /\ told = FALSE /\ locked = FALSE /\ silent = {}
    /\ store = "open"
    /\ task = [t \in Tasks |-> [at |-> "off", running |-> FALSE]]
    /\ page = [w \in Workers |-> "none"]
    /\ greeting = [g \in Greetings |-> "none"]
    /\ late = {}

MainThread ==
    \/ StartTasks \/ StartWeb \/ NewServer \/ Listen
    \/ NoRequest \/ ServeOther \/ Answered \/ EndLoop
    \/ \E g \in Greetings : ServePing(g)
    \/ StopTask("stopLookup", "lookup") \/ JoinTask("joinLookup", "lookup")
    \/ StopTask("stopPublish", "publish") \/ JoinTask("joinPublish", "publish")
    \/ Close \/ StopWeb \/ JoinWeb \/ CloseService \/ DeleteWeb \/ DeleteNode \/ Exit

TaskThread(t) == TaskBegins(t) \/ TaskTargets(t) \/ TaskHeard(t) \/ TaskPushes(t) \/ TaskWakes(t)

WorkerThread(w) ==
    \/ up /\ Working(w) /\ UNCHANGED nodeVars
    \/ OpenPage(w) \/ SearchBegins(w) \/ SearchHeard(w) \/ SearchPushes(w) \/ Insert(w)

AcceptThread == up /\ Accepting /\ UNCHANGED nodeVars

DetachedThread(g) == GreetingLooks(g) \/ GreetingHeard(g) \/ GreetingPushes(g)

\* What others do to the node, and what may fail in it
Surroundings ==
    \/ up /\ (Browse \/ AcceptFails \/ \E w \in Workers : ReplyDeaf(w)) /\ UNCHANGED nodeVars
    \/ BeginRequest \/ Interrupt \/ CloseServiceFails
    \/ \E who \in {"peer", "client", "service"} : FallSilent(who)
    \/ \E w \in Workers : InsertFails(w)
    \/ \E t \in Tasks : TaskThrows(t)

NodeNext ==
    \/ MainThread \/ AcceptThread \/ Surroundings
    \/ \E t \in Tasks : TaskThread(t)
    \/ \E w \in Workers : WorkerThread(w)
    \/ \E g \in Greetings : DetachedThread(g)

\* The threads are scheduled; a pass of the P2P server over its clients is finite,
\* so main looks at running again and again; a cancelled thread may have ended
NodeSpec ==
    /\ NodeInit /\ [][NodeNext]_vars
    /\ WF_vars(MainThread) /\ SF_vars(EndLoop)
    /\ WF_vars(acceptor.at # "cancelled" /\ AcceptThread)
    /\ \A t \in Tasks : WF_vars(TaskThread(t))
    /\ \A w \in Workers : WF_vars(WorkerThread(w))
    /\ \A g \in Greetings : WF_vars(DetachedThread(g))

-----------------------------------------------------------------------------
NodeTypeOK ==
    /\ HttpTypeOK
    /\ mainAt \in {Steps[i] : i \in DOMAIN Steps} \cup {"reading", "answering", "blocked"}
    /\ told \in BOOLEAN /\ locked \in BOOLEAN
    /\ silent \subseteq {"peer", "client", "service"}
    /\ store \in {"open", "closed", "deleted"}
    /\ task \in [Tasks -> [at : {"off", "begin", "targets", "network", "push", "sleep", "done"},
                          running : BOOLEAN]]
    /\ page \in [Workers -> {"none", "search", "network", "push", "last", "insert"}]
    /\ greeting \in [Greetings -> {"none", "look", "greet", "push", "republish"}]
    /\ late \subseteq Tasks \cup {"server", "page", "greeting", "join", "signal"}

\* The tasks and the P2P server have done with the store when it is closed, and
\* with the node when it is deleted: nobody is late but a page being made, a
\* detached thread, a second join and a second signal.  No page outlives the
\* web server or the node.
OnlyKnownLate ==
    /\ late \subseteq {"page", "greeting", "join", "signal"}
    /\ deleted => \A w \in Workers : worker[w].at \in {"off", "done"} /\ page[w] = "none"

\* A worker is at recv() for a browser that can still send, or in send() for one
\* that reads nothing
Stalled ==
    \E w \in Workers :
        \/ worker[w].at = "reading" /\ browser[worker[w].conn] \in {"here", "deaf"}
        \/ worker[w].at = "replying" /\ browser[worker[w].conn] = "deaf"

\* A worker waits for the peers or the engines of a search
PageWaits == "peer" \in silent /\ \E w \in Workers : page[w] \in {"network", "last"}

\* main, or a task it joins, waits for somebody silent
OwnThreadWaits ==
    \/ "client" \in silent /\ mainAt \in {"reading", "answering"}
    \/ "peer" \in silent /\ \E t \in Tasks : task[t].at = "network"
    \/ "service" \in silent /\ mainAt = "closeService"

\* A node that is told to stop ends, unless an exception left the mutex locked for
\* ever, or from some time on some thread always waits for a silent peer, client,
\* browser or controller.
StopsWhenTold ==
    <>told => <>(~up) \/ <>[](locked \/ OwnThreadWaits \/ PageWaits \/ Stalled)

\* A connection that was accepted gets its reply and is closed, unless the process
\* or the server ends, the pool was never started, the mutex stays locked, or from
\* some time on a worker always waits for a browser or for a search.
RequestsAnswered ==
    \A c \in Conns :
        \/ []<>(socket[c] # "accepted")
        \/ <>[](~up \/ ~running \/ pool = "garbage" \/ locked \/ PageWaits \/ Stalled)

\* The server implements the queue it promises
ImplementsRequestQueue == Promised!Spec
=============================================================================
