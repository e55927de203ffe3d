# A verification development for SniffDogSniff

SniffDogSniff is a peer-to-peer search engine: every node keeps a part of the
index, finds the other nodes with a Kademlia-like routing table, and serves its
user a web page. This directory holds TLA+ models of its components, the TLC
configurations that check them on small instances, and theorems about them
checked by TLAPS for every value of the constants. Paths are relative to the root
of the repository.

1. [The system](#1-the-system): components, interactions, what is hard
2. [The modules](#2-the-modules): which module models what, and how
3. [The runs](#3-the-runs): what is checked, bounds, fairness
4. [The proofs](#4-the-proofs)
5. [Findings](#5-findings)
6. [What is left](#6-what-is-left): the plan, and what stays out

`tlc -config X.cfg M` runs a check, `tlapm M.tla` a module of proofs. A definition
with a comment "Mutant of X" is a plausible bug of X, and is used by nothing: a
property is trusted only if TLC finds it violated when X is replaced by it.

## 1. The system

### Components

| Component | State | Operations | What makes it correct |
| --- | --- | --- | --- |
| `KadId` (`kademlia/kadnode.cpp`) | 16 bytes | xor, height, comparisons, `idNbitsFarFrom` | the loops over bytes compute the numeric order and the top bit |
| `KadNode`, `KadBucket` (`kademlia/kadbucket.cpp`) | two lists of at most `KAD_BUCKET_MAX` nodes, in use and waiting; `lastSeen` and `stales` of each | `pushNode`, `removeNode`, `reorder` | both sorted; nodes wait only behind a full list; nobody is displaced while it answers |
| `KadRoutingTable` (`kademlia/kadroutingtable.cpp`) | 128 buckets, the local node | `pushNode`, `removeNode`, `getClosestTo`, `isFull`, `readFile`, `writeFile` | every node in the bucket of its distance, once; answers that bring a lookup nearer |
| `NodesLookupTask` (`sds_core/localnode.cpp`) | one lookup: waves, replies, probed and failed nodes | `execute`, `doNodesLookup` | ends; uses the table by its calls only; penalises only who failed |
| `EntriesPublishTask` (same file) | the entries to send, the nodes to send them to | `execute`, `publishResults` | what it takes from the store reaches nodes or stays due |
| `LocalNode` (same file) | the table, the store, the tasks, one mutex | `ping`, `findNode`, `storeResult`, `findResults`, `doSearch`, `startTasks`, `shutdown` | the mutex guards table and store, and is always released; nothing is used after shutdown |
| `SearchEntriesDB` (`sds_core/searchentriesdb.cpp`) | a Berkeley DB file, a map of timestamps | `open`, `insertResult`, `getEntriesForBroadcast`, `modified`, `close` | records and timestamps agree; what is kept is published before it expires |
| `SearchEntry`, `SimHash` | values | hash, similarity, serialisation | the key identifies the page |
| `SdsTask` (`sds_core/sdstask.cpp`) | a thread, a flag, a period | `start`, `stop`, `isRunning` | stop ends the thread, once |
| `SdsP2PServer` (`p2p/sdsp2pserver.cpp`) | 100 slots of clients, one poll loop | accept, read, dispatch, reply, close | every client is served or closed |
| `SdsP2PClient`, messages (`p2p/`) | one connection | connect, ping, findNode, storeResult, findResults | a reply is that of its request, or an error |
| `SdsBytesBuf` (`common/sdsbytesbuf.cpp`) | a buffer and a cursor | write, read, rewind | reads stay within what was written |
| `HttpServer` (`webserver/httpserver.cpp`) | a queue of sockets, a pool of workers, an accept thread | `startListening`, `shutdown`, handlers | every accepted socket is handled once; shutdown ends |
| `SdsWebUiServer` (`webserver/`) | the filters of the results page | pages of forms, results, inserts | what a posted form says is stored as it was typed |
| `WebCrawler` (`crawler/`) | a queue of URLs, found entries, a thread | `load`, `save`, `getEntriesForBroadcast`, `doSearch` | what is found is handed over once |
| configuration file, `main` | sections of settings | parse and look up; start, signals, end | a setting is found as written; threads start after the address is known, end before what they use is deleted |
| transports (`net/`: sockets, Tor, SOCKS5, I2P) | sockets, sessions, the key of the node's address in a file | connect, request and reply, close | what a call opens is closed; the node keeps its address |
| `common/stringutil`, `common/loguru` | – | text, logging | texts are cut at their delimiters |

### How they interact

`main` builds a `LocalNode`, tells it the local address, starts its two tasks, the
web UI and then the P2P server, whose poll loop is the main thread. Each has
threads of its own: a task, the workers of the web UI that call
`LocalNode::doSearch`, one detached thread for each ping received, one for each
search that republishes, one future for each request of a wave. They share the
routing table and the store under the one mutex of `LocalNode`, but for a few
reads that do not take it. Nobody holds the mutex while waiting for the network:
the pattern everywhere is *lock – copy the closest nodes – unlock – contact them –
lock – push those that answered, remove those that did not – unlock*. A signal
handler ends the poll loop, and `main` then stops the tasks, closes the store,
writes the table and deletes everything.

### What is hard

- *Copies that grow old.* Between the two locks of that pattern the nodes may be
  evicted, demoted, renewed or pushed by others; the copies come back anyway.
- *Two orders on nodes.* `operator==` of `KadNode` compares ids and `operator<`
  compares `lastSeen`, so the sets and maps keyed by `KadNode` take different
  nodes for one.
- *Comparisons that read outside their arrays*: `KadId::operator<` of equal ids,
  `height()` of the zero id.
- *Partial failure*: `insertResult` changes the timestamps and then throws, with
  the mutex locked.
- *Crash and restart*: the store and the table file.
- *No timeouts* on replies, and joins that wait for them.
- *Order of start and end*: configured peers pushed before the address is known,
  detached threads alive after the deletes.

`hazards` in `PROJECT.json` lists each at its line with the properties that would
catch it going wrong.

## 2. The modules

```
KadId ── KadBucket ── KadRoutingTable ── NodesLookup ── Rounds ── MCRounds
  │                     ├── MCKadRoutingTable
  │                     ├── KadTableFile ── MCKadTableFile
  │                     └── KadRoutingTableProofs
  │                           ├── KadTableFileProofs (with KadTableFile)
  │                           └── RoundsProofs (with Rounds)
  └── KadIdBytes ────────────────────────┐
Transports ── HiddenService ─────────────┼── MCValues
SimHashWords, WebCrawler ────────────────┤
Messages, WebRequest, ConfigFile ────────┘   (with the values of MCFormats)
HiddenService, WebCrawler ── ServicesProofs
Messages, WebRequest, ConfigFile ── FormatsProofs
SearchEntriesDB ── MCSearchEntriesDB
  └── SearchEntriesDBProofs
P2PServer ── P2PNetwork ── MCP2PNetwork
                 └── P2PNetworkProofs
RequestQueue (implemented by) HttpServer ── Node ── MCNode
                                             └── NodeProofs
```

Four groups of modules follow threads and sockets: the table and its users
(`KadRoutingTable` to `Rounds`), the store, the P2P server with its clients, and the
node as a whole. They meet at the calls under the mutex: what a task does to the table
is in `Rounds`, what it does to the store in `SearchEntriesDB`, and when it may do it
at all, from the start of the threads to the deletes, in `Node`.

### The routing table

**`KadId`** takes an id as the set of the places of its one bits, so that xor is a
symmetric difference and the height of a distance is its greatest place.
**`KadIdBytes`** models the byte loops of the code and compares them with that
view. `MayPrecede` is what a sort may rely on when it compares equal ids, for
which `operator<` reads outside its arrays.

**`KadBucket`** has a bucket as a value, and one operator for each branch of
`pushNode` (`Renew`, `Admit`, `Evict`, `Park`). A method maps a bucket to the *set*
of the buckets it may leave, because `std::sort` is not stable. `PushFound` is the
value `pushNode` returns.

**`KadRoutingTable`** is the state machine of the table. The variable `held` is the
set of the copies in the hands of callers (`Snapshot` takes them, for one target or for the
several of `TargetSets` that a caller asks about under one lock; `PushHeld` and
`RemoveHeld` bring them back, in any order and any number of times). `PushContact`
and `RemoveContact` are the calls about contacts just heard of; `FreshNext` is
these alone. `unread` and `selfAddress` are the start of the program: the
constructor of `LocalNode` pushes the configured peers *before* `main` tells it
the local address. `getClosestTo` is a set of places in the order of visit
(`Turn`); its final sort by distance is `ByDistance`, where a caller needs it.

**`KadTableFile`** adds the file: `WriteFile`, `WriteFileCut`, which leaves a file that
ends in any bucket after any of its nodes, and `ReadFile`, which is the end of one
process and the start of the next. `readFile` fills the buckets as it reads and
answers -1 at the end of a cut file, with what it read still in them; the constructor
then pushes the configured peers on top.

**`NodesLookup`** extends the table with `doNodesLookup`, one action per step that
others can see or interleave with:

| Action | Code |
| --- | --- |
| `BeginLookup` | the next target of `execute`, first lock, `getClosestTo`, unlock, first wave |
| `ReapReply`, `ReapFailure` | `futures[i].get()`, in order, with a reply or an exception |
| `PingSelf` | a request that reaches the local node, whose ping handler ends the process |
| `NextWave`, `GiveUp` | the sort and cut of `discovered`; the end after a minute |
| `TakeLock`, `Apply`, `EndLookup` | the final loop under the lock, one probed node at a time, and unlock |

`probed` is a `std::set<KadNode>`: `SetFind` compares `lastSeen`. `failed` is a
`std::set<KadId>` whose `find` compares equal ids with the undefined `operator<`:
`MayFind` may miss an id that is there, and finds none that is not.

**`Rounds`** adds the two other users of the table, which have one shape: a search
(`LocalNode::doSearch`) and the publish task. Each of the two `Rounders` has its own
stage, targets and flight, so that a lookup, a search and the publish task are at work
at the same time. There is one search, as the pool of the web server has one worker
(`THREAD_POOL_SZ`, `httpserver.cpp:13`).

| Action | Code |
| --- | --- |
| `BeginSearch`, `BeginPublish` | the section that makes the set of targets, or the map from nodes to entries (`PublishMaps`), which asks the table about every entry under one lock |
| `SendNext` | the next target, in the order of `lastSeen`; a full flight is waited for, the last one of a publish too (`FlightOver`) |
| `ReapAnswer`, `ReapError` | `get()` of the futures, in the order of their ids |
| `RoundPingsSelf` | a target that is the node itself |
| `RoundOver`, `RoundLocks`, `RoundApplies`, `EndRound` | the iterator at its end, the second section, one node at a time, unlock |

`Contacted` is the ping handlers, which reach the table while the lock is free. The
abstract specification of it all is `KadRoutingTable!Spec` (`ImplementsTable`): in
between lookups, rounds and handlers, the table sees only calls its own module
specifies, on copies their callers took from it.

### The store

**`SearchEntriesDB`** is the store through runs of the process. Berkeley DB is
external: `get` and `put` may fail, `close` writes everything, and a process that
dies leaves of each record what was written or what was put last (`Dies`).
Timestamps are kept as ages in hours. `Modified` is `modified()`, with the erase
that goes on from an erased iterator: any of the old records may be erased, or the
process dies. `Open` lists the records of the file as new; when `cursor()` fails or the
scan ends before the file does, the others stay without a timestamp in a store that is
used all the same, and when `del()` fails in `modified()` so does the record. The history
variable `failures` says which of the two happened in this run of the process. `locked` says that an exception left the mutex locked: from then on
nobody gets in. `gap` is the time since the publish task last ran.

### The P2P server and its clients

**`P2PServer`** is the poll loop of the server and its handlers, with the sockets
as shared state. A pass of the loop is `Poll`, `Accept` when a connection waits,
then one action for each slot that `poll` reported, in their order (`Turn`), and
`EndScan`. The blocking reads of `handleRequest` are `Waiting`: nothing is enabled
until the client sends the rest, breaks, or a signal interrupts `recv` (`Interrupt`).
Both loops over the slots run one element too far; `Past` is that element, and
what the stack holds there (nothing, or what looks like a descriptor) is chosen at
the start. A free slot has the descriptor 0, the standard input, whose state is
chosen as well. A `storeResult` that throws leaves `locked` set, after which every
handler but that of `ping` blocks its own thread (`Block`).

**`P2PNetwork`** adds the clients: each connects, makes the calls of its script, and
closes. A request is sent in two parts, a reply of a `findNode` or a `ping` as well, and
TCP may break in between. To write to a connection the other side has closed may end
the process, as nothing ignores SIGPIPE; `recv`'s -1 stored in a `size_t` does. On
the client `storeResult` returns its error where the others throw, and the callers go
on (`Errs`). `MaxFaults` bounds the faults of a behaviour: a client killed, gone
silent or cut off, a failing `accept` or store, the signal.

### The node and its web server

**`HttpServer`** has the accept thread, the queue and the pool. Its mutex guards
short sections that wait for nothing, so a section is one step.

| Action | Code |
| --- | --- |
| `Accept`, `Enqueue`, `AcceptFails` | `acceptFun`: a connection in `client_fd`, the section that queues it and signals, a failed `accept` that ends the thread |
| `CheckRunning`, `Fetch` | the loop of a worker; the section up to the wait, a connection, or the end |
| `Read`, `ReadEnd`, `ReadBroken` | the loop over `recv`, which a part shorter than the buffer ends |
| `Reply`, `ReplyDeaf` | `send` and `close`; the connection may have broken, which may be fatal; to a browser that reads no more `send` may return, or never does |
| `StartListening`, `StopWorkers`, `StopAccepting`, `DeleteServer` | `startListening`, the two halves of `shutdown` around the join, the destructor |

The constructor sets neither `running` nor `threadPool`: what the memory holds there is
chosen at the start (`pool`). What the server promises is the module **`RequestQueue`**,
one queue, taken in order, each connection answered once; `Promised` is the
refinement mapping, in which a connection the accept thread holds has not arrived yet.
A thread that is cancelled may end at the `LOG_F` in its section, which is a
cancellation point, with the connection it holds: `Enqueue` of a cancelled thread is
therefore a step that no fairness asks for.

**`Node`** composes it with `main`, the two tasks, the handlers of the pages, the
detached threads of pings and searches, and the P2P server as the loop of main.
`mainAt` is the step of `main`, from `startTasks` to its end; in the loop main is at
"loop", where it looks at `running`, "reading" a request (`BeginRequest`) or "answering"
one, both of which wait for the client, and after the loop `CloseService` waits for the
controller of Tor (`sam3CloseSession` of I2P closes a socket and waits for nothing); `store` and `deleted` say
what it has closed or deleted; `late` collects who used something after its end, after
which the process may go on or die (`Uses`, `UsesNode`). `locked` is again the mutex an
exception left locked, and `silent` says who, of peers, clients of the P2P server and the
controller of Tor, accepts what it is sent and does not answer, a step of its own
(`FallSilent`). The publish task takes its entries in one section and their neighbours in
a second one (`TaskTargets`), where an entry that cannot be stored ends the process
(`TaskThrows`).

### Values and small parts

- **`Messages`**: every message and `SearchEntry` as written to a buffer and read
  back with a cursor (`SdsBytesBuf`), with the test for what is left that underflows. One
  end writes (`Send`) and the other reads it as what it expects (`Receive`, `Expected`): the
  query of `findResults` as the arguments of `findNode`, since that is the function the
  client names (`sdsp2pclient.cpp:83`), and the reply of `findNode` also as one of
  `findResults`. The request of that name ("query" in the model) and its reply are written
  and read by code that nothing calls.
- **`WebRequest`**: `httpUnescape` character by character, `parseHttpReqest` field by field,
  and the handlers of the pages. A user posts a form through a browser (`PostForm`) or any
  client sends any request (`SendRequest`), a page answers (`HandleRequest`), and the
  connection is closed. `EntryOf` has the type of every new `SearchEntry`: the one that
  `insertSearchEntry` works out is not passed on (`sdswebuiserver.cpp:337`). What `httpUnescape` reads behind a string is `beyond`.
- **`SimHashWords`**: `tokenize`, the hash of a word, which steps over two characters
  at a time (`beyond` is the memory behind a word), and the weights in chars.
- **`ConfigFile`**: the configuration file, line by line as the code cuts and trims it
  (`ReadSection`, `ReadSetting`, `ReadEmpty`). `config` is what `parse` made of it so far, and
  `meant` is what the user wrote. The byte before the buffer, at which the code looks for an
  empty string (`sdsconfigfile.cpp:182`), is taken for no blank.
- **`Transports`**: a call as a sequence of exchanges over TCP, SOCKS5, Tor's control
  port or the SAM bridge, and what is open after each way it may end.
- **`HiddenService`**: the key of the node's address and the file that keeps it, through
  runs of the process.
- **`WebCrawler`**: the queue, the thread and the finds of the crawler. `LocalNode` has the
  start of the thread commented out: `crawls` is chosen at the start, so the program as
  it is and the program with the crawler are both checked.

## 3. The runs

| Run | Question | Bounds |
| --- | --- | --- |
| `values` | do the loops of `KadId` compute what the sets say, and the hash of a text what most of its words say; is a message, a form, a configuration file read as it was written; does a call close what it opens, a node keep its address, a find get handed over once? | ids of 3 "bytes" of 2 bits, all pairs; texts of up to five characters; hashes of 6 bits with chars of 3; every kind of message, strings of none to three characters, lists of none and two elements and of entries up to two, bytes of three values, ids of two bytes, and numbers of several bytes; forms with every title of up to three characters that are escaped or not, forms of five fields with one key twice, and every method, page, number of words, query, header and body, right and malformed; files of up to three lines: a section, empty lines, settings with up to two blanks at each place and three at the end; three keys; pages with two links to one URL, a link without text and a dead end, three URLs in the queue and four finds |
| `table` | does the table keep its structure, whatever old copies come back? | 3-bit ids, buckets of 2, one failed probe makes a node stale, 4 contacts and a configured peer in the far bucket: it fills, has replacements, overflows them, evicts and promotes; one copy held at a time, by any number of callers; the clock reaches 2 |
| `table_file` | without old copies, is each id listed once, over restarts and cut files? do answers bring a lookup nearer? | two contacts and a configured peer in one bucket, a contact in another; the file cut after any record |
| `table_answer` | does `pushNode` answer whether the node was there? | violated, see 5 |
| `tasks` | do a lookup, a search, a publish end? whom do they push, and what is sent? | a lookup alone, or a search and a publish at the same time; 2-bit ids, flights of 2, replies of up to two contacts one of which may be the local node, three neighbours in two buckets; the clock reaches 2 so that nodes have different `lastSeen`; two entries; no node marked when the task begins |
| `tasks_table` | do they, beside the ping handlers, use the table as its module specifies, and penalise only those they could not reach? | a lookup, a search or a publish beside the handlers, and a search and a publish at the same time; far contacts in one bucket of 2, which fills and has replacements, and a configured peer with the local address; one node marked by a failed probe |
| `tasks_self` | can a node contact itself? | violated, see 5 |
| `db` | do records and timestamps agree, does anything expire, is everything published again? | two pages of one title and one too large, and the empty entry with a title of its own; a day of 3 hours, and a publish task up to 3 hours late, so that the expiry is reached |
| `db_url` | is the key of an entry its URL? | violated, see 5 |
| `p2p` | is every connection in one slot until closed for a cause, does the count follow, who can be kept waiting, is every request taken up? | three clients on two slots and a backlog of one, so that the house fills; a ping, a `findNode`, two `storeResult`; one fault anywhere; a clean stack with input waiting, and a dirty stack |
| `p2p_cut` | is a reply cut after its header an error? | violated, see 5 |
| `node` | has an accepted connection one owner, in order, answered once? who is late at the end? does the node stop when told? | one worker, a backlog of one, one detached thread. Two systems: the server alone with two connections and browsers that send in parts, stop to read, leave or reset; and the node with one connection, browsers that send a request whole or nothing and may stop to read, and one kind of others that falls silent while somebody waits for it |

*Bounds.* The rules of a bucket depend on its length against `BucketMax`, on
`stales` against the threshold and on the order of `lastSeen`: buckets of 2, a
threshold of 1 and two or three times reach every branch, every tie and every
overflow (a coverage run shows each fires), and the theorems remove the bounds. Heights
interact only in `getClosestTo`, for which three buckets give one below and one
above. `CONSTRAINT Bounded` cuts the clock, the failed probes and the copies held;
in `MCRounds` it bounds the nodes marked by a failed probe when a task begins
(`MaxStales`). A behaviour of `MCRounds` is about the tasks of one of the sets in
`Together`: one task beside the ping handlers, or a search and the publish task at the
same time, with the handlers before them. TLC never has a lookup beside a round; that is
covered by the proofs of section 4, whose invariant is of all of them together. In the
node of the run `node` somebody falls silent only when he is waited for (`Awaited` in
`MCNode`), as nobody can tell before, and only one kind; `accept` fails in the server
alone. The run has one worker; what is proved of the server and the node (section 4) holds of any number, its
liveness is checked for one. A behaviour of
`MCValues` is about one of its parts, the others do not move.

*Deadlock* is checked in the runs of the table, its file and the store. It is not in
those of the tasks, where the program may end (`aborted`) and the bounds stop the others,
nor in those of the servers and the node, where the process may end or block for ever:
`RequestsTakenUp` and `StopsWhenTold` say when; nor in `values`, where most behaviours
are one value and a file ends.

*Fairness.* `TasksEnd` assumes weak fairness of the steps of a lookup or a round that was
begun: a thread the system schedules, and, since the client has no timeout on a reply,
that the network answers or fails every request. That a task begins is not assumed. A
round gets the mutex, which is free again and again, at some time (strong fairness of
`RoundLocks`).
`StopsWhenTold` and `RequestsAnswered` assume that each thread is scheduled, `main`, the
accept thread, the tasks, the workers and the detached threads; nothing is assumed of
browsers, peers, clients, signals and failures, and what may hold a thread up for ever is
named in the property: a mutex left locked, a peer whose reply a task or a page waits for,
a client main reads from or writes to (`sdsp2pserver.cpp:90`, `:104`, `:148`), the
controller of Tor (`tor.c:396`), a browser that sends nothing or reads nothing
(`httpserver.cpp:199`, `:220`). `EndLoop` is strongly fair: each pass of main over its
clients is finite, so that it looks at `running` again and again if it does not wait for a
client for ever.
`Republished` assumes that the clock runs, that the publish task is scheduled, and that
its requests end; the lateness of the task is not assumed but part of the statement
(`InTime`). `RequestsTakenUp` assumes that the thread of the server and those of the
clients are scheduled. A client that goes silent is a step of its own (`Vanish`,
`ConnectLeaks`), after which nothing is assumed of it.

*The properties*, besides one type invariant per group:

- `Placed`, `ReplacementsWait`, `MostRecentFirst`, `DisplacedForCause`, `NeverFull`,
  `AnswersProgress`: the structure of the table. `MostRecentFirst` holds although a
  failed probe does not sort; `NeverFull` means that the branch of
  `NodesLookupTask::execute` for a full table is dead code.
- `ListedOnce` holds of a table only told of contacts just heard of, over restarts, and
  is false with old copies: that is what `table_answer` shows.
- `UnheardFew`: a search pushes up to `ALPHA` - 1 nodes without a sign of life, because
  it does not wait for its last futures (`localnode.cpp:418`), and never more; the publish
  task pushes none.
- `EntriesLeave`: in spite of a map keyed by `lastSeen`, an entry that had a neighbour is
  stored here or offered to a node that answered or failed.
- `OnlyFailedPenalised`, `ImplementsTable`, `TasksEnd`.
- `TrackedIsStored`: every timestamp is that of a record, and a record is without one only
  where the scan of `open()` or a `del()` failed. `NothingExpires`, `Republished`.
- `HeldOnce`, `CountsSlots`: the bookkeeping of the slots, in spite of the element past
  the array. `WaitsForStarted`, `ClosedForCause`: whom the server may wait for, and when it
  may close. `RequestsTakenUp`: a request is taken up but for the causes `HeldUp` lists,
  among them a full house with a connection waiting, where the loop goes on before it
  looks at its clients (`sdsp2pserver.cpp:211`). A client on the element past the array is
  not polled, and is not covered by it.
- `OneOwner`, `ImplementsRequestQueue`, `RequestsAnswered`: the hand-over of connections
  between the threads of the web server. `OnlyKnownLate`: at the end a page being made, a
  detached thread, the second join of a task and a second signal may be late, and nobody
  else. `StopsWhenTold`.
- `LoopsComputeIds`, `WordsHashAlike`: functions against what they are meant to compute,
  with the inputs for which the code does not compute it left out by name (`EvenWords`,
  weights a char holds).
- `SettingsFound`: the sections and settings read are those the user wrote, and
  `lookupString` finds the first of a key. A setting that is not `Tidy` keeps blanks, since
  the loop that should trim them does not move (`sdsconfigfile.cpp:182`); a line of blanks
  is refused, for the same reason.
- `MessagesArrive` relates the bytes, the cursor and the fields of a whole message that is
  taken for what it is. The two that are taken for others are read within their bytes: the
  query of a search, of which nothing more is said, and the reply to it, which tells of
  its nodes and of no results. All this is of messages without empty strings: `readString`
  looks for the end from the second byte on (`sdsbytesbuf.cpp:113`), so what follows an
  empty string is read wrong. The code does send such messages (the search form of the
  browser, pages without a title); they are among the inputs of the run, and the property
  says nothing of them.
- `FormsReachPages`: the title, the url and the properties that are stored are those the
  user typed, through the escapes of the browser and `httpUnescape`, and nothing is
  stored of a malformed request. The search form is sent as a GET, whose query
  `parseHttpHeaders` clears (`httpserver.cpp:69`), and the type a user chooses is lost;
  the property is not about these.
- `OnlyKnownLeaks`, `SameAddress`, `FindsHandedOver`.

## 4. The proofs

The theorems hold for every id length, bucket size, threshold and set of contacts, every
set of entries and every period, and any number of clients, slots, faults, connections,
workers and detached threads, any replies of the neighbours, any keys and any pages,
messages, texts and files of any length, under the assumptions named in `KadId`,
`KadBucket`, `KadRoutingTable`, `NodesLookup`, `Rounds`, `SearchEntriesDB`, `P2PServer`,
`P2PNetwork`, `HttpServer`, `Node`, `HiddenService`, `WebCrawler`, `Messages`,
`WebRequest` and `ConfigFile`. `BucketMax > 1` is needed by `NeverFull`. Every safety
property that a passing run checks is a theorem but `LoopsComputeIds` and
`WordsHashAlike`, see the end of this section.

*The table* (`KadRoutingTableProofs`). The inductive invariant is

    TableInv == TypeOK
             /\ \A h : BucketOK(buckets[h]) /\ PlacedAt(buckets[h], h)
             /\ Len(buckets[0].nodes) <= 1

where `BucketOK` says that a bucket is sorted, within its limits, and has replacements
only behind a full list. The last conjunct is what makes `NeverFull` inductive: the
bucket of height 0 has a single id (`OneIdAtHeightZero`), and `Admit` does not list an
id twice. Before the state machine come the facts on heights and distances, and one
lemma for each branch of `pushNode` and for `removeNode`. From `TableInv`:
`TypeCorrectness`, `PlacementCorrectness`, `ReplacementsCorrectness`,
`OrderCorrectness`, `NeverFullCorrectness`, and `DisplacementCorrectness` (an action
property, from the invariant before the step). `AnswersProgressCorrectness` is about the
walk of `getClosestTo`: the visits of places are in a strict and total order
(`VisitedTransitive`, `VisitedTotal`), so an answer has `count` places at most
(`AnswerSize`); one that leaves out a node of the target's bucket has no node of
another, which is visited later (`OneBucketAnswer`); and two ids of one bucket are
nearer to each other than to the local id (`CloserInBucket`). `FreshListedOnce` is of
`FreshSpec`, with the stronger invariant that a bucket with replacements has no stale
node, so that `Evict` never meets a node that waits.

*The table over restarts* (`KadTableFileProofs`). The invariant of a fresh table is kept
for the buckets in memory and for those in the file. `Cut` may take the replacements or
the end of a list away, and a list that is cut has no replacements behind it: what the
code writes first matters, and the mutant that writes the replacements first violates
it. It gives `RestartsListOnce`, `RestartsKeepOrder`, which is of types, places, limits
and order together, and `RestartsProgress`.

*The tasks on the table* (`RoundsProofs`). `TasksInv` is `TableInv` with an invariant of
the lookup and one of the rounds, in which the search and the publish task have each a
stage of their own: a lookup, a search and a publish may all be at work at once:

    LookupInv == LookupTypeOK /\ LookupCopies
    RoundInv  == RoundTypeOK /\ (\A r \in Rounders : CopiesOf(r) /\ FlightOf(r)) /\ Lists

`LookupCopies` and `CopiesOf` say that every node in the hands of a task is one it
took from the table (`held`) or made of a contact it was told of (`FreshNodes`), and
that no two nodes of its set were seen at the same time (`SeenApart`): the sets are
keyed by `lastSeen`, and this is what `SetFind` keeps. What one task lets go of at its end
is not what another still holds (`LookupHolds`, `RoundsHold`). So every step of a task is a call
that `KadRoutingTable` specifies, or leaves the table alone (`LookupCalls`,
`RoundCalls`), which is `TasksImplementTable`, with the identity as refinement mapping:
`TableInv` is then kept by the lemmas on the table, and `NeverFull` holds with the tasks
at work. `FlightOf` accounts for the nodes asked, each of which has answered, failed or is
waited for; `FlightOver` lets fewer than `Alpha` be waited
for at the end, and none in a publish (`UnheardFew`). `Lists` is that an entry with a
neighbour is in the list of a target or kept; with `FlightOf` it gives `EntriesLeave`.
`OnlyFailedPenalised` is an action property: a push takes credit from no node unless it
is stale (`PushNodeCredit`), a failure from the node that failed alone
(`RemoveNodeCredit`), and a final loop removes those only. The sets of a round are
written as what the insertions one after the other leave, so that no induction is
needed; `SetToSeq`, which lists an answer of the table, is proved to list each element
once.

*The store* (`SearchEntriesDBProofs`). The inductive invariant `StoreInv` adds to the
type and to `TrackedIsStored`, with its two exceptions from `failures`, that without a run
there is no handle and no lock (`Handles`), and that an age exceeds `UnixHour - 1` by at
most the time since the last broadcast (`AgesFollowGap`): a broadcast leaves no age above
that, and age and gap grow alike. `NothingExpiresInTime` follows.

*The P2P server* (`P2PNetworkProofs`). `NetworkInv` adds to the types and to
`CountsSlots` that the server goes on to `accept` only with a connection in the backlog
and a free count (`AcceptReady`, which needs that clients only add to the backlog), and
that a client in a call has a call to make. Of the stack past the array and of the
standard input nothing is assumed. It gives `CountCorrectness` and, in
`NetworkTypeCorrectness`, that the count never exceeds `MaxClients`. `SeatInv`,
inductive with it, says where the connections are:

    SeatInv == BacklogDistinct /\ SeatsDistinct /\ PlacedOnce /\ PollStarts /\ Reported

each waits once, or is in one element, from the time it is made until the server closes
it, and never both (`PlacedOnce`), from which `HeldOnceCorrectness`. `Reported` is what
makes a pass sound: what `poll` reported of an element the loop has still to come to is
true of the connection there, or of the standard input. A connection accepted in the
same pass goes to a free element, for which only the standard input can have been
reported, hence the exceptions of `WaitsForStarted` and `ClosedForCause`; the element
past the array is never reported to have hung up (`PollStarts`).

*The hidden service* (`ServicesProofs`, first half). `CallInv` gives, for each exchange of a
client's call, the sockets that are open: those of the session once its three exchanges
are over, and that of the exchange. It gives `OnlyKnownLeaksCorrectness`. `ServiceInv`
follows the key through a run: in the file, in memory while the file is empty, and, as
long as no part of it was lost, that of every address served (`KeyKept`), from which
`SameAddressCorrectness` for any number of runs.

*The crawler* (`ServicesProofs`, second half). `CrawlerInv` says of which URLs and entries its
lists are made. The rest is that an entry goes to the end of `searches` and `found` at
once, and leaves `searches` for the end of `handed` only. The map that `scanDocument`
fills is a list in the order of its keys (`Increasing`), proved to list every element
once (`IncreasingLists`).

*The web server* (`NodeProofs`, first half). `HttpInv` adds to the types and to
`OneOwner` that a thread has a connection just where its code has one in `client_fd`
(`WorkersOwn`, `AcceptorOwns`) and that no worker is at work without a pool (`Idle`).
There is one lemma for each kind of action, which says that it keeps `HttpInv` and what
it does to the queue and to the connections being served; `ServerImplementsQueue` puts
these together as a refinement of `RequestQueue`. The lemmas are about `ServerStep`,
which has more than the server alone: a handler that returns whatever it did, and an
owner that does other things.

*The node* (`NodeProofs`, second half). Each step of a node is a `ServerStep`, so
`HttpInv` is kept, and the refinement holds in the node as well (`NodeImplementsQueue`).
`NodePart` adds how far main is when a task, the store, the pool or the server has
ended, and that a page is made only by a worker that handles a request. It gives
`OnlyKnownAreLate`: that tasks are joined before the store is closed is why they are
never late, and that the pool is joined before the web server is deleted is why no page
outlives it.

*What is read* (`FormatsProofs`). Three theorems say that a loop over bytes undoes what
another wrote, for texts, lists and numbers of any length. The invariants are small:

    ConfigInv   == the types, and config agrees with meant, section by section
    MessagesInv == what is not read yet is Reader(Written(message)); MessagesArrive
    WebInv      == a form on its way is Posted(typed, ...); FormsReachPages

and the work is in the lemmas on the operators. The library's rules of induction take an
operator as a parameter, which the provers here cannot instantiate, so the loops are
recursive functions of the number of their turns, and induction is a lemma of first
order: `Counting` says that a *set* of numbers that has 0, and with each number the next,
has them all, from the least element of what it lacks. `Iterates` builds from it a
function that goes on turn by turn, and `OneSolution` says that there is no other, which
gives the recursive functions of the modules their values.

- *Settings* (`SettingsFoundCorrectness`) need no loop: `StrLRTrim` and `Place` are about
  the least place of a kind, so `TrimmedLine` and `SettingParsed` follow a line through its
  cuts, and `ConfigInvFinds` gives `lookupString` its first match. A setting that is not
  tidy is accounted for in the invariant by its place only.
- *Messages* (`MessagesArriveCorrectness`). A reader that has the bytes of a field ahead
  of it moves behind them and has got the field: `ReadsUint` by the digits of the number
  (`Number` undoes `Shifted`, turn by turn), `ReadsString` by the first zero from the second
  byte on, which a string that is not empty has at its end, `ListRuns` for the elements of
  a list one after the other, with `FlattenJoins` for how `FlattenSeq` joins them.
  `MessageReads` puts the fields together for each kind; a query read as an id is as many
  bytes or none, and `NothingLeft` is about the reply taken for another: with no byte left,
  a number is read as 0.
- *Forms* (`FormsReachPagesCorrectness`). `TurnReads` says that one turn of `httpUnescape`
  at an escaped character makes that character, whatever lies behind the string,
  `UnescapesEscaped` that so many turns undo the escapes of a text, and `PostedHandled`
  follows the form through the parser to the page. `StoredIsWellFormed` is
  about what is stored of any request.

The assumptions are that a byte has two values at least and an id one byte, that the
numbers of a message fit their width (`MessageFits`; that no string is empty is a condition
of the property, not of the messages), that a character is a code
below 256, that a form has the fields of the page and a browser sends well formed headers,
and, of the configuration, that a user writes keys and values the code can tell from what
is around them (`Settable`). `SettingsAssumption` excludes no blanks: those are the
business of `Tidy`, in the property.

*Only model-checked*: liveness (`TasksEnd`, `Republished`, `RequestsTakenUp`,
`StopsWhenTold`, `RequestsAnswered`), as fairness and `ENABLED` are out of the prover's
reach; `LoopsComputeIds`, of loops that mask bits (`Bitwise` and RECURSIVE operators, which
cannot be used beside a theorem) and compare sums of powers of two; `WordsHashAlike`, whose
hash is an exclusive or of bits and whose weights are sums over the words; and the four
properties of section 5, which are false.

## 5. Findings

- `table_answer`: `pushNode` returns `found = false` when it evicts a stale node in
  favour of one that waits among the replacements, and lists it twice
  (`kadbucket.cpp:43`). The caller counts it as discovered.
- `tasks_self`: `doSearch` inserts every node a reply tells of in its targets
  (`localnode.cpp:428`), where the lookup leaves the local node out (`localnode.cpp:103`).
  A neighbour that knows this node, as all do that it pinged, makes it contact itself,
  and the handler of the ping ends the process with "This should never happen". A
  configured peer with the local address, pushed while that address is not known yet
  (`localnode.cpp:271`), does the same.
- `p2p_cut`: when the body of a reply does not come, `sendRpcRequest` sets the error in
  the header it received and returns "no error" (`sdsp2pclient.cpp:216`): a lookup takes an
  empty buffer for the reply of `findNode`.
- `db_url`: `reHash` hashes the title where the comment says the URL: two pages of
  one title share a key, and one replaces the other.

Other things the code does that a reader may not expect are stated by properties
that hold, and are listed with them in section 3. One more: the table never answers
the local id, so `doSearch` never searches the local store (`localnode.cpp:396`).

## 6. What is left

To be proved next: what a byte of `KadIdBytes` adds to a height, with the argument of
`FormatsProofs` for the loop around it, once the masks are written without `Bitwise`; that
`ListedOnce` holds of the tasks when nobody holds an old copy; and, of the liveness
properties, the safety half, that a state from which nothing moves is one of the causes
the property lists.

Not modelled, or in part:

- STUN (`net/stun.c`), which nothing calls, and the functions of `libsam3` that nothing
  calls (datagrams, accepting); `flush` of the store and `fromHexString`, for the same
  reason.
- `loguru`, a vendored logging library; libcurl, the HTML parser and Berkeley DB, modelled
  by how the code uses them.
- The options of `main`, the daemon and its pid file: no state the rest reads.
- The markup of the pages and the filters of the results page. The handler of that page
  is one object for all workers, of which there is one, and its strings are read by the
  layout only.
- A P2P request whose header, some bytes of one `send()`, arrives in two parts, which the
  server answers with an error (`sdsp2pserver.cpp:94`), and one of an unknown function
  (`sdsp2pserver.cpp:138`), which no client of this code sends: `P2PServer` has the answer
  with an error and the close of the connection for a failing `storeResult` only. `Node`
  has both (`NoRequest`).
- `matchesQuery`, a text search without state; the growth of the allocation of `SdsBytesBuf`;
  printing.
- The address of an I2P service is longer than `hsaddr` holds (`HiddenService`): the
  process goes on or ends, and what lies behind the array is not modelled.
- The thread of a search that republishes has no effect on the table, so `Rounds` leaves it
  out; its life is in `Node`.
