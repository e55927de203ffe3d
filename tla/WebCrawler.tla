----------------------------- MODULE WebCrawler -----------------------------
(***************************************************************************)
(* The crawler (src/crawler): the queue of urls to visit, the thread that  *)
(* visits them, the entries it finds for the publish task, the search      *)
(* engines that give urls to begin with, and the file that keeps the queue *)
(* from one run to the next.  LocalNode has its calls of startCrawling()   *)
(* and stopCrawling() commented out: crawls tells the program with them    *)
(* from the program without.  An url is a number.                          *)
(***************************************************************************)
EXTENDS Naturals, FiniteSets, SequencesExt

CONSTANTS
    Sites,        \* maps an url to its page, the links in their order, or to NoPage
    NoPage,       \* the download or the parser fails, or there is no body
    EnginePages,  \* what a search engine may answer: the children of its container
    LongLine,     \* an url, or a line of the file, that fills the buffer of load()
    QueueBound,   \* bound on the urls in the queue
    FindsBound    \* bound on the entries found

Absent == 0   \* the empty url, or no text

\* Every link and every result leads to an url of Sites
ASSUME SitesAssumption ==
    /\ DOMAIN Sites \subseteq Nat /\ Absent \in DOMAIN Sites
    /\ \A u \in DOMAIN Sites :
            Sites[u] # NoPage => Sites[u] \in Seq([parent : Nat, text : Nat, href : DOMAIN Sites])
    /\ EnginePages \subseteq
            Seq([isResult : BOOLEAN, hasUrl : BOOLEAN, text : Nat, href : DOMAIN Sites])

VARIABLES
    crawls, node,       \* node: "off", "up", or "saved" once the queue is in the file
    run, thread, url,   \* thread: "none", "next", "visit" or "over"
    urlQueue, searches, seeds,
    handed, found       \* the entries the publish task got, and all that were found

crawlerVars == <<crawls, node, run, thread, url, urlQueue, searches, seeds, handed, found>>

-----------------------------------------------------------------------------
(* Pages *)

\* getNodeText() leaves the text as it was if a link does not hold text alone,
\* and scanDocument() has one text for all the links of a parent
TitleAt(links, i) ==
    LET last == SelectLastInSubSeq(links, 1, i, LAMBDA link :
                    link.parent = links[i].parent /\ link.text # Absent)
    IN  IF last = 0 THEN Absent ELSE links[last].text

\* The elements of a finite set of numbers, from the least to the greatest
Increasing(S) == [n \in 1 .. Cardinality(S) |-> CHOOSE u \in S : Cardinality({v \in S : v <= u}) = n]

\* A map from urls, in their order: of two links to one url the last one counts
ScanDocument(links) ==
    LET urls == Increasing({links[i].href : i \in DOMAIN links})
        last(u) == CHOOSE i \in DOMAIN links :
                    links[i].href = u /\ \A j \in DOMAIN links : links[j].href = u => j <= i
    IN  [n \in DOMAIN urls |-> [title |-> TitleAt(links, last(urls[n])), url |-> urls[n]]]

\* getNextElementByAttr() begins behind the position it is given, which is 0: the
\* first child of the container is passed over.
Results(children) == {i \in DOMAIN children : i # 1 /\ children[i].isResult}

\* extractSearchResults(): an entry needs an element of its url, and a title
EngineEntries(children) ==
    LET places == Increasing({i \in Results(children) :
                    children[i].hasUrl /\ children[i].text # Absent})
    IN  [n \in DOMAIN places |->
            [title |-> children[places[n]].text, url |-> children[places[n]].href]]

Urls(entries) == [i \in DOMAIN entries |-> entries[i].url]

EngineUrls == UNION {Range(Urls(EngineEntries(p))) : p \in EnginePages}

-----------------------------------------------------------------------------
(* The constructor of LocalNode, startTasks() and shutdown() *)

\* A line is cut at its end, and the url is read from there: it is empty.  A line
\* without an end has a null pointer for it, which throws, and no run begins.
Load ==
    /\ node = "off"
    /\ LongLine \notin Range(seeds)
    /\ node' = "up"
    /\ urlQueue' = [i \in DOMAIN seeds |-> Absent]
    /\ run' \in BOOLEAN
    /\ UNCHANGED <<crawls, thread, url, searches, seeds, handed, found>>

\* The thread may look at run, which nobody has set, before it is set
StartCrawling ==
    /\ crawls /\ node = "up" /\ thread = "none"
    /\ run' = TRUE
    /\ thread' \in IF run THEN {"next"} ELSE {"next", "over"}
    /\ UNCHANGED <<crawls, node, url, urlQueue, searches, seeds, handed, found>>

StopCrawling ==
    /\ crawls /\ node = "up" /\ thread # "none"
    /\ run' = FALSE
    /\ UNCHANGED <<crawls, node, thread, url, urlQueue, searches, seeds, handed, found>>

\* The thread was joined.  A file that cannot be written stays as it is.
Save ==
    /\ node = "up"
    /\ crawls => thread = "over" /\ ~run
    /\ node' = "saved"
    /\ seeds' \in {seeds, urlQueue}
    /\ UNCHANGED <<crawls, run, thread, url, urlQueue, searches, handed, found>>

Reset ==
    /\ node' = "off" /\ thread' = "none" /\ url' = Absent
    /\ urlQueue' = << >> /\ searches' = << >> /\ handed' = << >> /\ found' = << >>
    /\ UNCHANGED <<crawls, run>>

\* The end of main(), or of the process
Over == node # "off" /\ Reset /\ UNCHANGED seeds

\* The process ends while save() writes: the last line has no end
KilledSaving ==
    /\ node = "up"
    /\ crawls => thread = "over" /\ ~run
    /\ \E i \in 0 .. Len(urlQueue) :
        seeds' \in {SubSeq(urlQueue, 1, i), Append(SubSeq(urlQueue, 1, i), LongLine)}
    /\ Reset

-----------------------------------------------------------------------------
(* crawlingFunc() *)

\* It waits for an url, or to be told to stop
NextUrl ==
    /\ thread = "next" /\ run /\ urlQueue # << >>
    /\ thread' = "visit"
    /\ url' = Head(urlQueue)
    /\ urlQueue' = Tail(urlQueue)
    /\ UNCHANGED <<crawls, node, run, searches, seeds, handed, found>>

\* run is looked at again before the queue is, and while it is empty: an url may
\* still be taken after the stop
NextAfterStop ==
    /\ thread = "next" /\ ~run
    /\ \/ thread' = "over" /\ UNCHANGED <<url, urlQueue>>
       \/ /\ urlQueue # << >>
          /\ thread' = "visit" /\ url' = Head(urlQueue) /\ urlQueue' = Tail(urlQueue)
    /\ UNCHANGED <<crawls, node, run, searches, seeds, handed, found>>

Visit ==
    /\ thread = "visit"
    /\ thread' = "next"
    /\ IF Sites[url] = NoPage
       THEN UNCHANGED <<urlQueue, searches, found>>
       ELSE LET entries == ScanDocument(Sites[url])
            IN  /\ Len(urlQueue) + Len(entries) <= QueueBound
                /\ Len(found) + Len(entries) <= FindsBound
                /\ urlQueue' = urlQueue \o Urls(entries)
                /\ searches' = searches \o entries
                /\ found' = found \o entries
    /\ UNCHANGED <<crawls, node, run, url, seeds, handed>>

-----------------------------------------------------------------------------
(* The calls of the publish task, and of a search that found nothing *)

\* Mutant of GetEntriesForBroadcast: what was handed over is not cleared
GetEntriesAgain ==
    /\ node = "up"
    /\ handed' = handed \o searches
    /\ UNCHANGED <<crawls, node, run, thread, url, urlQueue, searches, seeds, found>>

GetEntriesForBroadcast ==
    /\ node = "up"
    /\ handed' = handed \o searches
    /\ searches' = << >>
    /\ UNCHANGED <<crawls, node, run, thread, url, urlQueue, seeds, found>>

\* The web server is still there when the queue was saved
DoSearch ==
    /\ node # "off"
    /\ \E children \in EnginePages :
        /\ Len(urlQueue) + Len(EngineEntries(children)) <= QueueBound
        /\ urlQueue' = urlQueue \o Urls(EngineEntries(children))
    /\ UNCHANGED <<crawls, node, run, thread, url, searches, seeds, handed, found>>

-----------------------------------------------------------------------------
CrawlerInit ==
    /\ crawls \in BOOLEAN
    /\ node = "off" /\ run = FALSE /\ thread = "none" /\ url = Absent
    /\ urlQueue = << >> /\ searches = << >> /\ seeds = << >>
    /\ handed = << >> /\ found = << >>

CrawlerNext ==
    \/ Load \/ StartCrawling \/ StopCrawling \/ Save \/ Over \/ KilledSaving
    \/ NextUrl \/ NextAfterStop \/ Visit \/ GetEntriesForBroadcast \/ DoSearch

CrawlerSpec == CrawlerInit /\ [][CrawlerNext]_crawlerVars

-----------------------------------------------------------------------------
\* Whatever the thread, the publish task and the searches do at the same time,
\* every entry found is handed over once, in its turn, and the crawl goes on to
\* urls of entries found, or of an engine, only, beside the blank ones load()
\* makes of all seeds.
FindsHandedOver ==
    /\ handed \o searches = found
    /\ Range(urlQueue) \cup {url} \subseteq {Absent} \cup Range(Urls(found)) \cup EngineUrls
=============================================================================
