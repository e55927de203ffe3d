------------------------------ MODULE MCValues ------------------------------
(***************************************************************************)
(* Model checking of the small parts: the ids of KadIdBytes, one sample    *)
(* after another of the texts that SimHashWords computes on, the calls and *)
(* services of HiddenService, the crawler, a configuration file, the       *)
(* messages and the requests.  A behaviour is about one of them: the       *)
(* others stay as they are.                                                *)
(***************************************************************************)
EXTENDS KadIdBytes, SimHashWords, HiddenService, WebCrawler, MCFormats

CONSTANTS k1, k2, k3

MCKeys == {k1, k2, k3}

VARIABLE sample   \* [of, is]: a value of that kind, or the part that moves

\* Pages and results: a link without a text, two links to one url, a dead end
Link(parent, text, href) == [parent |-> parent, text |-> text, href |-> href]
Child(isResult, hasUrl, text, href) ==
    [isResult |-> isResult, hasUrl |-> hasUrl, text |-> text, href |-> href]

MCSites ==
    [u \in 0 .. 3 |->
        CASE u = 1 -> <<Link(1, 5, 2), Link(1, 0, 3), Link(2, 0, 2)>>
          [] u = 2 -> <<Link(1, 6, 1), Link(1, 7, 1)>>
          [] OTHER -> NoPage]

MCEnginePages ==
    {<< >>, <<Child(TRUE, TRUE, 4, 2), Child(TRUE, TRUE, 5, 1), Child(TRUE, TRUE, 0, 2)>>,
     <<Child(FALSE, FALSE, 0, 0), Child(TRUE, FALSE, 5, 1), Child(TRUE, TRUE, 6, 3)>>}

-----------------------------------------------------------------------------
(* Texts *)

WordLists == SeqOf({<< >>, <<1, 2>>, <<2, 1>>, <<1, 3, 2, 2>>, <<1>>, <<2, 1, 3>>}, 3)
TextValues == SeqOf({32, 10, 46, 1, 2}, 5)

-----------------------------------------------------------------------------
IsSample(of, x) == sample = [of |-> of, is |-> x]

MCInit ==
    /\ Init /\ ServiceInit /\ CrawlerInit /\ ConfigInit /\ MessagesInit /\ WebInit
    /\ \/ \E part \in {"ids", "calls", "crawler", "file", "messages", "requests"} : IsSample(part, 0)
       \/ \E x \in WordLists : IsSample("words", x)
       \/ \E x \in TextValues : IsSample("text", x)
    /\ sample.of # "calls" => kind = "client"
    /\ sample.of # "crawler" => ~crawls

idVars == <<a, b>>

Stay(of) ==
    /\ of # "ids" => UNCHANGED idVars
    /\ of # "calls" => UNCHANGED <<callVars, serviceVars>>
    /\ of # "crawler" => UNCHANGED crawlerVars
    /\ of # "file" => UNCHANGED configVars
    /\ of # "messages" => UNCHANGED messageVars
    /\ of # "requests" => UNCHANGED webVars

MCNext ==
    /\ UNCHANGED sample
    /\ \/ sample.of = "ids" /\ RandomId /\ Stay("ids")
       \/ sample.of = "calls" /\ ServiceNext /\ Stay("calls")
       \/ sample.of = "crawler" /\ CrawlerNext /\ Stay("crawler")
       \/ sample.of = "file" /\ ConfigNext /\ Stay("file")
       \/ sample.of = "messages" /\ MessagesNext /\ Stay("messages")
       \/ sample.of = "requests" /\ WebNext /\ Stay("requests")

MCSpec ==
    MCInit /\ [][MCNext]_<<sample, idVars, callVars, serviceVars, crawlerVars,
                         configVars, messageVars, webVars>>

-----------------------------------------------------------------------------
\* The words of a text are the runs between its delimiters, and the hash of
\* words of even length has the bits that most of the words have, whatever
\* lies in memory behind them, as long as a char holds the weights
\* (StringUtil::tokenize, SimHash::init).
WordsHashAlike ==
    /\ sample.of = "words" /\ EvenWords(sample.is) /\ Len(sample.is) < 2^(CharBits - 1) =>
            \A beyond \in {<<0>>, <<1, 2>>, <<3>>} :
                SimHash(sample.is, beyond) = Majority(sample.is, << >>)
    /\ sample.of = "text" =>
            LET words == Tokens(sample.is)
            IN  << >> \notin ToSet(words) => Tokens(Joined(words)) = words
=============================================================================
