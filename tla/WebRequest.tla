----------------------------- MODULE WebRequest -----------------------------
(***************************************************************************)
(* What the web server makes of the bytes of one request: the parser of    *)
(* src/webserver/httpserver.cpp and the pages of                           *)
(* src/webserver/sdswebuiserver.cpp.                                       *)
(*                                                                         *)
(* A request as it is sent is [method, words, url, query, terminated,      *)
(* headers, body]: words counts those of the first line, terminated says   *)
(* that the line ends; query is the pieces after a "?", between the "&"s,  *)
(* and none without a "?"; headers are the lines before an empty line, and *)
(* none if no line comes before it; body is the pieces after it.           *)
(* A piece is [key, value], the value a sequence of the codes of its       *)
(* characters, or Malformed, one without its sign.                         *)
(***************************************************************************)
EXTENDS Integers, Sequences, SequencesExt, FiniteSetsExt

CONSTANTS
    Forms,      \* the forms that users fill in, each a sequence of [key, text]
    Headers,    \* the headers a browser sends with them
    Requests,   \* the requests of any client
    Beyond      \* the characters that may lie behind the end of a string

VARIABLES
    request,    \* the request on its way, or NoRequest
    typed,      \* the form it was made of, or NoForm
    answer      \* what its page answered, or NoAnswer

webVars == <<request, typed, answer>>

Code == 0 .. 255

NoPieces == << >>
Malformed == [key |-> "", value |-> << >>, malformed |-> TRUE]
Piece(key, value) == [key |-> key, value |-> value, malformed |-> FALSE]

\* An empty map of strings
Nothing == [key \in {} |-> << >>]

\* operator[] of a map of strings
Value(map, key) == IF key \in DOMAIN map THEN map[key] ELSE << >>

-----------------------------------------------------------------------------
(* httpUnescape(), over the codes of the characters *)

PLUS == 43
PERCENT == 37
DOLLAR == 36
SPACE == 32

\* Mutant of HexDigit: the letters count from nought
HexDigitFromA(c) ==
    CASE c \in 48 .. 57 -> c - 48
      [] c \in 65 .. 70 -> c - 65
      [] OTHER          -> c

HexDigit(c) ==
    CASE c \in 48 .. 57 -> c - 48
      [] c \in 65 .. 70 -> c - 55
      [] OTHER          -> c

\* One turn of the loop: at characters are read, and text is what they were made
\* to.  The two characters after a sign may lie behind the end of the string: the
\* first there is a zero, nothing is known of the second.
Turn(s, beyond, u) ==
    LET char(i) == IF i <= Len(s) THEN s[i] ELSE IF i = Len(s) + 1 THEN 0 ELSE beyond
        become(n, x) == [at |-> u.at + n, text |-> Append(u.text, x)]
        c == s[u.at + 1]
    IN  CASE u.at >= Len(s) -> u
          [] u.at < Len(s) /\ c = PLUS -> become(1, SPACE)
          [] u.at < Len(s) /\ c \in {PERCENT, DOLLAR} ->
                become(3, 16 * (HexDigit(char(u.at + 2)) % 16) + (HexDigit(char(u.at + 3)) % 16))
          [] OTHER -> become(1, c)

\* The loop has no more turns than there are characters
Unescape(s, beyond) ==
    LET turn[k \in 0 .. Len(s)] ==
            IF k = 0 THEN [at |-> 0, text |-> << >>] ELSE Turn(s, beyond, turn[k - 1])
    IN  turn[Len(s)].text

\* How a browser sends a character in a form: letters and digits as they are
HexChar(n) == IF n < 10 THEN 48 + n ELSE 55 + n

EscapeChar(c) ==
    IF c \in 48 .. 57 \union 65 .. 90 \union 97 .. 122 THEN <<c>>
    ELSE IF c = SPACE THEN <<PLUS>>
    ELSE <<PERCENT, HexChar(c \div 16), HexChar(c % 16)>>

Escape(s) == FlattenSeq([i \in DOMAIN s |-> EscapeChar(s[i])])

-----------------------------------------------------------------------------
(* The parser *)

\* The map of the pieces, a later one over an earlier one of its key
Map(pieces) ==
    [key \in {pieces[i].key : i \in DOMAIN pieces} |->
        pieces[Max({i \in DOMAIN pieces : pieces[i].key = key})].value]

Wrong(pieces) == \E i \in DOMAIN pieces : pieces[i].malformed

\* A request as far as it is parsed
Parsed(ok, method, url, values, headers) ==
    [ok |-> ok, method |-> method, url |-> url, values |-> values, headers |-> headers]

Bad(req) == Parsed(FALSE, req.method, req.url, req.values, req.headers)

Unescaped(pieces, beyond) ==
    [i \in DOMAIN pieces |-> Piece(pieces[i].key, Unescape(pieces[i].value, beyond))]

\* parseHttpAttrs(), which forgets the headers.  It adds to the values, of which
\* there are none before either of its calls.
ParseAttrs(req, pieces, beyond) ==
    IF Wrong(pieces) THEN Bad(req)
    ELSE Parsed(req.ok, req.method, req.url, Map(Unescaped(pieces, beyond)), Nothing)

\* parseHttpHeaders(), which forgets the values
ParseHeaders(req, pieces) ==
    IF Wrong(pieces) THEN Bad(req)
    ELSE Parsed(req.ok, req.method, req.url, Nothing, Map(pieces))

\* parseHttpFirstLine(): a POST keeps all of its url
ParseFirstLine(raw, beyond) ==
    LET whole == IF raw.method = "POST" /\ raw.query # NoPieces THEN "other" ELSE raw.url
        named == Parsed(TRUE, raw.method, whole, Nothing, Nothing)
    IN  IF raw.words <= 2 \/ raw.method \notin {"GET", "HEAD", "POST"} THEN Bad(named)
        ELSE IF raw.method = "POST" \/ raw.query = NoPieces THEN named
        ELSE ParseAttrs(named, raw.query, beyond)

\* parseHttpReqest(): without a header there is no empty line to look behind
ParseRequest(raw, beyond) ==
    LET first == ParseFirstLine(raw, beyond)
        headed == ParseHeaders(first, raw.headers)
    IN  IF ~raw.terminated \/ ~first.ok THEN Bad(first)
        ELSE IF raw.headers = NoPieces THEN first
        ELSE IF headed.ok /\ headed.method = "POST" THEN ParseAttrs(headed, raw.body, beyond)
        ELSE headed

-----------------------------------------------------------------------------
(* The pages.  A page answers, and asks the node for a query or gives it an
   entry to store. *)

Answer(reply, asked, stored) == [reply |-> reply, asked |-> asked, stored |-> stored]

Error == Answer("error", {}, {})

\* IndexHandler
Index == Answer("page", {}, {})

\* A FileHandler whose file is there
File == Answer("page", {}, {})

\* ResultsViewHandler
ResultsView(values) == Answer("page", {Value(values, "q")}, {})

PropertyKeys == {"property_description", "property_tags", "property_origin"}

\* insertSearchEntry() works out a type of data_type, and does not pass it on: what it
\* stores has that of every new SearchEntry
EntryOf(values) ==
    [title |-> Value(values, "link_title"),
     url |-> Value(values, "link_url"),
     type |-> "SITE",
     properties |-> {<<key, Value(values, key)>> :
                        key \in {k \in PropertyKeys : Value(values, k) # << >>}}]

\* InsertEntryHandler
InsertEntry(values) ==
    IF Value(values, "link_title") = << >> \/ Value(values, "link_url") = << >>
    THEN Answer("page", {}, {})
    ELSE Answer("page", {}, {EntryOf(values)})

\* handleRequest() of the server, and what the thread answers without it
Handled(req) ==
    CASE ~req.ok -> Error
      [] req.ok /\ req.url = "/search" -> ResultsView(req.values)
      [] req.ok /\ req.url = "/insert_link" -> InsertEntry(req.values)
      [] req.ok /\ req.url = "/" -> Index
      [] req.ok /\ req.url \in {"/sds_logo.png", "/sds_header.png"} -> File
      [] OTHER -> Error

-----------------------------------------------------------------------------
(* The forms and the requests there are *)

FieldKeys == {"link_title", "link_url", "data_type"} \union PropertyKeys

ASSUME FormsAssumption == Forms \subseteq Seq([key : FieldKeys, text : Seq(Code)])

ASSUME HeadersAssumption == \A h \in Headers : h # NoPieces /\ ~Wrong(h)

\* What the user typed, and how the browser sends it
Filled(form) == [i \in DOMAIN form |-> Piece(form[i].key, form[i].text)]

Escaped(form) == [i \in DOMAIN form |-> Piece(form[i].key, Escape(form[i].text))]

Posted(form, headers) ==
    [method |-> "POST", words |-> 3, url |-> "/insert_link", query |-> NoPieces,
     terminated |-> TRUE, headers |-> headers, body |-> Escaped(form)]

-----------------------------------------------------------------------------
(* A client connects, with a form of the page or a request of any kind.  The
   server closes the connection after its answer. *)

NoRequest == [method |-> "none"]
NoForm == "no form"
NoAnswer == Answer("none", {}, {})

WebInit == request = NoRequest /\ typed = NoForm /\ answer = NoAnswer

PostForm ==
    /\ request = NoRequest
    /\ \E form \in Forms, headers \in Headers :
        request' = Posted(form, headers) /\ typed' = form
    /\ UNCHANGED answer

SendRequest ==
    /\ request = NoRequest
    /\ request' \in Requests
    /\ UNCHANGED <<typed, answer>>

HandleRequest ==
    /\ request # NoRequest /\ answer = NoAnswer
    /\ \E beyond \in Beyond : answer' = Handled(ParseRequest(request, beyond))
    /\ UNCHANGED <<request, typed>>

CloseConnection ==
    /\ answer # NoAnswer
    /\ request' = NoRequest /\ typed' = NoForm /\ answer' = NoAnswer

WebNext == PostForm \/ SendRequest \/ HandleRequest \/ CloseConnection

WebSpec == WebInit /\ [][WebNext]_webVars

-----------------------------------------------------------------------------
\* What a field says: of two of one key the later one counts
FieldText(form, key) ==
    LET at == {i \in DOMAIN form : form[i].key = key}
    IN  IF at = {} THEN << >> ELSE form[Max(at)].text

\* The entry of a posted form is stored once, with the title, the url and the
\* properties the user typed, whatever characters are in them and whatever lies in
\* memory behind them; a form without a title or a url is not stored.  Nor is anything
\* of a request that does not end its first line, or of which a header or a field has
\* no sign: what was read of it before the error never reaches a page
\* (parseHttpReqest, httpUnescape and insertSearchEntry).
FormsReachPages ==
    answer # NoAnswer =>
        /\ typed # NoForm =>
            IF FieldText(typed, "link_title") = << >> \/ FieldText(typed, "link_url") = << >>
            THEN answer.stored = {}
            ELSE \E se \in answer.stored :
                    /\ answer.stored = {se}
                    /\ se.title = FieldText(typed, "link_title")
                    /\ se.url = FieldText(typed, "link_url")
                    /\ se.properties = {<<key, FieldText(typed, key)>> :
                                key \in {k \in PropertyKeys : FieldText(typed, k) # << >>}}
        /\ answer.stored # {} =>
            /\ request.terminated /\ ~Wrong(request.headers)
            /\ request.method = "POST" => ~Wrong(request.body)
            /\ request.method # "POST" => ~Wrong(request.query)
=============================================================================
