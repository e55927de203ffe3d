------------------------------ MODULE Messages ------------------------------
(***************************************************************************)
(* The messages of the P2P protocol (src/p2p/p2p_common.cpp) and the       *)
(* entries in them, as bytes in a buffer (src/common/sdsbytesbuf.cpp).     *)
(*                                                                         *)
(* A buffer is written field after field and read back field after field,  *)
(* with a cursor and no marks between the fields.  A byte has Radix        *)
(* values.  A map is the sequence of its pairs in the order of its keys,   *)
(* and an id is the number its bytes stand for.                            *)
(***************************************************************************)
EXTENDS Integers, Sequences, SequencesExt

CONSTANTS
    Radix,      \* the values of a byte
    IdBytes,    \* the bytes of an id and of a simHash
    Sendable    \* the messages the nodes have to send

VARIABLES
    message,    \* the message on its way, or NoMessage
    reader,     \* the buffer of the other end, with the cursor in it
    readAs      \* the kind of message the other end took it for, "none" before

messageVars == <<message, reader, readAs>>

NUL == 0

Byte == 0 .. Radix - 1

-----------------------------------------------------------------------------
(* Writing *)

\* What is left of a number without its last bytes
Shifted(n, bytes) ==
    LET rest[i \in 0 .. bytes] == IF i = 0 THEN n ELSE rest[i - 1] \div Radix IN rest[bytes]

Uint(n, width) == [i \in 1 .. width |-> Shifted(n, i - 1) % Radix]

String(chars) == Append(chars, NUL)

Id(id) == Uint(id, IdBytes)

\* The elements of a sequence, each written by Write
EachOf(s, Write(_)) == FlattenSeq([i \in DOMAIN s |-> Write(s[i])])

Property(p) == Uint(p.key, 1) \o String(p.value)

Entry(se) ==
    Id(se.simHash) \o String(se.title) \o String(se.url) \o Uint(se.type, 1)
        \o Uint(Len(se.properties), 4) \o EachOf(se.properties, Property)

Contact(c) == Id(c.id) \o String(c.address)

Nearest(s) == Uint(Len(s), 4) \o EachOf(s, Contact)

Written(m) ==
    CASE m.kind = "ping"        -> Uint(m.nonce, 8) \o String(m.address) \o Id(m.id)
      [] m.kind = "pong"        -> Uint(m.nonce, 8)
      [] m.kind = "findNode"    -> Id(m.id)
      [] m.kind = "nodes"       -> Nearest(m.nearest)
      [] m.kind = "storeResult" -> Entry(m.entry)
      [] m.kind \in {"findResults", "query"} -> String(m.query)
      [] m.kind = "results"     -> Nearest(m.nearest) \o Uint(Len(m.results), 4)
                                        \o EachOf(m.results, Entry)

-----------------------------------------------------------------------------
(* Reading.  A reader is the bytes, the cursor, and what it has read so far.
   With the cursor past the end, what is left underflows: every read takes
   what lies in memory there, of which nothing is known, and moves on. *)

Reader(bytes) == [bytes |-> bytes, pos |-> 0, got |-> << >>]

Astray(r) == r.pos > Len(r.bytes)

Unknown == -1

Left(r) == Len(r.bytes) - r.pos

Take(r, n, value) ==
    [bytes |-> r.bytes, pos |-> r.pos + n, got |-> Append(r.got, value)]

\* The number in the next bytes, the last of which counts most
Number(r, width) ==
    LET top[i \in 0 .. width] ==
            IF i = 0 THEN 0 ELSE r.bytes[r.pos + width + 1 - i] + Radix * top[i - 1]
    IN  top[width]

\* read() of a number: nothing moves when too little is left
ReadUint(r, width) ==
    CASE Astray(r)                          -> Take(r, width, Unknown)
      [] ~Astray(r) /\ Left(r) < width      -> Take(r, 0, 0)
      [] OTHER                              -> Take(r, width, Number(r, width))

\* The length readString finds: it looks for the end from the second byte on
StringLength(r) ==
    LET ends == {len \in 1 .. (Left(r) - 1) : r.bytes[r.pos + len + 1] = NUL}
    IN  IF ends = {} THEN Left(r) ELSE CHOOSE len \in ends : \A l \in ends : len <= l

\* Mutant of ReadString: the cursor stays before the zero byte
ReadStringShort(r) ==
    IF Astray(r)
    THEN Take(r, 1, Unknown)
    ELSE Take(r, StringLength(r), SubSeq(r.bytes, r.pos + 1, r.pos + StringLength(r)))

ReadString(r) ==
    IF Astray(r)
    THEN Take(r, 1, Unknown)
    ELSE Take(r, StringLength(r) + 1, SubSeq(r.bytes, r.pos + 1, r.pos + StringLength(r)))

\* Of too few bytes the id keeps what lay in its memory: KadId() sets nothing
ReadId(r) ==
    IF ~Astray(r) /\ Left(r) < IdBytes THEN Take(r, 0, Unknown) ELSE ReadUint(r, IdBytes)

\* As many elements as the number just read says.  Where the number is not
\* known, as many as leave the bytes behind.
ReadEachOf(r, Read(_)) ==
    LET counted == ReadUint(r, 4)
        size == Last(counted.got)
        count == IF size = Unknown THEN Len(r.bytes) + 1 ELSE size
        after[i \in 0 .. count] == IF i = 0 THEN counted ELSE Read(after[i - 1])
    IN  after[count]

ReadProperty(r) == ReadString(ReadUint(r, 1))

\* reHash(), which follows, is in SearchEntriesDB
ReadEntry(r) == ReadEachOf(ReadUint(ReadString(ReadString(ReadId(r))), 1), ReadProperty)

ReadContact(r) == ReadString(ReadId(r))

ReadMessage(kind, r) ==
    CASE kind = "ping"        -> ReadId(ReadString(ReadUint(r, 8)))
      [] kind = "pong"        -> ReadUint(r, 8)
      [] kind = "findNode"    -> ReadId(r)
      [] kind = "nodes"       -> ReadEachOf(r, ReadContact)
      [] kind = "storeResult" -> ReadEntry(r)
      [] kind = "query"       -> ReadString(r)
      [] kind = "results"     -> ReadEachOf(ReadEachOf(r, ReadContact), ReadEntry)

-----------------------------------------------------------------------------
(* The messages there are, whose strings are of a set of texts.  A number
   fits the bytes it is written in. *)

Letter == Byte \ {NUL}

\* What a user, a page or a configuration may give: a search of the browser always
\* asks for the empty string, and a page may have no title
AnyText == Seq(Letter)

Text == AnyText \ {<< >>}

Fits(n, width) == n \in Nat /\ Shifted(n, width) = 0

IdType == {n \in Nat : Fits(n, IdBytes)}

PropertyType(texts) == [key : Byte, value : texts]

EntryType(texts) ==
    [simHash : IdType, title : texts, url : texts, type : Byte,
     properties : Seq(PropertyType(texts))]

ContactType(texts) == [id : IdType, address : texts]

EntryFits(se, texts) == se \in EntryType(texts) /\ Fits(Len(se.properties), 4)

NearestFits(s, texts) == s \in Seq(ContactType(texts)) /\ Fits(Len(s), 4)

ResultsFit(s, texts) ==
    s \in Seq(EntryType(texts)) /\ Fits(Len(s), 4) /\ \A i \in DOMAIN s : EntryFits(s[i], texts)

MessageFits(m, texts) ==
    \/ /\ m \in [kind : {"ping"}, nonce : Nat, address : texts, id : IdType]
       /\ Fits(m.nonce, 8)
    \/ m \in [kind : {"pong"}, nonce : Nat] /\ Fits(m.nonce, 8)
    \/ m \in [kind : {"findNode"}, id : IdType]
    \/ /\ m \in [kind : {"nodes"}, nearest : Seq(ContactType(texts))]
       /\ NearestFits(m.nearest, texts)
    \/ m \in [kind : {"storeResult"}, entry : EntryType(texts)] /\ EntryFits(m.entry, texts)
    \/ m \in [kind : {"findResults", "query"}, query : texts]
    \/ /\ m \in [kind : {"results"}, nearest : Seq(ContactType(texts)),
                  results : Seq(EntryType(texts))]
       /\ NearestFits(m.nearest, texts) /\ ResultsFit(m.results, texts)

ASSUME RadixAssumption == Radix \in Nat /\ Radix > 1

ASSUME IdBytesAssumption == IdBytes \in Nat \ {0}

ASSUME SendableAssumption == \A m \in Sendable : MessageFits(m, AnyText)

-----------------------------------------------------------------------------
(* A message is written by one end and read by the other, which then has the
   next to write *)

NoMessage == [kind |-> "none"]

\* What the other end takes a message for.  findResults() sends its query as a request
\* of findNode, whose reply it reads as one of its own (sdsp2pclient.cpp:80-87).  The
\* request of its name, a "query", and the reply to it are known to the servers and
\* the tests alone.
Expected(kind) ==
    CASE kind = "findResults" -> {"findNode"}
      [] kind = "nodes"       -> {"nodes", "results"}
      [] OTHER                -> {kind}

MessagesInit ==
    /\ message = NoMessage
    /\ reader = Reader(<< >>)
    /\ readAs = "none"

Send ==
    \E m \in Sendable :
        /\ message' = m
        /\ reader' = Reader(Written(m))
        /\ readAs' = "none"

Receive ==
    /\ message # NoMessage /\ readAs = "none"
    /\ \E kind \in Expected(message.kind) :
        /\ reader' = ReadMessage(kind, reader)
        /\ readAs' = kind
    /\ UNCHANGED message

MessagesNext == Send \/ Receive

MessagesSpec == MessagesInit /\ [][MessagesNext]_messageVars

-----------------------------------------------------------------------------
(* What a reader should get *)

PropertyFields(p) == <<p.key, p.value>>

EntryFields(se) ==
    <<se.simHash, se.title, se.url, se.type>>
        \o (<<Len(se.properties)>> \o EachOf(se.properties, PropertyFields))

ContactFields(c) == <<c.id, c.address>>

NearestFields(s) == <<Len(s)>> \o EachOf(s, ContactFields)

Fields(m) ==
    CASE m.kind = "ping"        -> <<m.nonce, m.address, m.id>>
      [] m.kind = "pong"        -> <<m.nonce>>
      [] m.kind = "findNode"    -> <<m.id>>
      [] m.kind = "nodes"       -> NearestFields(m.nearest)
      [] m.kind = "storeResult" -> EntryFields(m.entry)
      [] m.kind \in {"findResults", "query"} -> <<m.query>>
      [] m.kind = "results"     -> NearestFields(m.nearest)
                                        \o (<<Len(m.results)>> \o EachOf(m.results, EntryFields))

\* A message none of whose strings is empty is read within its bytes, whatever it is
\* taken for.  Taken for what it is it is read as it was written, and to its last byte:
\* the cursor of the reader is all that tells the fields apart (PingArgs to
\* FindResultsReply, SearchEntry::read).  A reply of findNode that is taken for one of
\* findResults tells of the nodes it has, and of no result (sdsp2pclient.cpp:87).
\* Of a query that is taken for an id nothing more is said, and of a message with an
\* empty string nothing: readString looks past its end (sdsbytesbuf.cpp:109-124).
MessagesArrive ==
    readAs # "none" /\ MessageFits(message, Text) =>
        /\ ~Astray(reader)
        /\ readAs = message.kind =>
              reader.pos = Len(reader.bytes) /\ reader.got = Fields(message)
        /\ message.kind = "nodes" /\ readAs = "results" =>
              /\ reader.pos = Len(reader.bytes)
              /\ reader.got = Append(NearestFields(message.nearest), 0)
=============================================================================
