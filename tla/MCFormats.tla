----------------------------- MODULE MCFormats -----------------------------
(***************************************************************************)
(* Values for model checking ConfigFile, Messages and WebRequest:          *)
(*   - every file of a few lines, with each way to put blanks around two   *)
(*     keys and three values;                                              *)
(*   - every kind of message, with none, one or two elements in its lists, *)
(*     strings with and without characters, and numbers of one byte and of *)
(*     several;                                                            *)
(*   - forms with every short text of characters that are escaped and of   *)
(*     such as are not, and every way to send the fields of the pages with *)
(*     and without the rest of a request.                                  *)
(***************************************************************************)
EXTENDS ConfigFile, Messages, WebRequest

MCChar == {"a", "b", "s", Blank, NewLine, Comment, Opening, Closing, Equals}

MCNames == {<<"s">>}

Spaced(before, trailing) ==
    [key : {<<"a">>, <<"a", "b">>}, value : {<<"b">>, <<"a", " ", "b">>, <<"a", "=", "[">>},
     indent : {before}, before : {before}, after : {trailing}, trailing : {trailing},
     comment : BOOLEAN]

MCSettings ==
    Spaced(0, 0) \union Spaced(1, 1) \union Spaced(1, 2) \union Spaced(2, 0) \union Spaced(0, 3)

-----------------------------------------------------------------------------
Strings == {<< >>, <<1>>, <<2, 1>>, <<2, 1, 1>>}
Titles == {<< >>, <<2, 1>>}
Properties == {<< >>, <<[key |-> 1, value |-> <<1, 2>>], [key |-> 2, value |-> <<2>>]>>}
MCEntries ==
    [simHash : {0, 7}, title : Titles, url : {<< >>, <<1>>}, type : {2}, properties : Properties]
MCContacts == {<< >>} \union {<<[id |-> 3, address |-> s], [id |-> 8, address |-> t]>> : s, t \in Titles}
EntryLists ==
    {<< >>} \union {<<e>> : e \in MCEntries}
        \union {<<e, f>> : e, f \in {se \in MCEntries : se.simHash = 0 /\ se.properties = << >>}}

MCSendable ==
    [kind : {"ping"}, nonce : {0, 4310}, address : Strings, id : {0, 5}]
        \union [kind : {"pong"}, nonce : {0, 6560}]
        \union [kind : {"findNode"}, id : {0, 6}]
        \union [kind : {"nodes"}, nearest : MCContacts]
        \union [kind : {"storeResult"}, entry : MCEntries]
        \union [kind : {"findResults", "query"}, query : Strings]
        \union [kind : {"results"}, nearest : MCContacts, results : EntryLists]

-----------------------------------------------------------------------------
Field(key, text) == [key |-> key, text |-> text]

Short == <<120>>

\* The title is any text; of two fields of one key the later one counts
MCForms ==
    {<<Field("link_title", t), Field("link_url", u)>> :
        t \in SeqOf({SPACE, PLUS, PERCENT, DOLLAR, 65, 195}, 3), u \in {<< >>, Short}}
    \union
    {<<Field("link_title", Short), Field("link_url", u), Field("data_type", d),
       Field("property_tags", p), Field("link_url", v)>> :
        u, v, p \in {<< >>, Short}, d \in {<<105, 109, 97, 103, 101>>, <<108>>}}

MCHeaders == {<<Piece("Host", Short)>>}

Queries == {NoPieces, <<Malformed>>, <<Piece("q", Short)>>,
            <<Piece("link_title", Short), Piece("link_url", <<PERCENT>>)>>}

Bodies ==
    {<<Malformed>>}
        \union {<<Piece("link_title", t), Piece("link_url", u), Piece("property_tags", p)>> :
                    t, u, p \in {<< >>, Short, <<DOLLAR, 65>>}}

MCRequests ==
    [method : {"GET", "HEAD", "POST", "PUT"}, words : {2, 3}, query : Queries,
     url : {"/", "/search", "/insert_link", "/absent"}, terminated : BOOLEAN,
     headers : MCHeaders \union {NoPieces, <<Malformed>>}, body : Bodies]
=============================================================================
