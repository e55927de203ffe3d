------------------------- MODULE MCSearchEntriesDB -------------------------
(***************************************************************************)
(* Small stores for TLC: two pages that share a title, one that is too     *)
(* large, and the empty entry, which has a title of its own.               *)
(***************************************************************************)
EXTENDS SearchEntriesDB

Page(title, url) == [title |-> title, url |-> url]

MCEmptyEntry == Page("", "")
MCTitles == {"", "news"}
MCEntries == {MCEmptyEntry, Page("news", "u"), Page("news", "v"), Page("news", "large")}
MCOversized == {Page("news", "large")}
=============================================================================
