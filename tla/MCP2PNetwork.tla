---------------------------- MODULE MCP2PNetwork ----------------------------
(***************************************************************************)
(* Small networks for TLC: three clients on two slots, with scripts of the *)
(* kind the code makes.                                                    *)
(***************************************************************************)
EXTENDS P2PNetwork

CONSTANTS c1, c2, c3

MCClients == {c1, c2, c3}

\* The answer to a ping, and what a lookup and a publication ask after theirs
MCScripts ==
    [c \in MCClients |-> CASE c = c1 -> <<"ping">>
                           [] c = c2 -> <<"findNode">>
                           [] c = c3 -> <<"storeResult", "storeResult">>]

\* The memory past wait_fds is clean or dirty, and the standard input is quiet or
\* has something to read
Clean == {[stdin |-> "quiet", fd |-> Free, revents |-> "none"]}
Mixed == {[stdin |-> "readable", fd |-> Free, revents |-> "none"],
          [stdin |-> "quiet", fd |-> Garbage, revents |-> "in"]}
=============================================================================
