------------------------------- MODULE MCNode -------------------------------
(***************************************************************************)
(* Two small systems for TLC, one or the other from the initial state on:  *)
(* the web server alone, with browsers that do what they like and two      *)
(* connections, and the node, with browsers that send a request in one     *)
(* part or nothing and may stop to read, one connection, no failure of     *)
(* accept(), and one kind of others that falls silent, at a moment when    *)
(* somebody waits for it: before that nobody can tell.                     *)
(***************************************************************************)
EXTENDS Node

CONSTANTS c1, c2, w1, g1

MCConns == {c1, c2}
MCWorkers == {w1}
MCGreetings == {g1}

VARIABLE alone

mcVars == <<vars, alone>>

MCInit ==
    /\ alone \in BOOLEAN
    /\ NodeInit
    /\ browser[c1] = "here"
    /\ alone <=> browser[c2] = "here"
    /\ ~alone => pool = "null" /\ ~running

Awaited ==
    LET places == {mainAt} \cup {task[t].at : t \in Tasks} \cup {page[w] : w \in Workers}
                           \cup {greeting[g] : g \in Greetings}
        waits == [peer |-> {"network", "last", "greet", "republish"},
                  client |-> {"reading", "answering"}, service |-> {"closeService"}]
    IN  {who \in DOMAIN waits : waits[who] \cap places # {}}

\* The bounds of the second system
Polite ==
    /\ arrived' \in [Conns -> {"nothing", "whole"}]
    /\ \A c \in Conns : browser'[c] \in {browser[c], "deaf"}
    /\ acceptor'.at = "ended" => pool' = "null"
    /\ Cardinality(silent') <= 1 /\ silent' \subseteq silent \cup Awaited

Alone(action) == alone /\ action /\ UNCHANGED <<nodeVars, alone>>
InNode(action) == ~alone /\ action /\ Polite /\ UNCHANGED alone

MCNext == Alone(HttpNext) \/ InNode(NodeNext)

ServerWorker(w) == up /\ (Working(w) \/ Handle(w))

MCSpec ==
    /\ MCInit /\ [][MCNext]_mcVars
    /\ WF_mcVars(InNode(MainThread)) /\ SF_mcVars(InNode(EndLoop))
    /\ WF_mcVars(Alone(up /\ acceptor.at # "cancelled" /\ Accepting))
    /\ WF_mcVars(InNode(acceptor.at # "cancelled" /\ AcceptThread))
    /\ \A t \in Tasks : WF_mcVars(InNode(TaskThread(t)))
    /\ \A w \in Workers : WF_mcVars(Alone(ServerWorker(w))) /\ WF_mcVars(InNode(WorkerThread(w)))
    /\ \A g \in Greetings : WF_mcVars(InNode(DetachedThread(g)))
=============================================================================
