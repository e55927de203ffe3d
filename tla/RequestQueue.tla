---------------------------- MODULE RequestQueue ----------------------------
(***************************************************************************)
(* What the web server of SniffDogSniff promises about its connections,    *)
(* whatever its threads do: each accepted connection waits in one queue,   *)
(* is taken from it in the order of arrival, and is answered once.         *)
(***************************************************************************)
EXTENDS Sequences

CONSTANT Conns   \* the connections

VARIABLES
    waiting,    \* accepted and not yet taken, the oldest first
    serving,    \* taken and not yet answered
    answered    \* answered and closed

queueVars == <<waiting, serving, answered>>

Known == {waiting[i] : i \in DOMAIN waiting} \cup serving \cup answered

Init == waiting = << >> /\ serving = {} /\ answered = {}

Arrive ==
    /\ \E c \in Conns \ Known : waiting' = Append(waiting, c)
    /\ UNCHANGED <<serving, answered>>

Take ==
    /\ waiting # << >>
    /\ waiting' = Tail(waiting)
    /\ serving' = serving \cup {Head(waiting)}
    /\ UNCHANGED answered

Answer ==
    /\ \E c \in serving : serving' = serving \ {c} /\ answered' = answered \cup {c}
    /\ UNCHANGED waiting

Next == Arrive \/ Take \/ Answer

Spec == Init /\ [][Next]_queueVars
=============================================================================
