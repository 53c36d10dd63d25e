------------------------------ MODULE LineStream ------------------------------
(***************************************************************************)
(* What the log stream of the ingestion service promises to those who      *)
(* follow it: a line is offered to every stream that is served when it is  *)
(* logged, before the next one is logged; a stream takes it unless it is   *)
(* a whole buffer behind, and sends what it took in the order it took it.  *)
(* Channels, their closing, the map and its mutex are not visible here.    *)
(***************************************************************************)
EXTENDS Naturals, Sequences

CONSTANTS
    Streams,    \* GET /logs requests
    Capacity    \* lines a stream may be behind

VARIABLES
    served,     \* streams that new lines are offered to
    logged,     \* number of the last line
    owed,       \* streams the last line has not been offered to yet
    taken,      \* taken[s]: lines s took
    sent        \* sent[s]: how many of them the browser has

vars == <<served, logged, owed, taken, sent>>

Init ==
    /\ served = {} /\ owed = {}
    /\ logged = 0
    /\ taken = [s \in Streams |-> <<>>]
    /\ sent = [s \in Streams |-> 0]

Behind(s) == Len(taken[s]) - sent[s]

Log ==
    /\ owed = {}
    /\ logged' = logged + 1
    /\ owed' = served
    /\ UNCHANGED <<served, taken, sent>>

Take(s) ==
    /\ s \in owed /\ Behind(s) < Capacity
    /\ owed' = owed \ {s}
    /\ taken' = [taken EXCEPT ![s] = Append(@, logged)]
    /\ UNCHANGED <<served, logged, sent>>

Lose(s) ==
    /\ s \in owed /\ Behind(s) = Capacity
    /\ owed' = owed \ {s}
    /\ UNCHANGED <<served, logged, taken, sent>>

Deliver(s) ==
    /\ s \in served /\ Behind(s) > 0
    /\ sent' = [sent EXCEPT ![s] = @ + 1]
    /\ UNCHANGED <<served, logged, owed, taken>>

\* A stream starts with nothing, whatever has been logged before.
Join(s) ==
    /\ owed = {}
    /\ s \notin served /\ taken[s] = <<>>
    /\ served' = served \cup {s}
    /\ UNCHANGED <<logged, owed, taken, sent>>

\* What a stream is behind with when it leaves is never sent.
Leave(s) ==
    /\ owed = {}
    /\ s \in served
    /\ served' = served \ {s}
    /\ UNCHANGED <<logged, owed, taken, sent>>

Next ==
    \/ Log
    \/ \E s \in Streams : Take(s) \/ Lose(s) \/ Deliver(s) \/ Join(s) \/ Leave(s)

Spec == Init /\ [][Next]_vars
===============================================================================
