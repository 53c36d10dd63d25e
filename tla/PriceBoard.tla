------------------------------ MODULE PriceBoard ------------------------------
(***************************************************************************)
(* What the API promises to the sessions that follow a price: a round of   *)
(* pushes owes each session it lists, and that had a station when it       *)
(* began, a price as new as the tables were then, and ends only when that  *)
(* was given or the database failed; a page that watches its session gets  *)
(* every push at once; and nobody is ever told a price that was not in the *)
(* tables.  Requests, groups, connections and ages are not visible here.   *)
(***************************************************************************)
EXTENDS Integers

CONSTANTS
    Sessions,
    FirstVersion    \* FirstVersion[s]: when the first station near s appears

VARIABLES
    tables,     \* version of the price tables
    up,         \* the tables can be read
    watching,   \* sessions followed by a page that was told so
    known,      \* known[s]: newest price the page of s has received
    pushed,     \* pushed[s]: newest price sent to s without being asked
    owed,       \* sessions the present round still has to serve
    since       \* version of the tables when the present round began

vars == <<tables, up, watching, known, pushed, owed, since>>

Newest(a, b) == IF a >= b THEN a ELSE b

HasStation(s, v) == v > 0 /\ v >= FirstVersion[s]

Init ==
    /\ tables = 0 /\ up = TRUE
    /\ watching = {}
    /\ known = [s \in Sessions |-> 0]
    /\ pushed = [s \in Sessions |-> 0]
    /\ owed = {} /\ since = 0

Ingest ==
    /\ tables' = tables + 1
    /\ UNCHANGED <<up, watching, known, pushed, owed, since>>

Database ==
    /\ up' = ~up
    /\ UNCHANGED <<tables, watching, known, pushed, owed, since>>

Begin(listed) ==
    /\ up /\ owed = {}
    /\ owed' = {s \in listed : HasStation(s, tables)}
    /\ since' = tables
    /\ UNCHANGED <<tables, up, watching, known, pushed>>

Push(s, v) ==
    /\ v \in 1..tables
    /\ s \in owed => v >= since
    /\ pushed' = [pushed EXCEPT ![s] = Newest(@, v)]
    /\ \/ known' = [known EXCEPT ![s] = Newest(@, v)]
       \/ s \notin watching /\ known' = known
    /\ owed' = owed \ {s}
    /\ UNCHANGED <<tables, up, watching, since>>

Excuse(s) ==
    /\ ~up /\ s \in owed
    /\ owed' = owed \ {s}
    /\ UNCHANGED <<tables, up, watching, known, pushed, since>>

End ==
    /\ owed = {} /\ since' = 0
    /\ UNCHANGED <<tables, up, watching, known, pushed, owed>>

\* The process ends, and with it the round and every connection.
Stop ==
    /\ watching' = {} /\ owed' = {} /\ since' = 0
    /\ UNCHANGED <<tables, up, known, pushed>>

\* A page is shown, with the answer it got or with none.
Open(s, v) ==
    /\ s \notin watching
    /\ v \in 0..tables
    /\ known' = [known EXCEPT ![s] = v]
    /\ UNCHANGED <<tables, up, watching, pushed, owed, since>>

Learn(s, v) ==
    /\ v \in 1..tables
    /\ known' = [known EXCEPT ![s] = Newest(@, v)]
    /\ UNCHANGED <<tables, up, watching, pushed, owed, since>>

\* From here on the page is told; nothing pushed before is missing.
Watch(s, v) ==
    /\ v \in 0..tables
    /\ Newest(known[s], v) >= pushed[s]
    /\ known' = [known EXCEPT ![s] = Newest(@, v)]
    /\ watching' = watching \cup {s}
    /\ UNCHANGED <<tables, up, pushed, owed, since>>

Leave(s) ==
    /\ watching' = watching \ {s}
    /\ known' \in {known, [known EXCEPT ![s] = 0]}
    /\ UNCHANGED <<tables, up, pushed, owed, since>>

Next ==
    \/ Ingest \/ Database \/ End \/ Stop
    \/ \E listed \in SUBSET Sessions : Begin(listed)
    \/ \E s \in Sessions :
          \/ Excuse(s) \/ Leave(s)
          \/ \E v \in 0..tables : Push(s, v) \/ Open(s, v) \/ Learn(s, v) \/ Watch(s, v)

Spec == Init /\ [][Next]_vars
===============================================================================
