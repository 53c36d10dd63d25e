--------------------------- MODULE LivePricesProofs ---------------------------
(***************************************************************************)
(* Safety of the path from the tables to the pages, for any number of      *)
(* pages and versions, any window and any subset of the faults.            *)
(***************************************************************************)
EXTENDS LivePrices, TLAPS

-------------------------------------------------------------------------------
(* Types                                                                   *)

\* What a session's query returns is a version.
LEMMA CheapestType ==
    ASSUME TypeOK, NEW c \in Clients
    PROVE  Cheapest(c) \in Version
  BY LivePricesAssumption DEF TypeOK, Cheapest, Version

\* The later of two versions is a version.
LEMMA NewerType ==
    ASSUME NEW a \in Version, NEW b \in Version
    PROVE  /\ Newer(a, b) \in Version
           /\ Newer(a, b) >= a
           /\ Newer(a, b) >= b
  BY LivePricesAssumption DEF Newer, Version

\* One more period keeps an age in its range.
LEMMA OlderType ==
    ASSUME TypeOK, NEW c \in Clients
    PROVE  Older(age[c]) \in 0..Stale
  <1>1. age[c] \in 0..Stale
    BY DEF TypeOK
  <1>2. Stale \in Nat
    BY LivePricesAssumption DEF Stale
  <1> QED
    BY <1>1, <1>2 DEF Older

\* The page after an answer, and after a price it receives, is a page.
LEMMA PageType ==
    ASSUME TypeOK, NEW c \in Clients, NEW v \in Version
    PROVE  /\ Received(client[c], v) \in ClientState
           /\ AfterReply(c) \in ClientState
  <1>1. client[c] \in ClientState /\ http[c] \in HttpState
    BY DEF TypeOK, ClientState, HttpState
  <1>2. client[c].best \in Version /\ http[c].value \in Version
    BY <1>1 DEF ClientState, HttpState
  <1>3. Received(client[c], v) \in ClientState
    BY <1>1, <1>2, NewerType DEF Received, ClientState
  <1>4. SetupPage \in ClientState
    BY LivePricesAssumption DEF SetupPage, ClientState, Page, Conn, Version
  <1>5. [SetupPage EXCEPT !.page = "widget", !.conn = "starting",
                          !.shown = http[c].value, !.best = http[c].value]
        \in ClientState
    BY <1>2, <1>4 DEF ClientState, Page, Conn
  <1>6. [client[c] EXCEPT !.shown = http[c].value,
                          !.best = Newer(@, http[c].value)] \in ClientState
    BY <1>1, <1>2, NewerType DEF ClientState
  <1>7. AfterReply(c) \in ClientState
    BY <1>1, <1>4, <1>5, <1>6 DEF AfterReply, ClientState, Page
  <1> QED
    BY <1>3, <1>7

\* The initial state is typed.
LEMMA InitTypes == Init => TypeOK
  <1> SUFFICES ASSUME Init PROVE TypeOK
    OBVIOUS
  <1>1. 0 \in Version /\ Stale \in 0..Stale /\ 0 \in 0..Stale
    BY LivePricesAssumption DEF Version, Stale
  <1>2. NoRequest \in HttpState /\ NoInvoke \in InvokeState
    BY <1>1 DEF NoRequest, NoInvoke, HttpState, InvokeState, HttpStep, InvokeStep
  <1>3. SetupPage \in ClientState /\ ClosedPage \in ClientState
    BY <1>1 DEF SetupPage, ClosedPage, ClientState, Page, Conn
  <1>4. PusherStarts \in PusherState /\ PusherStarts.target = Nobody
    BY <1>1 DEF PusherStarts, PusherState, Phase
  <1>5. NoRound \in RoundState
    BY <1>1 DEF NoRound, RoundState
  <1> QED
    BY <1>1, <1>2, <1>3, <1>4, <1>5
       DEF Init, TypeOK

\* What happens when the API stops is typed.
LEMMA ApiStopsTypes ==
    ASSUME TypeOK, ApiStops
    PROVE  /\ joined' \subseteq Clients
           /\ apiUp' \in BOOLEAN
           /\ http' \in [Clients -> HttpState]
           /\ invoke' \in [Clients -> InvokeState]
           /\ client' \in [Clients -> ClientState]
           /\ pusher' \in PusherState /\ pusher'.target = Nobody
           /\ round' \in RoundState
  <1>1. 0 \in Version
    BY LivePricesAssumption DEF Version
  <1>2. /\ NoRequest \in HttpState
        /\ [step |-> "error", value |-> 0] \in HttpState
        /\ NoInvoke \in InvokeState
    BY <1>1 DEF NoRequest, NoInvoke, HttpState, InvokeState, HttpStep, InvokeStep
  <1>3. ASSUME NEW c \in Clients
        PROVE  [client[c] EXCEPT !.conn = "reconnecting",
                                 !.polling = @ \/ invoke[c].alive] \in ClientState
    BY DEF TypeOK, ClientState, Conn
  <1>4. client' \in [Clients -> ClientState]
    BY <1>3 DEF ApiStops, TypeOK, ClientState
  <1>5. http' \in [Clients -> HttpState] /\ invoke' \in [Clients -> InvokeState]
    BY <1>2 DEF ApiStops
  <1>6. pusher' \in PusherState /\ pusher'.target = Nobody
    BY <1>1 DEF ApiStops, PusherStarts, PusherState, Phase
  <1>7. round' \in RoundState
    BY <1>1 DEF ApiStops, NoRound, RoundState
  <1> QED
    BY <1>4, <1>5, <1>6, <1>7 DEF ApiStops

\* The page, its user and its connection keep the types.
LEMMA PageTypes ==
    ASSUME TypeOK, NEW c \in Clients, User(c) \/ Connection(c)
    PROVE  TypeOK'
  <1>1. 0 \in Version
    BY LivePricesAssumption DEF Version
  <1>2. SetupPage \in ClientState /\ [SetupPage EXCEPT !.page = "booting"] \in ClientState
    BY <1>1 DEF SetupPage, ClientState, Page, Conn
  <1>3. client[c] \in ClientState /\ http[c] \in HttpState /\ invoke[c] \in InvokeState
    BY DEF TypeOK
  <1>4. \A s \in HttpStep : [http[c] EXCEPT !.step = s] \in HttpState
    BY <1>3 DEF HttpState
  <1>5. [invoke[c] EXCEPT !.alive = FALSE] \in InvokeState
    BY <1>3 DEF InvokeState
  <1>6. /\ [client[c] EXCEPT !.page = "posting"] \in ClientState
        /\ \A s \in Conn : [client[c] EXCEPT !.conn = s] \in ClientState
    BY <1>3 DEF ClientState, Page
  <1>7. CASE Submit(c)
    BY <1>4, <1>6, <1>7 DEF Submit, TypeOK, HttpStep
  <1>8. CASE Reload(c)
    <2>1. client' \in [Clients -> ClientState]
      BY <1>2, <1>8 DEF Reload, TypeOK
    <2>2. invoke' \in [Clients -> InvokeState]
      BY <1>5, <1>8 DEF Reload, TypeOK
    <2>3. http' \in [Clients -> HttpState]
      BY <1>4, <1>8 DEF Reload, TypeOK, HttpStep
    <2> QED
      BY <1>8, <2>1, <2>2, <2>3 DEF Reload, TypeOK
  <1>9. CASE Poll(c) \/ Expand(c)
    <2>1. GetCheapest(c)
      BY <1>9 DEF Poll, Expand
    <2> QED
      BY <1>4, <2>1 DEF GetCheapest, TypeOK, HttpStep
  <1>10. CASE StartConnection(c)
    <2>1. [NoInvoke EXCEPT !.step = "join", !.alive = TRUE] \in InvokeState
      BY <1>1 DEF NoInvoke, InvokeState, InvokeStep
    <2>2. invoke' \in [Clients -> InvokeState]
      BY <1>10, <2>1 DEF StartConnection, TypeOK
    <2>3. [client[c] EXCEPT !.conn = "closed", !.polling = TRUE] \in ClientState
      BY <1>3 DEF ClientState, Conn
    <2>4. client' \in [Clients -> ClientState]
      BY <1>6, <1>10, <2>3 DEF StartConnection, TypeOK, Conn
    <2> QED
      BY <1>10, <2>2, <2>4 DEF StartConnection, TypeOK
  <1>11. CASE Reconnect(c)
    BY <1>6, <1>11 DEF Reconnect, TypeOK, Conn, server
  <1>12. CASE GiveUp(c)
    BY <1>6, <1>12 DEF GiveUp, TypeOK, Conn, server
  <1> QED
    BY <1>7, <1>8, <1>9, <1>10, <1>11, <1>12 DEF User, Connection

\* The REST handlers keep the types.
LEMMA HandlerTypes ==
    ASSUME TypeOK, NEW c \in Clients, Handlers(c)
    PROVE  TypeOK'
  <1>1. 0 \in Version /\ 0 \in 0..Stale /\ Cheapest(c) \in Version
    BY LivePricesAssumption, CheapestType DEF Version, Stale
  <1>2. \A s \in HttpStep, v \in Version :
           HttpGoes(c, s, v) => http' \in [Clients -> HttpState]
    BY DEF HttpGoes, TypeOK, HttpState
  <1>3. CASE SaveSession(c) \/ HttpTouch(c)
    <2>1. /\ HttpGoes(c, IF dbUp THEN "read" ELSE "error", 0)
          /\ age' = IF dbUp THEN [age EXCEPT ![c] = 0] ELSE age
          /\ UNCHANGED <<db, dbUp, apiUp, joined, invoke, client, pusher, pushed, round>>
      BY <1>3 DEF SaveSession, HttpTouch
    <2>2. http' \in [Clients -> HttpState]
      BY <1>1, <1>2, <2>1 DEF HttpStep
    <2> QED
      BY <1>1, <2>1, <2>2 DEF TypeOK
  <1>4. CASE HttpRead(c)
    <2>1. http' \in [Clients -> HttpState]
      BY <1>1, <1>2, <1>4 DEF HttpRead, HttpStep
    <2> QED
      BY <1>4, <2>1 DEF HttpRead, TypeOK
  <1>5. CASE Reply(c)
    <2>1. AfterReply(c) \in ClientState
      BY <1>1, PageType
    <2>2. NoRequest \in HttpState
      BY <1>1 DEF NoRequest, HttpState, HttpStep
    <2> QED
      BY <1>5, <2>1, <2>2 DEF Reply, TypeOK
  <1> QED
    BY <1>3, <1>4, <1>5 DEF Handlers

\* The hub keeps the types.
LEMMA SubscribeTypes ==
    ASSUME TypeOK, NEW c \in Clients, Subscribe(c)
    PROVE  TypeOK'
  <1>1. 0 \in Version /\ 0 \in 0..Stale /\ Cheapest(c) \in Version
    BY LivePricesAssumption, CheapestType DEF Version, Stale
  <1>2. client[c] \in ClientState /\ invoke[c] \in InvokeState
    BY DEF TypeOK
  <1>3. /\ NoInvoke \in InvokeState
        /\ \A s \in InvokeStep : [invoke[c] EXCEPT !.step = s] \in InvokeState
        /\ \A s \in InvokeStep, v \in Version :
              [invoke[c] EXCEPT !.step = s, !.value = v] \in InvokeState
    BY <1>1, <1>2 DEF NoInvoke, InvokeState, InvokeStep
  <1>4. ASSUME InvokeFails(c)
        PROVE  invoke' \in [Clients -> InvokeState] /\ client' \in [Clients -> ClientState]
    <2>1. [client[c] EXCEPT !.polling = TRUE] \in ClientState
      BY <1>2 DEF ClientState
    <2> QED
      BY <1>3, <1>4, <2>1 DEF InvokeFails, TypeOK
  <1>5. CASE JoinGroup(c)
    BY <1>3, <1>5 DEF JoinGroup, TypeOK, InvokeStep
  <1>6. CASE TouchSession(c)
    BY <1>1, <1>3, <1>4, <1>6 DEF TouchSession, TypeOK, InvokeStep
  <1>7. CASE ReadCheapest(c)
    BY <1>1, <1>3, <1>4, <1>7 DEF ReadCheapest, TypeOK, InvokeStep
  <1>8. CASE SendToCaller(c)
    <2> DEFINE v == invoke[c].value
               p == IF v = 0 THEN client[c] ELSE Received(client[c], v)
    <2>1. v \in Version
      BY <1>2 DEF InvokeState
    <2>2. p \in ClientState
      BY <1>2, <2>1, PageType
    <2>3. [p EXCEPT !.conn = "subscribed"] \in ClientState
      BY <2>2 DEF ClientState, Conn
    <2>4. client' \in [Clients -> ClientState]
      BY <1>8, <2>3 DEF SendToCaller, TypeOK
    <2> QED
      BY <1>3, <1>8, <2>4 DEF SendToCaller, TypeOK
  <1> QED
    BY <1>5, <1>6, <1>7, <1>8 DEF Subscribe

\* The pusher keeps the types.
LEMMA PusherTypes ==
    ASSUME TypeOK, Pusher
    PROVE  TypeOK'
  <1>1. 0 \in Version /\ pusher \in PusherState
    BY LivePricesAssumption DEF Version, TypeOK
  <1>2. CASE PusherWakes
    <2>1. age' \in [Clients -> 0..Stale]
      BY <1>2, OlderType DEF PusherWakes, TypeOK
    <2>2. pusher' \in PusherState /\ pusher'.target = pusher.target
      BY <1>1, <1>2 DEF PusherWakes, PusherState, Phase
    <2>3. pusher.target = Nobody
      BY <1>2 DEF PusherWakes, TypeOK
    <2> QED
      BY <1>2, <2>1, <2>2, <2>3 DEF PusherWakes, TypeOK, server
  <1>3. CASE PusherQuery
    <2>1. CASE ApiStops
      BY <1>3, <2>1, ApiStopsTypes DEF PusherQuery, TypeOK
    <2>2. CASE ~ApiStops
      <3>1. /\ UNCHANGED <<apiUp, server, client>>
            /\ \E edge \in SUBSET {c \in Clients : age[c] = Window} :
                  LET listed == edge \cup {c \in Clients : age[c] < Window}
                  IN  /\ pusher' = [pusher EXCEPT !.phase = "push", !.todo = listed]
                      /\ round' = [owed |-> listed, since |-> db]
        BY <1>3, <2>2 DEF PusherQuery
      <3>2. PICK edge \in SUBSET Clients :
                  /\ pusher' = [pusher EXCEPT !.phase = "push", !.todo = edge]
                  /\ round' = [owed |-> edge, since |-> db]
        BY <3>1
      <3>3. pusher' \in PusherState /\ pusher'.target = pusher.target
        BY <1>1, <3>2 DEF PusherState, Phase
      <3>4. pusher.target = Nobody
        BY <1>3 DEF PusherQuery, TypeOK
      <3>5. round' \in RoundState
        BY <3>2 DEF TypeOK, RoundState
      <3> QED
        BY <1>3, <3>1, <3>3, <3>4, <3>5 DEF PusherQuery, TypeOK, server
    <2> QED
      BY <2>1, <2>2
  <1>4. CASE PusherSend
    <2>1. /\ pusher.target \in Clients
          /\ pusher.value \in Version
      BY <1>1, <1>4 DEF PusherSend, PusherState
    <2>2. /\ Received(client[pusher.target], pusher.value) \in ClientState
          /\ Newer(pushed[pusher.target], pusher.value) \in Version
      BY <2>1, PageType, NewerType DEF TypeOK
    <2>3. pusher' \in PusherState /\ pusher'.target = Nobody
      BY <1>1, <1>4 DEF PusherSend, PusherState
    <2> QED
      BY <1>4, <2>1, <2>2, <2>3 DEF PusherSend, TypeOK, server
  <1>5. CASE PusherRoundEnds
    <2>0. round' \in RoundState
      BY <1>5, LivePricesAssumption DEF PusherRoundEnds, NoRound, RoundState, Version
    <2>1. pusher' \in PusherState /\ pusher'.target = Nobody
      \* a price that is held is for a session still to be served, and none is left
      <3>1. pusher.target = Nobody
        BY <1>5 DEF PusherRoundEnds, TypeOK
      <3> QED
        BY <1>1, <1>5, <3>1 DEF PusherRoundEnds, PusherState, Phase
    <2> QED
      BY <1>5, <2>0, <2>1 DEF PusherRoundEnds, TypeOK, server
  <1>6. ASSUME NEW c \in Clients, PusherRead(c) PROVE TypeOK'
    <2> DEFINE v == IF dbUp THEN Cheapest(c) ELSE 0
    <2>1. v \in Version
      BY <1>1, CheapestType
    <2>2. pusher' = IF v = 0 THEN [pusher EXCEPT !.todo = @ \ {c}]
                    ELSE [pusher EXCEPT !.target = c, !.value = v]
      BY <1>6 DEF PusherRead
    <2>3. /\ pusher' \in PusherState
          /\ pusher'.target # Nobody => pusher'.phase = "push" /\ pusher'.target \in pusher'.todo
      BY <1>1, <1>6, <2>1, <2>2 DEF PusherRead, PusherState
    <2>4. round' \in RoundState
      BY <1>6 DEF PusherRead, TypeOK, RoundState
    <2> QED
      BY <1>6, <2>3, <2>4 DEF PusherRead, TypeOK, server
  <1> QED
    BY <1>2, <1>3, <1>4, <1>5, <1>6 DEF Pusher

\* The environment keeps the types.
LEMMA EnvironmentTypes ==
    ASSUME TypeOK, Environment
    PROVE  TypeOK'
  <1>1. CASE Ingest
    <2>1. db' \in Version
      BY <1>1, LivePricesAssumption DEF Ingest, TypeOK, Version
    <2> QED
      BY <1>1, <2>1 DEF Ingest, TypeOK, server
  <1>2. CASE DbCrash \/ DbRecover
    BY <1>2 DEF DbCrash, DbRecover, TypeOK, server
  <1>3. CASE ApiCrash
    BY <1>3, ApiStopsTypes DEF ApiCrash, TypeOK
  <1>4. CASE ApiStart
    <2>1. age' \in [Clients -> 0..Stale]
      BY <1>4, OlderType DEF ApiStart, TypeOK
    <2>2. PusherStarts \in PusherState /\ PusherStarts.target = Nobody
      BY LivePricesAssumption DEF PusherStarts, PusherState, Phase, Version
    <2> QED
      BY <1>4, <2>1, <2>2 DEF ApiStart, TypeOK, server
  <1>5. ASSUME NEW c \in Clients, Drop(c) PROVE TypeOK'
    <2>1. client[c] \in ClientState /\ invoke[c] \in InvokeState
      BY DEF TypeOK
    <2>2. [client[c] EXCEPT !.conn = "reconnecting",
                            !.polling = @ \/ invoke[c].alive] \in ClientState
      BY <2>1 DEF ClientState, Conn
    <2>3. [invoke[c] EXCEPT !.alive = FALSE] \in InvokeState
      BY <2>1 DEF InvokeState
    <2> QED
      BY <1>5, <2>2, <2>3 DEF Drop, TypeOK
  <1> QED
    BY <1>1, <1>2, <1>3, <1>4, <1>5 DEF Environment

\* Every step keeps the types.
LEMMA NextTypes == TypeOK /\ [Next]_vars => TypeOK'
  <1> SUFFICES ASSUME TypeOK, [Next]_vars PROVE TypeOK'
    OBVIOUS
  <1>1. CASE UNCHANGED vars
    BY <1>1 DEF TypeOK, vars
  <1> QED
    BY <1>1, PageTypes, HandlerTypes, SubscribeTypes, PusherTypes, EnvironmentTypes
       DEF Next

\* The types of the API, its pusher and its pages, for every instance.
THEOREM LiveTypes == Spec => []TypeOK
  BY InitTypes, NextTypes, PTL DEF Spec

-------------------------------------------------------------------------------
(* No push is missed                                                       *)

(***************************************************************************)
(* The link between a page and the pushes to its session.  A connection    *)
(* that is alive and past the first step of Subscribe is in the group, so  *)
(* pushes reach the page; the price Subscribe is about to send covers what *)
(* was pushed before it was read, for the pusher never holds or has sent   *)
(* anything newer than the tables.                                         *)
(***************************************************************************)
InStep(c) == invoke[c].alive /\ invoke[c].step \in {"touch", "read", "send"}

LinkOf(c) ==
    /\ client[c].page # "widget" => client[c].conn = "none"
    /\ invoke[c].alive => client[c].conn = "connected"
    /\ client[c].conn = "subscribed" =>
          c \in joined /\ client[c].best >= pushed[c]
    /\ InStep(c) => c \in joined
    /\ InStep(c) /\ invoke[c].step = "send" =>
          Newer(client[c].best, invoke[c].value) >= pushed[c]
    /\ pushed[c] <= Cheapest(c)
    /\ pusher.target = c => pusher.value <= Cheapest(c)

LinkInv == \A c \in Clients : LinkOf(c)

\* The versions a page is compared with are numbers.
LEMMA LinkNumbers ==
    ASSUME TypeOK, NEW c \in Clients
    PROVE  /\ client[c].best \in Int /\ invoke[c].value \in Int
           /\ pushed[c] \in Int /\ Cheapest(c) \in Int
           /\ pusher.value \in Int
  BY CheapestType, LivePricesAssumption
     DEF TypeOK, ClientState, InvokeState, PusherState, Version

\* The tables only move on, and so does what a query returns.
LEMMA CheapestGrows ==
    ASSUME TypeOK, [Next]_vars, NEW c \in Clients
    PROVE  Cheapest(c)' >= Cheapest(c) /\ Cheapest(c)' \in Int
  <1>1. db \in Nat /\ FirstVersion[c] \in Nat
    BY LivePricesAssumption DEF TypeOK, Version
  <1>2. CASE Ingest
    BY <1>1, <1>2 DEF Ingest, Cheapest
  <1>3. CASE ~Ingest
    <2>1. ASSUME NEW d \in Clients, User(d) \/ Connection(d) PROVE db' = db
      BY <2>1 DEF User, Submit, Reload, Poll, Expand, GetCheapest, Connection,
                  StartConnection, Reconnect, GiveUp
    <2>2. ASSUME NEW d \in Clients, Handlers(d) \/ Subscribe(d) PROVE db' = db
      BY <2>2 DEF Handlers, SaveSession, HttpTouch, HttpRead, Reply, Subscribe,
                  JoinGroup, TouchSession, ReadCheapest, SendToCaller
    <2>3. ASSUME Pusher PROVE db' = db
      BY <2>3 DEF Pusher, PusherWakes, PusherQuery, PusherSend, PusherRoundEnds,
                  PusherRead
    <2>4. ASSUME Environment PROVE db' = db
      BY <1>3, <2>4 DEF Environment, DbCrash, DbRecover, ApiCrash, ApiStart, Drop
    <2>5. db' = db
      BY <2>1, <2>2, <2>3, <2>4 DEF Next, vars
    <2> QED
      BY <1>1, <2>5 DEF Cheapest
  <1> QED
    BY <1>2, <1>3

\* A step that leaves a page, its Subscribe and what was pushed to it alone.
LEMMA LinkUntouched ==
    ASSUME TypeOK, LinkInv, [Next]_vars, NEW c \in Clients,
           client'[c] = client[c], invoke'[c] = invoke[c], pushed'[c] = pushed[c],
           c \in joined => c \in joined',
           pusher'.target = c => pusher.target = c /\ pusher'.value = pusher.value
    PROVE  LinkOf(c)'
  <1>1. Cheapest(c)' >= Cheapest(c) /\ Cheapest(c)' \in Int
    BY CheapestGrows
  <1> QED
    BY <1>1, LinkNumbers DEF LinkInv, LinkOf, InStep

\* A step of a page, its handlers or its Subscribe leaves the other pages alone.
LEMMA OtherPages ==
    ASSUME TypeOK, LinkInv, NEW c \in Clients,
           User(c) \/ Connection(c) \/ Handlers(c) \/ Subscribe(c) \/ Drop(c),
           [Next]_vars, NEW d \in Clients \ {c}
    PROVE  LinkOf(d)'
  <1>1. /\ client'[d] = client[d] /\ invoke'[d] = invoke[d] /\ pushed' = pushed
        /\ d \in joined => d \in joined'
        /\ pusher' = pusher
    BY DEF User, Submit, Reload, Poll, Expand, GetCheapest, Connection,
           StartConnection, Reconnect, GiveUp, Handlers, SaveSession, HttpTouch,
           HttpRead, Reply, Subscribe, JoinGroup, TouchSession, ReadCheapest,
           SendToCaller, InvokeFails, Drop, TypeOK, server
  <1> QED
    BY <1>1, LinkUntouched

\* The page, its user and its connection keep the link.
LEMMA PageLink ==
    ASSUME TypeOK, LinkInv, [Next]_vars, NEW c \in Clients, User(c) \/ Connection(c)
    PROVE  LinkOf(c)'
  <1>1. /\ pushed' = pushed /\ pusher' = pusher
        /\ Cheapest(c)' >= Cheapest(c) /\ Cheapest(c)' \in Int
    BY CheapestGrows
       DEF User, Submit, Reload, Poll, Expand, GetCheapest, Connection,
           StartConnection, Reconnect, GiveUp, server
  <1>2. LinkOf(c) /\ client[c] \in ClientState /\ invoke[c] \in InvokeState
    BY DEF LinkInv, TypeOK
  <1>3. CASE Submit(c)
    <2>1. /\ client'[c] = [client[c] EXCEPT !.page = "posting"]
          /\ client[c].page = "setup" /\ invoke' = invoke /\ joined' = joined
      BY <1>3 DEF Submit, TypeOK
    <2> QED
      BY <1>1, <1>2, <2>1, LinkNumbers DEF LinkOf, InStep, ClientState
  <1>4. CASE Reload(c)
    <2>1. client'[c].conn = "none"
      BY <1>4 DEF Reload, TypeOK, SetupPage
    <2>2. ~invoke'[c].alive
      BY <1>2, <1>4 DEF Reload, TypeOK, InvokeState
    <2> QED
      BY <1>1, <1>2, <2>1, <2>2, LinkNumbers DEF LinkOf, InStep
  <1>5. CASE Poll(c) \/ Expand(c)
    BY <1>5, LinkUntouched DEF Poll, Expand, GetCheapest
  <1>6. CASE StartConnection(c)
    <2>1. /\ client[c].page = "widget" /\ ~invoke[c].alive
          /\ client'[c].page = "widget"
      BY <1>2, <1>6 DEF StartConnection, LinkOf, TypeOK, ClientState
    <2>2. \/ /\ client'[c].conn = "connected"
             /\ invoke'[c].step = "join"
          \/ /\ client'[c].conn = "closed"
             /\ invoke'[c] = invoke[c]
      BY <1>2, <1>6 DEF StartConnection, TypeOK, ClientState, NoInvoke
    <2> QED
      BY <1>1, <1>2, <2>1, <2>2, LinkNumbers DEF LinkOf, InStep
  <1>7. CASE Reconnect(c) \/ GiveUp(c)
    <2>1. /\ client[c].conn = "reconnecting"
          /\ client'[c].conn \in {"connected", "closed"}
          /\ client'[c].page = client[c].page
          /\ invoke' = invoke
      BY <1>2, <1>7 DEF Reconnect, GiveUp, TypeOK, ClientState, server
    <2>2. client[c].page = "widget" /\ ~invoke[c].alive
      BY <1>2, <2>1 DEF LinkOf
    <2> QED
      BY <1>1, <1>2, <2>1, <2>2, LinkNumbers DEF LinkOf, InStep
  <1> QED
    BY <1>3, <1>4, <1>5, <1>6, <1>7 DEF User, Connection

\* An answer opens a page that has no connection yet, or brings a price.
LEMMA HandlerLink ==
    ASSUME TypeOK, LinkInv, [Next]_vars, NEW c \in Clients, Handlers(c)
    PROVE  LinkOf(c)'
  <1>1. CASE SaveSession(c) \/ HttpTouch(c) \/ HttpRead(c)
    BY <1>1, LinkUntouched DEF SaveSession, HttpTouch, HttpRead
  <1>2. CASE Reply(c)
    <2>1. /\ client'[c] = AfterReply(c)
          /\ UNCHANGED <<invoke, joined, pushed, pusher>>
      BY <1>2 DEF Reply, TypeOK
    <2>2. /\ LinkOf(c) /\ client[c] \in ClientState /\ http[c].value \in Version
          /\ Cheapest(c)' >= Cheapest(c) /\ Cheapest(c)' \in Int
      BY CheapestGrows DEF LinkInv, TypeOK, HttpState
    <2>3. CASE client[c].page # "widget"
      <3>1. client[c].conn = "none" /\ ~invoke[c].alive
        BY <2>2, <2>3 DEF LinkOf
      <3>2. \/ client'[c].conn = "none"
            \/ client'[c].conn = "starting" /\ client'[c].page = "widget"
        BY <2>1, <2>2, <2>3, <3>1 DEF AfterReply, SetupPage, ClientState, Page
      <3> QED
        BY <2>1, <2>2, <3>1, <3>2, LinkNumbers DEF LinkOf, InStep
    <2>4. CASE client[c].page = "widget"
      <3>1. /\ client'[c].page = "widget" /\ client'[c].conn = client[c].conn
            /\ \/ client'[c].best = client[c].best
               \/ client'[c].best = Newer(client[c].best, http[c].value)
        BY <2>1, <2>2, <2>4 DEF AfterReply, ClientState
      <3>2. client'[c].best >= client[c].best /\ client'[c].best \in Int
        BY <2>2, <3>1, LinkNumbers, LivePricesAssumption DEF Newer, Version
      <3> QED
        BY <2>1, <2>2, <3>1, <3>2, LinkNumbers DEF LinkOf, InStep, Newer
    <2> QED
      BY <2>3, <2>4
  <1> QED
    BY <1>1, <1>2 DEF Handlers

\* Subscribe joins before it reads, and what it reads is as new as any push.
LEMMA SubscribeLink ==
    ASSUME TypeOK, LinkInv, [Next]_vars, NEW c \in Clients, Subscribe(c)
    PROVE  LinkOf(c)'
  <1>1. /\ LinkOf(c) /\ client[c] \in ClientState /\ invoke[c] \in InvokeState
        /\ Cheapest(c)' >= Cheapest(c) /\ Cheapest(c)' \in Int
    BY CheapestGrows DEF LinkInv, TypeOK
  <1>2. pushed' = pushed /\ pusher' = pusher
    BY DEF Subscribe, JoinGroup, TouchSession, ReadCheapest, SendToCaller
  <1>3. ASSUME InvokeFails(c), joined' = joined PROVE LinkOf(c)'
    <2>1. /\ ~invoke'[c].alive
          /\ client'[c].page = client[c].page
          /\ client'[c].conn = client[c].conn
          /\ client'[c].best = client[c].best
      BY <1>1, <1>3 DEF InvokeFails, TypeOK, ClientState, NoInvoke
    <2> QED
      BY <1>1, <1>2, <1>3, <2>1, LinkNumbers DEF LinkOf, InStep
  <1>4. CASE JoinGroup(c)
    <2>1. /\ invoke'[c].step = "touch" /\ invoke'[c].alive = invoke[c].alive
          /\ client' = client
          /\ invoke[c].alive => c \in joined'
          /\ c \in joined => c \in joined'
      BY <1>1, <1>4 DEF JoinGroup, TypeOK, InvokeState
    <2> QED
      BY <1>1, <1>2, <2>1, LinkNumbers DEF LinkOf, InStep
  <1>5. CASE TouchSession(c) /\ dbUp
    <2>1. /\ invoke[c].step = "touch" /\ invoke'[c].step = "read"
          /\ invoke'[c].alive = invoke[c].alive
          /\ client' = client /\ joined' = joined
      BY <1>1, <1>5 DEF TouchSession, TypeOK, InvokeState
    <2> QED
      BY <1>1, <1>2, <2>1, LinkNumbers DEF LinkOf, InStep
  <1>6. CASE ReadCheapest(c) /\ dbUp
    <2>1. /\ invoke[c].step = "read" /\ invoke'[c].step = "send"
          /\ invoke'[c].alive = invoke[c].alive
          /\ invoke'[c].value = Cheapest(c)
          /\ client' = client /\ joined' = joined
      BY <1>1, <1>6 DEF ReadCheapest, TypeOK, InvokeState
    <2>2. Newer(client[c].best, Cheapest(c)) >= pushed[c]
      BY <1>1, LinkNumbers DEF LinkOf, Newer
    <2> QED
      BY <1>1, <1>2, <2>1, <2>2, LinkNumbers DEF LinkOf, InStep
  <1>7. CASE (TouchSession(c) \/ ReadCheapest(c)) /\ ~dbUp
    BY <1>3, <1>7 DEF TouchSession, ReadCheapest
  <1>8. CASE SendToCaller(c)
    <2> DEFINE v == invoke[c].value
               p == IF v = 0 THEN client[c] ELSE Received(client[c], v)
    <2>1. ~invoke'[c].alive /\ joined' = joined
      BY <1>8 DEF SendToCaller, TypeOK, NoInvoke
    <2>2. CASE ~invoke[c].alive
      <3>1. client' = client
        BY <1>8, <2>2 DEF SendToCaller
      <3> QED
        BY <1>1, <1>2, <2>1, <3>1, LinkNumbers DEF LinkOf, InStep
    <2>3. CASE invoke[c].alive
      <3>1. v \in Version /\ p \in ClientState
        BY <1>1, PageType DEF InvokeState
      <3>2. client'[c] = [p EXCEPT !.conn = "subscribed"]
        BY <1>8, <2>3 DEF SendToCaller, TypeOK
      <3>3. p.page = client[c].page /\ p.best = IF v = 0 THEN client[c].best
                                                ELSE Newer(client[c].best, v)
        BY <1>1 DEF Received, ClientState
      <3>4. /\ client'[c].conn = "subscribed"
            /\ client'[c].page = client[c].page
            /\ client'[c].best = p.best
        BY <3>1, <3>2, <3>3 DEF ClientState
      <3>5. /\ c \in joined /\ client[c].page = "widget"
            /\ Newer(client[c].best, v) >= pushed[c]
        BY <1>1, <1>8, <2>3 DEF LinkOf, InStep, SendToCaller
      <3>6. p.best >= pushed[c]
        BY <3>1, <3>3, <3>5, <1>1, LinkNumbers DEF Newer, ClientState, Version
      <3> QED
        BY <1>1, <1>2, <2>1, <3>4, <3>5, <3>6, LinkNumbers DEF LinkOf, InStep
    <2> QED
      BY <2>2, <2>3
  <1> QED
    BY <1>4, <1>5, <1>6, <1>7, <1>8 DEF Subscribe

\* When the API stops no connection is in a group and none is subscribed.
LEMMA ApiStopsLink ==
    ASSUME TypeOK, LinkInv, [Next]_vars, ApiStops, pushed' = pushed, NEW c \in Clients
    PROVE  LinkOf(c)'
  <1>1. /\ LinkOf(c) /\ client[c] \in ClientState
        /\ Cheapest(c)' >= Cheapest(c) /\ Cheapest(c)' \in Int
    BY CheapestGrows DEF LinkInv, TypeOK
  <1>2. ~invoke'[c].alive /\ pusher'.target = Nobody
    BY DEF ApiStops, NoInvoke, PusherStarts
  <1>3. client'[c] = IF client[c].conn \in {"connected", "subscribed"}
                     THEN [client[c] EXCEPT !.conn = "reconnecting",
                                            !.polling = @ \/ invoke[c].alive]
                     ELSE client[c]
    BY DEF ApiStops
  <1>4. /\ client'[c].page = client[c].page
        /\ client'[c].conn = IF client[c].conn \in {"connected", "subscribed"}
                             THEN "reconnecting" ELSE client[c].conn
    BY <1>1, <1>3 DEF ClientState
  <1> QED
    BY <1>1, <1>2, <1>4, LinkNumbers, LivePricesAssumption DEF LinkOf, InStep

\* A push reaches the page if its connection is in the group, and is never
\* newer than the tables.
LEMMA PusherLink ==
    ASSUME TypeOK, LinkInv, [Next]_vars, Pusher, NEW c \in Clients
    PROVE  LinkOf(c)'
  <1>1. /\ LinkOf(c) /\ client[c] \in ClientState
        /\ Cheapest(c)' >= Cheapest(c) /\ Cheapest(c)' \in Int
    BY CheapestGrows DEF LinkInv, TypeOK
  <1>2. CASE PusherWakes \/ PusherRoundEnds
    <2>1. /\ UNCHANGED <<client, invoke, pushed, joined>>
          /\ pusher'.target = pusher.target /\ pusher'.value = pusher.value
      BY <1>2 DEF PusherWakes, PusherRoundEnds, TypeOK, PusherState, server
    <2> QED
      BY <2>1, LinkUntouched
  <1>3. CASE PusherQuery /\ ~ApiStops
    <2>1. /\ UNCHANGED <<client, invoke, pushed, joined>>
          /\ pusher'.target = pusher.target /\ pusher'.value = pusher.value
      BY <1>3 DEF PusherQuery, TypeOK, PusherState, server
    <2> QED
      BY <2>1, LinkUntouched
  <1>4. CASE PusherQuery /\ ApiStops
    BY <1>1, <1>4, ApiStopsLink DEF PusherQuery
  <1>5. ASSUME NEW d \in Clients, PusherRead(d) PROVE LinkOf(c)'
    <2> DEFINE v == IF dbUp THEN Cheapest(d) ELSE 0
    <2>1. /\ UNCHANGED <<client, invoke, pushed, joined>>
          /\ pusher.target = Nobody
          /\ pusher' = IF v = 0 THEN [pusher EXCEPT !.todo = @ \ {d}]
                       ELSE [pusher EXCEPT !.target = d, !.value = v]
      BY <1>5 DEF PusherRead, server
    <2>2. pusher'.target = c => pusher'.value = Cheapest(c)
      BY <2>1, LivePricesAssumption DEF TypeOK, PusherState
    <2> QED
      BY <1>1, <2>1, <2>2, LinkNumbers DEF LinkOf, InStep
  <1>6. CASE PusherSend
    <2>1. /\ UNCHANGED <<invoke, joined>> /\ pusher.target \in Clients
          /\ pusher'.target = Nobody
      BY <1>6 DEF PusherSend, TypeOK, PusherState, server
    <2>2. CASE pusher.target # c
      <3>1. client'[c] = client[c] /\ pushed'[c] = pushed[c]
        BY <1>6, <2>2 DEF PusherSend, TypeOK
      <3> QED
        BY <2>1, <2>2, <3>1, LinkUntouched, LivePricesAssumption
    <2>3. CASE pusher.target = c
      <3>1. /\ pushed'[c] = Newer(pushed[c], pusher.value)
            /\ c \in joined => client'[c] = Received(client[c], pusher.value)
            /\ c \notin joined => client'[c] = client[c]
        BY <1>6, <2>3 DEF PusherSend, TypeOK
      <3>2. pushed'[c] <= Cheapest(c) /\ pushed'[c] \in Int
        BY <1>1, <2>3, <3>1, LinkNumbers DEF LinkOf, Newer
      <3>3. /\ client'[c].page = client[c].page /\ client'[c].conn = client[c].conn
            /\ c \in joined =>
                  client'[c].best = Newer(client[c].best, pusher.value)
        BY <1>1, <3>1 DEF Received, ClientState
      <3> QED
        BY <1>1, <2>1, <3>1, <3>2, <3>3, LinkNumbers, LivePricesAssumption
           DEF LinkOf, InStep, Newer
    <2> QED
      BY <2>2, <2>3
  <1> QED
    BY <1>2, <1>3, <1>4, <1>5, <1>6 DEF Pusher

\* Ingestion, crashes, restarts and lost connections keep the link.
LEMMA EnvironmentLink ==
    ASSUME TypeOK, LinkInv, [Next]_vars, Environment, NEW c \in Clients
    PROVE  LinkOf(c)'
  <1>1. /\ LinkOf(c) /\ client[c] \in ClientState /\ invoke[c] \in InvokeState
        /\ Cheapest(c)' >= Cheapest(c) /\ Cheapest(c)' \in Int
    BY CheapestGrows DEF LinkInv, TypeOK
  <1>2. CASE Ingest \/ DbCrash \/ DbRecover
    BY <1>2, LinkUntouched DEF Ingest, DbCrash, DbRecover, server
  <1>3. CASE ApiCrash
    BY <1>1, <1>3, ApiStopsLink DEF ApiCrash
  <1>4. CASE ApiStart
    <2>1. UNCHANGED <<client, invoke, pushed, joined>> /\ pusher'.target = Nobody
      BY <1>4 DEF ApiStart, PusherStarts, server
    <2> QED
      BY <2>1, LinkUntouched, LivePricesAssumption
  <1>5. ASSUME NEW d \in Clients, Drop(d) PROVE LinkOf(c)'
    <2>1. CASE c # d
      BY <1>5, <2>1, OtherPages
    <2>2. CASE c = d
      <3>1. /\ client'[c].conn = "reconnecting"
            /\ client'[c].page = client[c].page
            /\ ~invoke'[c].alive
            /\ client[c].page = "widget"
            /\ UNCHANGED <<pushed, pusher>>
        BY <1>1, <1>5, <2>2 DEF Drop, LinkOf, TypeOK, ClientState, InvokeState
      <3> QED
        BY <1>1, <3>1, LinkNumbers DEF LinkOf, InStep
    <2> QED
      BY <2>1, <2>2
  <1> QED
    BY <1>2, <1>3, <1>4, <1>5 DEF Environment

\* Every step keeps the link of every page.
LEMMA NextLink == TypeOK /\ LinkInv /\ [Next]_vars => LinkInv'
  <1> SUFFICES ASSUME TypeOK, LinkInv, [Next]_vars, NEW c \in Clients
               PROVE  LinkOf(c)'
    BY DEF LinkInv
  <1>1. CASE UNCHANGED vars
    BY <1>1, LinkUntouched DEF vars
  <1>2. ASSUME NEW d \in Clients,
               User(d) \/ Connection(d) \/ Handlers(d) \/ Subscribe(d)
        PROVE  LinkOf(c)'
    <2>1. CASE c = d
      BY <1>2, <2>1, PageLink, HandlerLink, SubscribeLink
    <2>2. CASE c # d
      BY <1>2, <2>2, OtherPages
    <2> QED
      BY <2>1, <2>2
  <1> QED
    BY <1>1, <1>2, PusherLink, EnvironmentLink DEF Next

\* In every behaviour a page that Subscribe has put in its group is linked to the
\* pushes of its session (PriceHub.Subscribe, PricePusher.PushAllAsync).
THEOREM LinkInvariant == Spec => [](TypeOK /\ LinkInv)
  <1>1. Init => TypeOK /\ LinkInv
    <2> SUFFICES ASSUME Init, NEW c \in Clients PROVE LinkOf(c)
      BY InitTypes DEF LinkInv
    <2>1. /\ client[c].conn = "none" /\ ~invoke[c].alive
          /\ pushed[c] = 0 /\ pusher.target = Nobody
      BY DEF Init, SetupPage, ClosedPage, NoInvoke, PusherStarts
    <2>2. Cheapest(c) = 0
      BY DEF Init, Cheapest
    <2> QED
      BY <2>1, <2>2, LivePricesAssumption DEF LinkOf, InStep
  <1>2. TypeOK /\ LinkInv /\ [Next]_vars => (TypeOK /\ LinkInv)'
    BY NextTypes, NextLink
  <1> QED
    BY <1>1, <1>2, PTL DEF Spec

\* A page whose Subscribe has returned has received a price at least as new as
\* any that was pushed to its session.
THEOREM NoPushIsMissed == Spec => []SubscriberMissesNoPush
  <1>1. LinkInv => SubscriberMissesNoPush
    BY DEF LinkInv, LinkOf, SubscriberMissesNoPush
  <1> QED
    BY <1>1, LinkInvariant, PTL

-------------------------------------------------------------------------------
(* A round of the pusher                                                   *)

\* What the present round owes a session it listed and whose query succeeded:
\* a session served has been pushed a price as new as the round, and the price
\* held for the next one is as new.
ServedOf(c) ==
    /\ pusher.phase = "push"
    /\ c \in round.owed
    /\ round.since >= FirstVersion[c]
    => /\ c \notin pusher.todo => pushed[c] >= round.since
       /\ pusher.target = c => pusher.value >= round.since

RoundInv ==
    /\ round.since <= db
    /\ \A c \in Clients : ServedOf(c)

\* A step that leaves the pusher, the round and what was pushed alone, while the
\* tables only grow, owes nobody anything new.
LEMMA RoundUntouched ==
    ASSUME TypeOK, RoundInv, db' >= db, db' \in Version,
           UNCHANGED <<pusher, round, pushed>>
    PROVE  RoundInv'
  <1>1. round.since \in Int /\ db \in Int /\ db' \in Int
    BY LivePricesAssumption DEF TypeOK, RoundState, Version
  <1>2. round.since <= db'
    BY <1>1 DEF RoundInv
  <1> QED
    BY <1>2 DEF RoundInv, ServedOf

\* Outside the loop of a round nothing is owed.
LEMMA NoRoundNow ==
    ASSUME TypeOK, RoundInv, UNCHANGED db, pusher'.phase # "push",
           round' = round \/ round' = NoRound
    PROVE  RoundInv'
  <1>1. 0 <= db
    BY LivePricesAssumption DEF TypeOK, Version
  <1>2. round'.since <= db'
    BY <1>1 DEF RoundInv, NoRound
  <1> QED
    BY <1>2 DEF RoundInv, ServedOf

\* Reading a session: its query fails, or finds nothing for a session that is
\* owed nothing, or the pusher holds a price as new as the round.
LEMMA ReadServes ==
    ASSUME TypeOK, RoundInv, NEW d \in Clients, PusherRead(d)
    PROVE  RoundInv'
  <1> DEFINE v == IF dbUp THEN Cheapest(d) ELSE 0
  <1>1. /\ pusher \in PusherState /\ round \in RoundState
        /\ db \in Int /\ db >= 0 /\ round.since \in Int
        /\ FirstVersion[d] \in Int
    BY LivePricesAssumption DEF TypeOK, RoundState, Version
  <1>2. /\ UNCHANGED <<db, pushed>> /\ pusher.target = Nobody /\ d # Nobody
        /\ pusher' = IF v = 0 THEN [pusher EXCEPT !.todo = @ \ {d}]
                     ELSE [pusher EXCEPT !.target = d, !.value = v]
        /\ round' = [round EXCEPT !.owed = IF dbUp THEN @ ELSE @ \ {d}]
    BY LivePricesAssumption DEF PusherRead
  <1>3. /\ round'.since = round.since
        /\ round'.owed = IF dbUp THEN round.owed ELSE round.owed \ {d}
        /\ pusher'.phase = pusher.phase
    BY <1>1, <1>2 DEF PusherState, RoundState
  <1>4. ASSUME NEW c \in Clients PROVE ServedOf(c)'
    <2>1. ServedOf(c)
      BY DEF RoundInv
    <2>2. CASE c # d
      <3>1. (c \in pusher'.todo <=> c \in pusher.todo) /\ pusher'.target # c
        BY <1>1, <1>2, <2>2, LivePricesAssumption DEF PusherState
      <3>2. pushed'[c] = pushed[c]
        BY <1>2
      <3> QED
        BY <1>3, <2>1, <3>1, <3>2 DEF ServedOf
    <2>3. CASE c = d /\ ~dbUp
      BY <1>3, <2>3 DEF ServedOf
    <2>4. CASE c = d /\ dbUp /\ round.since >= FirstVersion[d]
      <3>1. v = db /\ v >= round.since
        BY <1>1, <2>4 DEF RoundInv, Cheapest
      <3>2. CASE v = 0
        <4>1. pushed[c] \in Int /\ pushed[c] >= 0
          BY LivePricesAssumption DEF TypeOK, Version
        <4>2. pushed'[c] >= round'.since
          BY <1>1, <1>2, <1>3, <3>1, <3>2, <4>1
        <4>3. pusher'.target # c
          BY <1>1, <1>2, <3>2, LivePricesAssumption DEF PusherState
        <4> QED
          BY <4>2, <4>3 DEF ServedOf
      <3>3. CASE v # 0
        <4>1. pusher'.todo = pusher.todo /\ pusher'.value = v
          BY <1>1, <1>2, <3>3 DEF PusherState
        <4>2. c \in pusher'.todo
          BY <2>4, <4>1 DEF PusherRead
        <4> QED
          BY <1>3, <3>1, <4>1, <4>2 DEF ServedOf
      <3> QED
        BY <3>2, <3>3
    <2>5. CASE c = d /\ ~(round.since >= FirstVersion[d])
      BY <1>3, <2>5 DEF ServedOf
    <2> QED
      BY <2>2, <2>3, <2>4, <2>5
  <1>5. round'.since <= db'
    BY <1>2, <1>3 DEF RoundInv
  <1> QED
    BY <1>4, <1>5 DEF RoundInv

\* Sending serves the session the price was read for, and takes nothing back
\* from the others.
LEMMA SendServes ==
    ASSUME TypeOK, RoundInv, PusherSend
    PROVE  RoundInv'
  <1>1. /\ pusher \in PusherState /\ pusher.target \in Clients
        /\ UNCHANGED <<db, round>>
        /\ pusher' = [pusher EXCEPT !.todo = @ \ {pusher.target},
                                    !.target = Nobody, !.value = 0]
        /\ pushed' = [pushed EXCEPT ![pusher.target] = Newer(@, pusher.value)]
    BY DEF PusherSend, TypeOK, PusherState
  <1>2. /\ pusher'.phase = pusher.phase /\ pusher'.target = Nobody
        /\ pusher'.todo = pusher.todo \ {pusher.target}
    BY <1>1 DEF PusherState
  <1>3. ASSUME NEW c \in Clients PROVE ServedOf(c)'
    <2>1. ServedOf(c) /\ pusher'.target # c
      BY <1>2, LivePricesAssumption DEF RoundInv
    <2>2. CASE c # pusher.target
      <3>1. pushed'[c] = pushed[c] /\ (c \in pusher'.todo <=> c \in pusher.todo)
        BY <1>1, <1>2, <2>2 DEF TypeOK
      <3> QED
        BY <1>1, <1>2, <2>1, <3>1 DEF ServedOf
    <2>3. CASE c = pusher.target
      <3>1. pushed'[c] = Newer(pushed[c], pusher.value)
        BY <1>1, <2>3 DEF TypeOK
      <3>2. /\ pushed[c] \in Int /\ pusher.value \in Int /\ round.since \in Int
        BY LivePricesAssumption DEF TypeOK, PusherState, RoundState, Version
      <3>3. pushed'[c] >= pusher.value
        BY <3>1, <3>2 DEF Newer
      <3>4. pushed'[c] \in Int
        BY <3>1, <3>2 DEF Newer
      <3> QED
        BY <1>1, <1>2, <2>1, <2>3, <3>2, <3>3, <3>4 DEF ServedOf
    <2> QED
      BY <2>2, <2>3
  <1>4. round'.since <= db'
    BY <1>1 DEF RoundInv
  <1> QED
    BY <1>3, <1>4 DEF RoundInv

\* The steps of the pusher keep what the round owes.
LEMMA PusherServes ==
    ASSUME TypeOK, RoundInv, Pusher
    PROVE  RoundInv'
  <1>1. CASE PusherWakes \/ PusherRoundEnds
    <2>1. pusher'.phase # "push" /\ UNCHANGED db /\ (round' = round \/ round' = NoRound)
      BY <1>1 DEF PusherWakes, PusherRoundEnds, TypeOK, PusherState
    <2> QED
      BY <2>1, NoRoundNow
  <1>2. CASE PusherQuery /\ ApiStops
    <2>1. pusher'.phase # "push" /\ UNCHANGED db /\ round' = NoRound
      BY <1>2 DEF PusherQuery, ApiStops, PusherStarts
    <2> QED
      BY <2>1, NoRoundNow
  <1>3. CASE PusherQuery /\ ~ApiStops
    <2>1. PICK listed \in SUBSET Clients :
               /\ pusher' = [pusher EXCEPT !.phase = "push", !.todo = listed]
               /\ round' = [owed |-> listed, since |-> db]
               /\ UNCHANGED db
      BY <1>3 DEF PusherQuery
    <2>2. pusher.target = Nobody /\ pusher'.target = pusher.target
          /\ pusher'.todo = listed
      BY <1>3, <2>1 DEF PusherQuery, TypeOK, PusherState
    <2>3. round'.since <= db' /\ round'.owed = listed
      BY <2>1, LivePricesAssumption DEF TypeOK, Version
    <2> QED
      BY <2>2, <2>3, LivePricesAssumption DEF RoundInv, ServedOf
  <1> QED
    BY <1>1, <1>2, <1>3, ReadServes, SendServes DEF Pusher

\* Every step keeps what the round owes.
LEMMA NextServes == TypeOK /\ RoundInv /\ [Next]_vars => RoundInv'
  <1> SUFFICES ASSUME TypeOK, RoundInv, [Next]_vars PROVE RoundInv'
    OBVIOUS
  <1>1. TypeOK' /\ db \in Int
    BY NextTypes, LivePricesAssumption DEF TypeOK, Version
  <1>2. CASE UNCHANGED vars
    BY <1>1, <1>2, RoundUntouched DEF vars, TypeOK
  <1>3. ASSUME NEW c \in Clients,
               User(c) \/ Connection(c) \/ Handlers(c) \/ Subscribe(c)
        PROVE  RoundInv'
    <2>1. UNCHANGED <<db, pusher, round, pushed>>
      BY <1>3 DEF User, Connection, Handlers, Subscribe, Submit, Reload, Poll, Expand,
                  GetCheapest, StartConnection, Reconnect, GiveUp, SaveSession,
                  HttpTouch, HttpRead, Reply, JoinGroup, TouchSession, ReadCheapest,
                  SendToCaller
    <2> QED
      BY <1>1, <2>1, RoundUntouched DEF TypeOK
  <1>4. CASE Environment
    <2>1. CASE ApiCrash
      <3>1. pusher'.phase # "push" /\ UNCHANGED db /\ round' = NoRound
        BY <2>1 DEF ApiCrash, ApiStops, PusherStarts
      <3> QED
        BY <3>1, NoRoundNow
    <2>2. CASE ApiStart
      <3>1. pusher'.phase # "push" /\ UNCHANGED <<db, round>>
        BY <2>2 DEF ApiStart, PusherStarts
      <3> QED
        BY <3>1, NoRoundNow
    <2>3. CASE Ingest
      <3>1. db' >= db
        BY <1>1, <2>3 DEF Ingest
      <3> QED
        BY <1>1, <2>3, <3>1, RoundUntouched DEF Ingest, TypeOK
    <2>4. CASE DbCrash \/ DbRecover \/ \E c \in Clients : Drop(c)
      <3>1. UNCHANGED <<db, pusher, round, pushed>>
        BY <2>4 DEF DbCrash, DbRecover, Drop
      <3> QED
        BY <1>1, <3>1, RoundUntouched DEF TypeOK
    <2> QED
      BY <1>4, <2>1, <2>2, <2>3, <2>4 DEF Environment
  <1> QED
    BY <1>2, <1>3, <1>4, PusherServes DEF Next

\* When the loop of PushAllAsync ends every session it listed has been pushed a
\* price as new as the round, whatever happened to the queries of the others.
THEOREM RoundsServeEverySession == Spec => []RoundServesEverySession
  <1>1. Init => TypeOK /\ RoundInv
    <2> SUFFICES ASSUME Init PROVE RoundInv
      BY InitTypes
    <2>1. pusher.phase # "push" /\ round.since = 0 /\ db = 0
      BY DEF Init, PusherStarts, NoRound
    <2> QED
      BY <2>1 DEF RoundInv, ServedOf
  <1>2. TypeOK /\ RoundInv /\ [Next]_vars => (TypeOK /\ RoundInv)'
    BY NextTypes, NextServes
  <1>3. TypeOK /\ RoundInv => RoundServesEverySession
    BY DEF TypeOK, RoundState, RoundInv, ServedOf, RoundServesEverySession
  <1> QED
    BY <1>1, <1>2, <1>3, PTL DEF Spec

-------------------------------------------------------------------------------
(* The promises of the API                                                 *)

\* Every price on its way was read from the tables, the pusher only holds one
\* that it found, and it does not run when the process does not.
OnTheWay ==
    /\ \A c \in Clients : http[c].value <= db /\ invoke[c].value <= db
    /\ pusher.target # Nobody => pusher.value > 0
    /\ ~apiUp => pusher.phase = "off"

\* Versions are numbers, and a query returns none newer than the tables.
LEMMA WayNumbers ==
    ASSUME TypeOK, NEW c \in Clients
    PROVE  /\ db \in Nat /\ http[c].value \in Nat /\ invoke[c].value \in Nat
           /\ Cheapest(c) \in Nat /\ Cheapest(c) <= db
  BY LivePricesAssumption
     DEF TypeOK, HttpState, InvokeState, Version, Cheapest

\* A step that changes neither the tables nor the pusher, and puts nothing but
\* what a query returned on its way.
LEMMA WayOfPages ==
    ASSUME TypeOK, OnTheWay, UNCHANGED <<db, apiUp, pusher>>,
           NEW d \in Clients,
           \A c \in Clients \ {d} :
              http'[c] = http[c] /\ invoke'[c].value = invoke[c].value,
           http'[d].value \in {http[d].value, 0, Cheapest(d)},
           invoke'[d].value \in {invoke[d].value, 0, Cheapest(d)}
    PROVE  OnTheWay'
  <1>1. ASSUME NEW c \in Clients
        PROVE  http'[c].value <= db /\ invoke'[c].value <= db
    BY WayNumbers DEF OnTheWay
  <1> QED
    BY <1>1 DEF OnTheWay

\* The page, the REST handlers and the hub put what they read on its way.
LEMMA PageWay ==
    ASSUME TypeOK, OnTheWay, NEW d \in Clients,
           User(d) \/ Connection(d) \/ Handlers(d) \/ Subscribe(d) \/ Drop(d)
    PROVE  OnTheWay'
  <1>1. http[d] \in HttpState /\ invoke[d] \in InvokeState
    BY DEF TypeOK
  <1>2. UNCHANGED <<db, apiUp, pusher>>
    BY DEF User, Submit, Reload, Poll, Expand, GetCheapest, Connection,
           StartConnection, Reconnect, GiveUp, Handlers, SaveSession, HttpTouch,
           HttpRead, Reply, Subscribe, JoinGroup, TouchSession, ReadCheapest,
           SendToCaller, Drop
  <1>3. ASSUME NEW c \in Clients \ {d}
        PROVE  http'[c] = http[c] /\ invoke'[c].value = invoke[c].value
    BY DEF User, Submit, Reload, Poll, Expand, GetCheapest, Connection,
           StartConnection, Reconnect, GiveUp, Handlers, SaveSession, HttpTouch,
           HttpRead, HttpGoes, Reply, Subscribe, JoinGroup, TouchSession,
           ReadCheapest, SendToCaller, InvokeFails, Drop, TypeOK, server
  <1>4. http'[d].value \in {http[d].value, 0, Cheapest(d)}
    <2>1. CASE User(d) \/ Connection(d) \/ Drop(d) \/ Subscribe(d)
      BY <1>1, <2>1
         DEF User, Submit, Reload, Poll, Expand, GetCheapest, Connection,
             StartConnection, Reconnect, GiveUp, Subscribe, JoinGroup,
             TouchSession, ReadCheapest, SendToCaller, Drop, TypeOK, HttpState,
             server
    <2>2. CASE Handlers(d)
      BY <1>1, <2>2 DEF Handlers, SaveSession, HttpTouch, HttpRead, HttpGoes,
                        Reply, NoRequest, TypeOK
    <2> QED
      BY <2>1, <2>2
  <1>5. invoke'[d].value \in {invoke[d].value, 0, Cheapest(d)}
    <2>1. CASE User(d) \/ Connection(d) \/ Handlers(d) \/ Drop(d)
      <3>1. \/ invoke'[d] = invoke[d]
            \/ invoke'[d] = [invoke[d] EXCEPT !.alive = FALSE]
            \/ invoke'[d] = [NoInvoke EXCEPT !.step = "join", !.alive = TRUE]
        BY <2>1
           DEF User, Submit, Reload, Poll, Expand, GetCheapest, Connection,
               StartConnection, Reconnect, GiveUp, Handlers, SaveSession, HttpTouch,
               HttpRead, Reply, Drop, TypeOK, server
      <3> QED
        BY <1>1, <3>1 DEF InvokeState, NoInvoke
    <2>2. CASE Subscribe(d)
      BY <1>1, <2>2 DEF Subscribe, JoinGroup, TouchSession, ReadCheapest,
                        SendToCaller, InvokeFails, NoInvoke, TypeOK, InvokeState
    <2> QED
      BY <2>1, <2>2
  <1> QED
    BY <1>2, <1>3, <1>4, <1>5, WayOfPages

\* When the API stops nothing is on its way.
LEMMA ApiStopsWay ==
    ASSUME TypeOK, OnTheWay, ApiStops, UNCHANGED db
    PROVE  OnTheWay'
  <1>1. ASSUME NEW c \in Clients
        PROVE  http'[c].value <= db /\ invoke'[c].value <= db
    <2>1. http'[c].value = 0 /\ invoke'[c].value = 0
      BY DEF ApiStops, NoRequest, NoInvoke
    <2> QED
      BY <2>1, WayNumbers
  <1>2. pusher'.target = Nobody /\ pusher'.phase = "off"
    BY DEF ApiStops, PusherStarts
  <1> QED
    BY <1>1, <1>2 DEF OnTheWay

\* Every step keeps what is on its way.
LEMMA NextWay == TypeOK /\ OnTheWay /\ [Next]_vars => OnTheWay'
  <1> SUFFICES ASSUME TypeOK, OnTheWay, [Next]_vars PROVE OnTheWay'
    OBVIOUS
  <1>1. pusher \in PusherState
    BY DEF TypeOK
  <1>2. CASE UNCHANGED vars
    BY <1>2 DEF vars, server, OnTheWay
  <1>3. CASE PusherQuery /\ ApiStops
    BY <1>3, ApiStopsWay DEF PusherQuery
  <1>4. CASE \/ PusherWakes \/ PusherSend \/ PusherRoundEnds
             \/ (PusherQuery /\ ~ApiStops)
    <2>1. UNCHANGED <<db, apiUp, http, invoke>>
      BY <1>4 DEF PusherWakes, PusherSend, PusherRoundEnds, PusherQuery, server
    <2>2. pusher.phase # "off"
      BY <1>4 DEF PusherWakes, PusherSend, PusherRoundEnds, PusherQuery, TypeOK
    <2>3. \/ pusher'.target = Nobody
          \/ pusher'.target = pusher.target /\ pusher'.value = pusher.value
      BY <1>1, <1>4 DEF PusherWakes, PusherSend, PusherRoundEnds, PusherQuery,
                        PusherState
    <2> QED
      BY <2>1, <2>2, <2>3 DEF OnTheWay
  <1>5. ASSUME NEW d \in Clients, PusherRead(d) PROVE OnTheWay'
    <2> DEFINE v == IF dbUp THEN Cheapest(d) ELSE 0
    <2>1. /\ UNCHANGED <<db, apiUp, http, invoke>> /\ apiUp
          /\ pusher.target = Nobody
          /\ pusher' = IF v = 0 THEN [pusher EXCEPT !.todo = @ \ {d}]
                       ELSE [pusher EXCEPT !.target = d, !.value = v]
      BY <1>5 DEF PusherRead, OnTheWay, server
    <2>2. v \in Nat
      BY WayNumbers
    <2>3. pusher'.target # Nobody => pusher'.value > 0
      BY <1>1, <2>1, <2>2 DEF PusherState
    <2> QED
      BY <2>1, <2>3 DEF OnTheWay
  <1>6. CASE Ingest
    <2>1. ASSUME NEW c \in Clients
          PROVE  http'[c].value <= db' /\ invoke'[c].value <= db'
      BY <1>6, WayNumbers DEF Ingest, OnTheWay, server
    <2> QED
      BY <1>6, <2>1 DEF Ingest, OnTheWay, server
  <1>7. CASE DbCrash \/ DbRecover \/ ApiStart
    BY <1>7 DEF DbCrash, DbRecover, ApiStart, PusherStarts, OnTheWay, server
  <1>8. CASE Pusher
    <2>1. CASE PusherQuery
      BY <1>3, <1>4, <2>1
    <2> QED
      BY <1>4, <1>5, <1>8, <2>1 DEF Pusher
  <1>9. CASE Environment
    <2>1. CASE ApiCrash
      BY <2>1, ApiStopsWay DEF ApiCrash
    <2> QED
      BY <1>6, <1>7, <1>9, <2>1, PageWay DEF Environment
  <1> QED
    BY <1>2, <1>8, <1>9, PageWay DEF Next

\* Steps in which no page receives a price or changes its connection, and the
\* round goes on as it was, are not visible.
LEMMA NothingSeen ==
    ASSUME UNCHANGED <<db, dbUp, pushed>>, StillOwed' = StillOwed,
           round'.since = round.since,
           \A c \in Clients :
              /\ client'[c].best = client[c].best
              /\ client'[c].conn = "subscribed" <=> client[c].conn = "subscribed"
    PROVE  UNCHANGED Board!vars
  <1>1. Watching' = Watching /\ Known' = Known
    BY DEF Watching, Known
  <1> QED
    BY <1>1 DEF Board!vars

\* What is owed only depends on the pusher and its round.
LEMMA SameRound ==
    ASSUME UNCHANGED <<pusher, round>>
    PROVE  StillOwed' = StillOwed /\ round'.since = round.since
  BY DEF StillOwed

\* One page receives prices, joins or leaves.
LEMMA OnePage ==
    ASSUME TypeOK, NEW c \in Clients,
           \A d \in Clients \ {c} : client'[d] = client[d]
    PROVE  /\ Known' = [Known EXCEPT ![c] = client'[c].best]
           /\ Watching' = IF client'[c].conn = "subscribed"
                          THEN Watching \cup {c} ELSE Watching \ {c}
  BY DEF Known, Watching

\* What the board sees of a page, its handlers, its hub method and its
\* transport is that page only.
LEMMA OnlyThisPage ==
    ASSUME TypeOK, NEW c \in Clients,
           User(c) \/ Connection(c) \/ Handlers(c) \/ Subscribe(c) \/ Drop(c)
    PROVE  /\ UNCHANGED <<db, dbUp, pusher, round, pushed>>
           /\ \A d \in Clients \ {c} : client'[d] = client[d]
  BY DEF User, Submit, Reload, Poll, Expand, GetCheapest, Connection,
         StartConnection, Reconnect, GiveUp, Handlers, SaveSession, HttpTouch,
         HttpRead, Reply, Subscribe, JoinGroup, TouchSession, ReadCheapest,
         SendToCaller, InvokeFails, Drop, TypeOK, server

\* A page that keeps its price and its connection is not seen to move.
LEMMA PageAsBefore ==
    ASSUME TypeOK, NEW c \in Clients,
           User(c) \/ Connection(c) \/ Handlers(c) \/ Subscribe(c) \/ Drop(c),
           client'[c].best = client[c].best,
           client'[c].conn = "subscribed" <=> client[c].conn = "subscribed"
    PROVE  UNCHANGED Board!vars
  <1>1. /\ UNCHANGED <<db, dbUp, pusher, round, pushed>>
        /\ \A d \in Clients \ {c} : client'[d] = client[d]
    BY OnlyThisPage
  <1>2. ASSUME NEW d \in Clients
        PROVE  /\ client'[d].best = client[d].best
               /\ client'[d].conn = "subscribed" <=> client[d].conn = "subscribed"
    BY <1>1
  <1> QED
    BY <1>1, <1>2, SameRound, NothingSeen

\* What the user and the connection do is a departure, or not seen.
LEMMA PageOnBoard ==
    ASSUME TypeOK, NEW c \in Clients, User(c) \/ Connection(c) \/ Drop(c)
    PROVE  Board!Leave(c) \/ UNCHANGED Board!vars
  <1>1. client[c] \in ClientState
    BY DEF TypeOK
  <1>2. CASE Reload(c) \/ Drop(c)
    <2>1. /\ client'[c].conn # "subscribed"
          /\ client'[c].best \in {client[c].best, 0}
      BY <1>1, <1>2 DEF Reload, Drop, SetupPage, TypeOK, ClientState
    <2>2. /\ UNCHANGED <<db, dbUp, pusher, round, pushed>>
          /\ \A d \in Clients \ {c} : client'[d] = client[d]
      BY <1>2, OnlyThisPage DEF User
    <2>3. /\ Known' = [Known EXCEPT ![c] = client'[c].best]
          /\ Watching' = Watching \ {c}
      BY <2>1, <2>2, OnePage
    <2>4. [Known EXCEPT ![c] = client[c].best] = Known
      BY DEF Known
    <2>5. Known' \in {Known, [Known EXCEPT ![c] = 0]}
      BY <2>1, <2>3, <2>4
    <2> QED
      BY <2>2, <2>3, <2>5, SameRound DEF Board!Leave
  <1>3. CASE Submit(c) \/ Poll(c) \/ Expand(c) \/ Connection(c)
    <2>1. /\ client'[c].best = client[c].best
          /\ client'[c].conn = "subscribed" <=> client[c].conn = "subscribed"
      BY <1>1, <1>3 DEF Submit, Poll, Expand, GetCheapest, Connection,
                        StartConnection, Reconnect, GiveUp, TypeOK, ClientState
    <2> QED
      BY <1>3, <2>1, PageAsBefore DEF User
  <1> QED
    BY <1>2, <1>3 DEF User

\* An answer opens the page, or brings it a price that was in the tables.
LEMMA HandlerOnBoard ==
    ASSUME TypeOK, LinkInv, OnTheWay, NEW c \in Clients, Handlers(c)
    PROVE  \/ UNCHANGED Board!vars
           \/ \E v \in 0..db : Board!Open(c, v) \/ Board!Learn(c, v)
  <1>1. /\ client[c] \in ClientState /\ LinkOf(c)
        /\ db \in Nat /\ http[c].value \in Nat /\ http[c].value <= db
    BY WayNumbers DEF TypeOK, LinkInv, OnTheWay
  <1>2. /\ UNCHANGED <<db, dbUp, pusher, round, pushed>>
        /\ \A d \in Clients \ {c} : client'[d] = client[d]
    BY OnlyThisPage
  <1>3. CASE SaveSession(c) \/ HttpTouch(c) \/ HttpRead(c)
    <2>1. client'[c] = client[c]
      BY <1>3 DEF SaveSession, HttpTouch, HttpRead
    <2> QED
      BY <2>1, PageAsBefore
  <1>4. CASE Reply(c)
    <2> DEFINE v == http[c].value
    <2>1. client'[c] = AfterReply(c)
      BY <1>4 DEF Reply, TypeOK
    <2>2. CASE client[c].page \in {"posting", "booting"}
      <3>1. client[c].conn = "none"
        BY <1>1, <2>2 DEF LinkOf
      <3>2. /\ client'[c].conn \in {"none", "starting"}
            /\ client'[c].best \in 0..db
        BY <1>1, <2>1, <2>2 DEF AfterReply, SetupPage
      <3>3. /\ Known' = [Known EXCEPT ![c] = client'[c].best]
            /\ Watching' = Watching \ {c} /\ c \notin Watching
        BY <1>2, <3>1, <3>2, OnePage DEF Watching
      <3>4. Board!Open(c, client'[c].best)
        BY <1>2, <3>2, <3>3, SameRound DEF Board!Open
      <3> QED
        BY <3>2, <3>4
    <2>3. CASE client[c].page = "widget" /\ http[c].step = "reply" /\ v # 0
      <3>1. client'[c] = [client[c] EXCEPT !.shown = v, !.best = Newer(@, v)]
        BY <2>1, <2>3 DEF AfterReply
      <3>2. /\ client'[c].conn = client[c].conn
            /\ client'[c].best = Newer(client[c].best, v)
        BY <1>1, <3>1 DEF ClientState
      <3>3. /\ Known' = [Known EXCEPT ![c] = client'[c].best]
            /\ Watching' = Watching
        BY <1>2, <3>2, OnePage DEF Watching
      <3>4. Known' = [Known EXCEPT ![c] = Board!Newest(@, v)]
        BY <3>2, <3>3 DEF Known, Newer, Board!Newest
      <3>5. v \in 1..db
        BY <1>1, <2>3
      <3>6. Board!Learn(c, v)
        BY <1>2, <3>3, <3>4, <3>5, SameRound DEF Board!Learn
      <3> QED
        BY <1>1, <3>6
    <2>4. CASE /\ client[c].page \notin {"posting", "booting"}
               /\ ~(client[c].page = "widget" /\ http[c].step = "reply" /\ v # 0)
      <3>1. client'[c] = client[c]
        BY <2>1, <2>4 DEF AfterReply
      <3> QED
        BY <3>1, PageAsBefore
    <2> QED
      BY <2>2, <2>3, <2>4
  <1> QED
    BY <1>3, <1>4 DEF Handlers

\* When Subscribe has sent, the page watches, and no push before is missing.
LEMMA SubscribeOnBoard ==
    ASSUME TypeOK, LinkInv, OnTheWay, NEW c \in Clients, Subscribe(c)
    PROVE  \/ UNCHANGED Board!vars
           \/ \E v \in 0..db : Board!Watch(c, v)
  <1>1. /\ client[c] \in ClientState /\ LinkOf(c)
        /\ db \in Nat /\ invoke[c].value \in Nat /\ invoke[c].value <= db
        /\ client[c].best \in Nat
    BY WayNumbers, LivePricesAssumption
       DEF TypeOK, LinkInv, OnTheWay, ClientState, Version
  <1>2. /\ UNCHANGED <<db, dbUp, pusher, round, pushed>>
        /\ \A d \in Clients \ {c} : client'[d] = client[d]
    BY OnlyThisPage
  <1>3. CASE SendToCaller(c) /\ invoke[c].alive
    <2> DEFINE v == invoke[c].value
               p == IF v = 0 THEN client[c] ELSE Received(client[c], v)
    <2>1. client'[c] = [p EXCEPT !.conn = "subscribed"]
      BY <1>3 DEF SendToCaller, TypeOK
    <2>2. v \in Version
      BY <1>1 DEF TypeOK, InvokeState
    <2>3. p \in ClientState
      BY <1>1, <2>2, PageType
    <2>4. p.best = Newer(client[c].best, v)
      BY <1>1 DEF Received, ClientState, Newer
    <2>5. /\ client'[c].conn = "subscribed"
          /\ client'[c].best = Newer(client[c].best, v)
      BY <2>1, <2>3, <2>4 DEF ClientState
    <2>6. Newer(client[c].best, v) >= pushed[c]
      BY <1>1, <1>3 DEF LinkOf, InStep, SendToCaller
    <2>7. /\ Known' = [Known EXCEPT ![c] = client'[c].best]
          /\ Watching' = Watching \cup {c}
      BY <1>2, <2>5, OnePage
    <2>8. /\ Known' = [Known EXCEPT ![c] = Board!Newest(@, v)]
          /\ Board!Newest(Known[c], v) >= pushed[c]
      BY <2>5, <2>6, <2>7 DEF Known, Newer, Board!Newest
    <2>9. v \in 0..db
      BY <1>1
    <2>10. UNCHANGED <<db, dbUp, pushed, StillOwed, round.since>>
      BY <1>2, SameRound
    <2> HIDE DEF v, p
    <2> QED
      BY <2>7, <2>8, <2>9, <2>10 DEF Board!Watch
  <1>4. ASSUME \/ JoinGroup(c) \/ TouchSession(c) \/ ReadCheapest(c)
               \/ (SendToCaller(c) /\ ~invoke[c].alive)
        PROVE  UNCHANGED Board!vars
    <2>1. /\ client'[c].best = client[c].best
          /\ client'[c].conn = "subscribed" <=> client[c].conn = "subscribed"
      BY <1>1, <1>4 DEF JoinGroup, TouchSession, ReadCheapest, SendToCaller,
                        InvokeFails, TypeOK, ClientState
    <2> QED
      BY <2>1, PageAsBefore
  <1> QED
    BY <1>3, <1>4 DEF Subscribe

\* When the API stops nobody watches, and the round is given up.
LEMMA StopOnBoard ==
    ASSUME TypeOK, ApiStops, UNCHANGED <<db, dbUp, pushed>>
    PROVE  Board!Stop
  <1>1. ASSUME NEW c \in Clients
        PROVE  /\ client'[c].conn # "subscribed"
               /\ client'[c].best = client[c].best
    <2>1. client[c] \in ClientState
      BY DEF TypeOK
    <2> QED
      BY <2>1 DEF ApiStops, ClientState
  <1>2. Watching' = {} /\ Known' = Known
    BY <1>1 DEF Watching, Known
  <1>3. StillOwed' = {} /\ round'.since = 0
    BY DEF ApiStops, StillOwed, PusherStarts, NoRound
  <1> QED
    BY <1>2, <1>3 DEF Board!Stop

\* Reading a session excuses it when its query fails, and is not seen otherwise:
\* a session with no station now had none when the round began.
LEMMA ReadOnBoard ==
    ASSUME TypeOK, RoundInv, NEW d \in Clients, PusherRead(d)
    PROVE  Board!Excuse(d) \/ UNCHANGED Board!vars
  <1> DEFINE v == IF dbUp THEN Cheapest(d) ELSE 0
  <1>1. /\ pusher \in PusherState /\ round \in RoundState /\ dbUp \in BOOLEAN
        /\ db \in Nat /\ round.since \in Nat /\ round.since <= db
        /\ FirstVersion[d] \in Nat
    BY LivePricesAssumption DEF TypeOK, RoundInv, RoundState, Version
  <1>2. /\ UNCHANGED <<db, dbUp, client, pushed>>
        /\ pusher.phase = "push" /\ d \in pusher.todo
        /\ pusher' = IF v = 0 THEN [pusher EXCEPT !.todo = @ \ {d}]
                     ELSE [pusher EXCEPT !.target = d, !.value = v]
        /\ round' = [round EXCEPT !.owed = IF dbUp THEN @ ELSE @ \ {d}]
    BY DEF PusherRead
  <1>3. /\ round'.since = round.since /\ pusher'.phase = "push"
        /\ round'.owed = IF dbUp THEN round.owed ELSE round.owed \ {d}
        /\ pusher'.todo = IF v = 0 THEN pusher.todo \ {d} ELSE pusher.todo
    BY <1>1, <1>2 DEF PusherState, RoundState
  <1>4. Watching' = Watching /\ Known' = Known
    BY <1>2 DEF Watching, Known
  <1>5. CASE dbUp
    <2>1. v = 0 => ~(round.since > 0 /\ round.since >= FirstVersion[d])
      BY <1>1, <1>5 DEF Cheapest
    <2>2. StillOwed' = StillOwed
      BY <1>2, <1>3, <1>5, <2>1 DEF StillOwed
    <2> QED
      BY <1>2, <1>3, <1>4, <2>2 DEF Board!vars
  <1>6. CASE ~dbUp
    <2>1. v = 0
      BY <1>6
    <2>2. StillOwed' = StillOwed \ {d}
      BY <1>2, <1>3, <1>6, <2>1 DEF StillOwed
    <2>3. CASE d \in StillOwed
      BY <1>2, <1>3, <1>4, <1>6, <2>2, <2>3 DEF Board!Excuse
    <2>4. CASE d \notin StillOwed
      BY <1>2, <1>3, <1>4, <2>2, <2>4 DEF Board!vars
    <2> QED
      BY <2>3, <2>4
  <1> QED
    BY <1>1, <1>5, <1>6

\* Sending is a push as new as the round, and reaches a page that watches.
LEMMA SendOnBoard ==
    ASSUME TypeOK, LinkInv, RoundInv, OnTheWay, PusherSend
    PROVE  \E s \in Clients, v \in 0..db : Board!Push(s, v)
  <1> DEFINE c == pusher.target
             v == pusher.value
  <1>1. /\ pusher \in PusherState /\ c \in Clients /\ c # Nobody
        /\ pusher.phase = "push" /\ v \in Nat /\ v > 0
        /\ client[c] \in ClientState
    BY LivePricesAssumption
       DEF PusherSend, TypeOK, OnTheWay, PusherState, Version
  <1>2. /\ LinkOf(c) /\ ServedOf(c) /\ Cheapest(c) <= db /\ Cheapest(c) \in Nat
        /\ db \in Nat
    BY <1>1, WayNumbers DEF LinkInv, RoundInv
  <1>3. v <= db
    BY <1>1, <1>2 DEF LinkOf
  <1>4. /\ UNCHANGED <<db, dbUp, round>>
        /\ pushed' = [pushed EXCEPT ![c] = Newer(@, v)]
        /\ client' = IF c \in joined
                     THEN [client EXCEPT ![c] = Received(client[c], v)]
                     ELSE client
        /\ pusher' = [pusher EXCEPT !.todo = @ \ {c}, !.target = Nobody, !.value = 0]
    BY DEF PusherSend
  <1>5. StillOwed' = StillOwed \ {c}
    <2>1. pusher'.phase = "push" /\ pusher'.todo = pusher.todo \ {c}
      BY <1>1, <1>4 DEF PusherState
    <2> HIDE DEF c
    <2> QED
      BY <1>1, <1>4, <2>1 DEF StillOwed
  <1>6. c \in StillOwed => v >= round.since
    BY <1>1, <1>2 DEF StillOwed, ServedOf
  <1>7. c \in Watching => c \in joined
    BY <1>2 DEF Watching, LinkOf
  <1>8. /\ Watching' = Watching
        /\ Known' = [Known EXCEPT ![c] = IF c \in joined THEN Newer(@, v) ELSE @]
    <2>1. /\ client'[c].conn = client[c].conn
          /\ client'[c].best = IF c \in joined THEN Newer(client[c].best, v)
                               ELSE client[c].best
      BY <1>1, <1>4 DEF Received, ClientState, TypeOK
    <2>2. \A d \in Clients \ {c} : client'[d] = client[d]
      BY <1>4 DEF TypeOK
    <2> HIDE DEF c, v
    <2> QED
      BY <1>1, <2>1, <2>2 DEF Watching, Known
  <1> HIDE DEF c, v
  <1>9. /\ pushed' = [pushed EXCEPT ![c] = Board!Newest(@, v)]
        /\ \/ Known' = [Known EXCEPT ![c] = Board!Newest(@, v)]
           \/ c \notin Watching /\ Known' = Known
    <2>1. CASE c \in joined
      BY <1>4, <1>8, <2>1 DEF Newer, Board!Newest
    <2>2. CASE c \notin joined
      BY <1>4, <1>7, <1>8, <2>2 DEF Newer, Board!Newest, Known
    <2> QED
      BY <2>1, <2>2
  <1>10. v \in 1..db /\ v \in 0..db
    BY <1>1, <1>2, <1>3
  <1>11. Board!Push(c, v)
    BY <1>4, <1>5, <1>6, <1>8, <1>9, <1>10 DEF Board!Push
  <1> QED
    BY <1>1, <1>10, <1>11

\* A step of the pusher is a step of the board, or is not seen.
LEMMA PusherOnBoard ==
    ASSUME TypeOK, LinkInv, RoundInv, OnTheWay, Pusher
    PROVE  Board!Next \/ UNCHANGED Board!vars
  <1>1. pusher \in PusherState
    BY DEF TypeOK
  <1>2. CASE PusherWakes
    <2>1. StillOwed' = StillOwed
      BY <1>1, <1>2 DEF PusherWakes, StillOwed, PusherState
    <2> QED
      BY <1>2, <2>1, NothingSeen DEF PusherWakes
  <1>3. CASE PusherQuery /\ ApiStops
    <2>1. Board!Stop
      BY <1>3, StopOnBoard DEF PusherQuery
    <2> QED
      BY <2>1 DEF Board!Next
  <1>4. CASE PusherQuery /\ ~ApiStops
    <2>1. /\ dbUp /\ pusher.phase = "query"
          /\ UNCHANGED <<db, dbUp, client, pushed>>
          /\ \E listed \in SUBSET Clients :
                /\ pusher' = [pusher EXCEPT !.phase = "push", !.todo = listed]
                /\ round' = [owed |-> listed, since |-> db]
      BY <1>4 DEF PusherQuery
    <2>2. PICK listed \in SUBSET Clients :
                /\ pusher' = [pusher EXCEPT !.phase = "push", !.todo = listed]
                /\ round' = [owed |-> listed, since |-> db]
      BY <2>1
    <2>3. /\ pusher'.phase = "push" /\ pusher'.todo = listed
          /\ round'.owed = listed /\ round'.since = db
      BY <1>1, <2>2 DEF PusherState
    <2>4. StillOwed = {}
      BY <2>1 DEF StillOwed
    <2>5. StillOwed' = {s \in listed : Board!HasStation(s, db)}
      BY <2>3 DEF StillOwed, Board!HasStation
    <2>6. Watching' = Watching /\ Known' = Known
      BY <2>1 DEF Watching, Known
    <2>7. Board!Begin(listed)
      BY <2>1, <2>3, <2>4, <2>5, <2>6 DEF Board!Begin
    <2> QED
      BY <2>7 DEF Board!Next
  <1>5. CASE PusherSend
    BY <1>5, SendOnBoard DEF Board!Next
  <1>6. CASE PusherRoundEnds
    <2>1. StillOwed = {} /\ StillOwed' = {} /\ round'.since = 0
      BY <1>1, <1>6 DEF PusherRoundEnds, StillOwed, PusherState, NoRound
    <2>2. Watching' = Watching /\ Known' = Known
      BY <1>6 DEF PusherRoundEnds, Watching, Known
    <2>3. Board!End
      BY <1>6, <2>1, <2>2 DEF PusherRoundEnds, Board!End
    <2> QED
      BY <2>3 DEF Board!Next
  <1>7. ASSUME NEW d \in Clients, PusherRead(d)
        PROVE  Board!Next \/ UNCHANGED Board!vars
    BY <1>7, ReadOnBoard DEF Board!Next
  <1> QED
    BY <1>2, <1>3, <1>4, <1>5, <1>6, <1>7 DEF Pusher

\* So is a step of the environment.
LEMMA EnvironmentOnBoard ==
    ASSUME TypeOK, OnTheWay, Environment
    PROVE  Board!Next \/ UNCHANGED Board!vars
  <1>1. CASE Ingest
    <2>1. /\ UNCHANGED <<dbUp, pusher, round, client, pushed>>
          /\ db' = db + 1
      BY <1>1 DEF Ingest
    <2>2. Watching' = Watching /\ Known' = Known
      BY <2>1 DEF Watching, Known
    <2>3. Board!Ingest
      BY <2>1, <2>2, SameRound DEF Board!Ingest
    <2> QED
      BY <2>3 DEF Board!Next
  <1>2. CASE DbCrash \/ DbRecover
    <2>1. /\ UNCHANGED <<db, pusher, round, client, pushed>>
          /\ dbUp' = ~dbUp
      BY <1>2 DEF DbCrash, DbRecover, TypeOK
    <2>2. Watching' = Watching /\ Known' = Known
      BY <2>1 DEF Watching, Known
    <2>3. Board!Database
      BY <2>1, <2>2, SameRound DEF Board!Database
    <2> QED
      BY <2>3 DEF Board!Next
  <1>3. CASE ApiCrash
    <2>1. Board!Stop
      BY <1>3, StopOnBoard DEF ApiCrash
    <2> QED
      BY <2>1 DEF Board!Next
  <1>4. CASE ApiStart
    <2>1. StillOwed' = StillOwed
      BY <1>4 DEF ApiStart, StillOwed, OnTheWay, PusherStarts
    <2> QED
      BY <1>4, <2>1, NothingSeen DEF ApiStart
  <1>5. ASSUME NEW c \in Clients, Drop(c)
        PROVE  Board!Next \/ UNCHANGED Board!vars
    BY <1>5, PageOnBoard DEF Board!Next
  <1> QED
    BY <1>1, <1>2, <1>3, <1>4, <1>5 DEF Environment

\* Every step of the API, its pages and its environment is a step of the board.
LEMMA NextOnBoard ==
    TypeOK /\ LinkInv /\ RoundInv /\ OnTheWay /\ [Next]_vars
      => [Board!Next]_Board!vars
  <1> SUFFICES ASSUME TypeOK, LinkInv, RoundInv, OnTheWay, [Next]_vars
               PROVE  Board!Next \/ UNCHANGED Board!vars
    OBVIOUS
  <1>1. CASE UNCHANGED vars
    BY <1>1, SameRound, NothingSeen DEF vars
  <1>2. ASSUME NEW c \in Clients,
               User(c) \/ Connection(c) \/ Handlers(c) \/ Subscribe(c)
        PROVE  Board!Next \/ UNCHANGED Board!vars
    <2>1. CASE User(c) \/ Connection(c)
      BY <2>1, PageOnBoard DEF Board!Next
    <2>2. CASE Handlers(c)
      BY <2>2, HandlerOnBoard DEF Board!Next
    <2>3. CASE Subscribe(c)
      BY <2>3, SubscribeOnBoard DEF Board!Next
    <2> QED
      BY <1>2, <2>1, <2>2, <2>3
  <1> QED
    BY <1>1, <1>2, PusherOnBoard, EnvironmentOnBoard DEF Next

\* The API implements PriceBoard: for any number of pages, any window and any
\* failures, a round serves whom it lists, a page that was told so misses no push,
\* and no price is told that was not in the tables.
THEOREM ImplementsPriceBoard == Spec => PromisesAreKept
  <1>1. Init => TypeOK /\ RoundInv /\ OnTheWay
    <2> SUFFICES ASSUME Init PROVE RoundInv /\ OnTheWay
      BY InitTypes
    <2>1. pusher.phase # "push" /\ round.since = 0 /\ db = 0
          /\ pusher.target = Nobody /\ apiUp
      BY DEF Init, PusherStarts, NoRound
    <2>2. \A c \in Clients : http[c].value = 0 /\ invoke[c].value = 0
      BY DEF Init, NoRequest, NoInvoke
    <2> QED
      BY <2>1, <2>2 DEF RoundInv, ServedOf, OnTheWay
  <1>2. TypeOK /\ RoundInv /\ OnTheWay /\ [Next]_vars
          => (TypeOK /\ RoundInv /\ OnTheWay)'
    BY NextTypes, NextServes, NextWay
  <1>3. Init => Board!Init
    <2> SUFFICES ASSUME Init PROVE Board!Init
      OBVIOUS
    <2>1. ASSUME NEW c \in Clients
          PROVE  client[c].conn = "none" /\ client[c].best = 0
      BY DEF Init, SetupPage, ClosedPage
    <2>2. Watching = {} /\ Known = [c \in Clients |-> 0]
      BY <2>1 DEF Watching, Known
    <2>3. StillOwed = {} /\ round.since = 0
      BY DEF Init, PusherStarts, NoRound, StillOwed
    <2> QED
      BY <2>2, <2>3 DEF Init, Board!Init
  <1>4. TypeOK /\ LinkInv /\ RoundInv /\ OnTheWay /\ [Next]_vars
          => [Board!Next]_Board!vars
    BY NextOnBoard
  <1> QED
    BY <1>1, <1>2, <1>3, <1>4, LinkInvariant, PTL
    DEF Spec, PromisesAreKept, Board!Spec

-------------------------------------------------------------------------------
(* Pages that hear nothing                                                 *)

\* A connection in the group is one of a page that is connected; without a
\* Subscribe that has returned or is running, the page polls as well.
GroupOf(c) ==
    c \in joined =>
        /\ client[c].conn \in {"connected", "subscribed"}
        /\ client[c].conn = "connected" => invoke[c].alive \/ client[c].polling

GroupInv == \A c \in Clients : GroupOf(c)

\* A step of one page leaves the group of the others alone.
LEMMA OtherGroups ==
    ASSUME TypeOK, GroupInv, NEW c \in Clients, NEW d \in Clients \ {c},
           User(c) \/ Connection(c) \/ Handlers(c) \/ Subscribe(c) \/ Drop(c)
    PROVE  GroupOf(d)'
  <1>1. client'[d] = client[d] /\ invoke'[d] = invoke[d] /\ (d \in joined' <=> d \in joined)
    BY DEF User, Submit, Reload, Poll, Expand, GetCheapest, Connection,
           StartConnection, Reconnect, GiveUp, Handlers, SaveSession, HttpTouch,
           HttpRead, Reply, Subscribe, JoinGroup, TouchSession, ReadCheapest,
           SendToCaller, InvokeFails, Drop, TypeOK, server
  <1> QED
    BY <1>1 DEF GroupInv, GroupOf

\* The page itself is in the group only while it is connected.
LEMMA OwnGroup ==
    ASSUME TypeOK, LinkInv, GroupInv, NEW c \in Clients,
           User(c) \/ Connection(c) \/ Handlers(c) \/ Subscribe(c) \/ Drop(c)
    PROVE  GroupOf(c)'
  <1>1. /\ client[c] \in ClientState /\ invoke[c] \in InvokeState
        /\ GroupOf(c) /\ LinkOf(c)
    BY DEF TypeOK, GroupInv, LinkInv
  <1>2. CASE Reload(c) \/ Drop(c)
    BY <1>2 DEF Reload, Drop, GroupOf
  <1>3. CASE Submit(c) \/ Poll(c) \/ Expand(c) \/ SaveSession(c) \/ HttpTouch(c)
               \/ HttpRead(c)
    <2>1. /\ client'[c].conn = client[c].conn /\ client'[c].polling = client[c].polling
          /\ UNCHANGED <<joined, invoke>>
      BY <1>1, <1>3 DEF Submit, Poll, Expand, GetCheapest, SaveSession, HttpTouch,
                        HttpRead, TypeOK, ClientState
    <2> QED
      BY <1>1, <2>1 DEF GroupOf
  <1>4. CASE Connection(c)
    <2>1. c \notin joined
      BY <1>1, <1>4 DEF Connection, StartConnection, Reconnect, GiveUp, GroupOf
    <2> QED
      BY <1>4, <2>1 DEF Connection, StartConnection, Reconnect, GiveUp, server, GroupOf
  <1>5. CASE Reply(c)
    <2>1. client'[c] = AfterReply(c) /\ UNCHANGED <<joined, invoke>>
      BY <1>5 DEF Reply, TypeOK
    <2>2. CASE client[c].page \in {"posting", "booting"}
      BY <1>1, <2>1, <2>2 DEF LinkOf, GroupOf
    <2>3. CASE client[c].page \notin {"posting", "booting"}
      <3>1. /\ client'[c].conn = client[c].conn
            /\ client'[c].polling = client[c].polling
        BY <1>1, <2>1, <2>3 DEF AfterReply, ClientState
      <3> QED
        BY <1>1, <2>1, <3>1 DEF GroupOf
    <2> QED
      BY <2>2, <2>3
  <1>6. ASSUME InvokeFails(c), joined' = joined PROVE GroupOf(c)'
    <2>1. /\ client'[c].conn = client[c].conn
          /\ client[c].polling => client'[c].polling
          /\ invoke[c].alive => client'[c].polling
      BY <1>1, <1>6 DEF InvokeFails, TypeOK, ClientState, InvokeState
    <2> QED
      BY <1>1, <1>6, <2>1 DEF GroupOf
  <1>7. CASE JoinGroup(c)
    <2>1. /\ client' = client /\ invoke'[c].alive = invoke[c].alive
          /\ c \in joined' <=> (c \in joined \/ invoke[c].alive)
      BY <1>1, <1>7 DEF JoinGroup, TypeOK, InvokeState
    <2> QED
      BY <1>1, <2>1 DEF GroupOf, LinkOf
  <1>8. CASE (TouchSession(c) \/ ReadCheapest(c)) /\ dbUp
    <2>1. UNCHANGED <<client, joined>>
      BY <1>8 DEF TouchSession, ReadCheapest
    <2>2. \/ invoke'[c] = [invoke[c] EXCEPT !.step = "read"]
          \/ invoke'[c] = [invoke[c] EXCEPT !.step = "send", !.value = Cheapest(c)]
      BY <1>8 DEF TouchSession, ReadCheapest, TypeOK
    <2>3. invoke'[c].alive = invoke[c].alive
      BY <1>1, <2>2 DEF InvokeState
    <2> QED
      BY <1>1, <2>1, <2>3 DEF GroupOf
  <1>9. CASE (TouchSession(c) \/ ReadCheapest(c)) /\ ~dbUp
    BY <1>6, <1>9 DEF TouchSession, ReadCheapest
  <1>10. CASE SendToCaller(c) /\ invoke[c].alive
    <2> DEFINE v == invoke[c].value
               p == IF v = 0 THEN client[c] ELSE Received(client[c], v)
    <2>1. p \in ClientState
      BY <1>1, PageType DEF InvokeState
    <2>2. client'[c] = [p EXCEPT !.conn = "subscribed"]
      BY <1>10 DEF SendToCaller, TypeOK
    <2>3. client'[c].conn = "subscribed"
      BY <2>1, <2>2 DEF ClientState
    <2> QED
      BY <2>3 DEF GroupOf
  <1>11. CASE SendToCaller(c) /\ ~invoke[c].alive
    <2>1. UNCHANGED <<client, joined>>
      BY <1>11 DEF SendToCaller
    <2> QED
      BY <1>1, <1>11, <2>1 DEF GroupOf
  <1> QED
    BY <1>2, <1>3, <1>4, <1>5, <1>7, <1>8, <1>9, <1>10, <1>11
       DEF User, Handlers, Subscribe

\* Every step keeps the groups.
LEMMA NextGroup == TypeOK /\ LinkInv /\ GroupInv /\ [Next]_vars => GroupInv'
  <1> SUFFICES ASSUME TypeOK, LinkInv, GroupInv, [Next]_vars, NEW c \in Clients
               PROVE  GroupOf(c)'
    BY DEF GroupInv
  <1>1. GroupOf(c) /\ client[c] \in ClientState
    BY DEF GroupInv, TypeOK
  <1>2. ASSUME NEW d \in Clients,
               User(d) \/ Connection(d) \/ Handlers(d) \/ Subscribe(d) \/ Drop(d)
        PROVE  GroupOf(c)'
    <2>1. CASE c = d
      BY <1>2, <2>1, OwnGroup
    <2>2. CASE c # d
      BY <1>2, <2>2, OtherGroups
    <2> QED
      BY <2>1, <2>2
  <1>3. CASE ApiStops
    BY <1>3 DEF ApiStops, GroupOf
  <1>4. ASSUME UNCHANGED <<joined, invoke>>,
               client'[c].conn = client[c].conn, client'[c].polling = client[c].polling
        PROVE  GroupOf(c)'
    BY <1>1, <1>4 DEF GroupOf
  <1>5. CASE PusherSend
    <2>1. client'[c].conn = client[c].conn /\ client'[c].polling = client[c].polling
      BY <1>1, <1>5 DEF PusherSend, Received, TypeOK, ClientState
    <2> QED
      BY <1>4, <1>5, <2>1 DEF PusherSend, server
  <1>6. CASE \/ PusherWakes \/ PusherRoundEnds \/ (PusherQuery /\ ~ApiStops)
             \/ \E d \in Clients : PusherRead(d)
    <2>1. UNCHANGED <<joined, invoke, client>>
      BY <1>6 DEF PusherWakes, PusherRoundEnds, PusherQuery, PusherRead, server
    <2> QED
      BY <1>4, <2>1
  <1>7. CASE Ingest \/ DbCrash \/ DbRecover \/ ApiStart
    BY <1>4, <1>7 DEF Ingest, DbCrash, DbRecover, ApiStart, server
  <1>8. CASE ApiCrash
    BY <1>3, <1>8 DEF ApiCrash
  <1>9. CASE UNCHANGED vars
    BY <1>4, <1>9 DEF vars, server
  <1>10. CASE Pusher
    BY <1>3, <1>5, <1>6, <1>10 DEF Pusher
  <1>11. CASE Environment
    BY <1>2, <1>7, <1>8, <1>11 DEF Environment
  <1> QED
    BY <1>2, <1>9, <1>10, <1>11 DEF Next

\* A page whose connection broke after Subscribe, or was never made, that does
\* not poll and waits for no answer.
Forgotten(c) ==
    /\ client[c].conn \in {"reconnecting", "connected", "closed"}
    /\ ~invoke[c].alive /\ ~client[c].polling
    /\ HttpFree(c)

\* A forgotten page stays so, and shows what it showed, unless its user acts.
LEMMA ForgottenStays ==
    ASSUME TypeOK, GroupInv, [Next]_vars, NEW c \in Clients,
           Forgotten(c), ~User(c)
    PROVE  Forgotten(c)' /\ client'[c].shown = client[c].shown
  <1>1. /\ client[c] \in ClientState /\ invoke[c] \in InvokeState
        /\ http[c].step = "none" /\ c \notin joined
    BY DEF TypeOK, GroupInv, GroupOf, Forgotten, HttpFree
  <1>2. ASSUME client'[c] = client[c], invoke'[c].alive = invoke[c].alive,
               http'[c] = http[c]
        PROVE  Forgotten(c)' /\ client'[c].shown = client[c].shown
    BY <1>2 DEF Forgotten, HttpFree
  <1>3. ASSUME NEW d \in Clients \ {c},
               User(d) \/ Connection(d) \/ Handlers(d) \/ Subscribe(d) \/ Drop(d)
        PROVE  client'[c] = client[c] /\ invoke'[c] = invoke[c] /\ http'[c] = http[c]
    BY <1>3
       DEF User, Submit, Reload, Poll, Expand, GetCheapest, Connection,
           StartConnection, Reconnect, GiveUp, Handlers, SaveSession, HttpTouch,
           HttpRead, HttpGoes, Reply, Subscribe, JoinGroup, TouchSession,
           ReadCheapest, SendToCaller, InvokeFails, Drop, TypeOK, server
  <1>4. CASE Reconnect(c) \/ GiveUp(c) \/ Drop(c)
    <2>1. /\ client'[c].conn \in {"connected", "closed", "reconnecting"}
          /\ client'[c].shown = client[c].shown
          /\ ~client'[c].polling
      BY <1>1, <1>4 DEF Reconnect, GiveUp, Drop, Forgotten, TypeOK, ClientState
    <2>2. ~invoke'[c].alive /\ http' = http
      BY <1>1, <1>4 DEF Reconnect, GiveUp, Drop, Forgotten, TypeOK, InvokeState, server
    <2> QED
      BY <1>1, <2>1, <2>2 DEF Forgotten, HttpFree
  <1>5. CASE Subscribe(c)
    <2>1. UNCHANGED <<client, http>>
      BY <1>5 DEF Subscribe, JoinGroup, TouchSession, ReadCheapest, SendToCaller,
                  InvokeFails, Forgotten
    <2>2. ~invoke'[c].alive
      BY <1>1, <1>5 DEF Subscribe, JoinGroup, TouchSession, ReadCheapest,
                        SendToCaller, InvokeFails, NoInvoke, Forgotten, TypeOK,
                        InvokeState
    <2> QED
      BY <2>1, <2>2 DEF Forgotten, HttpFree
  <1>6. ~StartConnection(c) /\ ~Handlers(c)
    BY <1>1 DEF Forgotten, StartConnection, Handlers, SaveSession, HttpTouch,
                HttpRead, Reply
  <1>7. CASE ApiStops
    <2>1. client'[c] = IF client[c].conn \in {"connected", "subscribed"}
                       THEN [client[c] EXCEPT !.conn = "reconnecting",
                                              !.polling = @ \/ invoke[c].alive]
                       ELSE client[c]
      BY <1>7 DEF ApiStops
    <2>2. /\ client'[c].conn \in {"reconnecting", "closed"}
          /\ client'[c].shown = client[c].shown
          /\ ~client'[c].polling
      BY <1>1, <2>1 DEF Forgotten, ClientState
    <2>3. ~invoke'[c].alive /\ http'[c].step = "none"
      BY <1>1, <1>7 DEF ApiStops, HttpFree, NoInvoke, NoRequest
    <2> QED
      BY <2>2, <2>3 DEF Forgotten, HttpFree
  <1>8. CASE PusherSend
    <2>1. client'[c] = client[c] /\ UNCHANGED <<invoke, http>>
      BY <1>1, <1>8 DEF PusherSend, TypeOK, server
    <2> QED
      BY <1>2, <2>1
  <1>9. CASE Pusher
    <2>1. CASE (PusherQuery /\ ~ApiStops) \/ PusherWakes \/ PusherRoundEnds
      <3>1. UNCHANGED <<client, invoke, http>>
        BY <2>1 DEF PusherWakes, PusherRoundEnds, PusherQuery, server
      <3> QED
        BY <1>2, <3>1
    <2>2. ASSUME NEW d \in Clients, PusherRead(d)
          PROVE  Forgotten(c)' /\ client'[c].shown = client[c].shown
      <3>1. UNCHANGED <<client, invoke, http>>
        BY <2>2 DEF PusherRead, server
      <3> QED
        BY <1>2, <3>1
    <2> QED
      BY <1>7, <1>8, <1>9, <2>1, <2>2 DEF Pusher
  <1>10. CASE Environment
    <2>1. CASE ApiCrash
      BY <1>7, <2>1 DEF ApiCrash
    <2>2. CASE Ingest \/ DbCrash \/ DbRecover \/ ApiStart
      <3>1. UNCHANGED <<client, invoke, http>>
        BY <2>2 DEF Ingest, DbCrash, DbRecover, ApiStart, server
      <3> QED
        BY <1>2, <3>1
    <2>3. ASSUME NEW d \in Clients, Drop(d)
          PROVE  Forgotten(c)' /\ client'[c].shown = client[c].shown
      <3>1. CASE d = c
        BY <1>4, <2>3, <3>1
      <3>2. CASE d # c
        BY <1>2, <1>3, <2>3, <3>2
      <3> QED
        BY <3>1, <3>2
    <2> QED
      BY <1>10, <2>1, <2>2, <2>3 DEF Environment
  <1>11. CASE UNCHANGED vars
    BY <1>2, <1>11 DEF vars, server
  <1>12. ASSUME NEW d \in Clients,
                User(d) \/ Connection(d) \/ Handlers(d) \/ Subscribe(d)
         PROVE  Forgotten(c)' /\ client'[c].shown = client[c].shown
    <2>1. CASE d = c
      BY <1>4, <1>5, <1>6, <1>12, <2>1 DEF Connection
    <2>2. CASE d # c
      BY <1>2, <1>3, <1>12, <2>2
    <2> QED
      BY <2>1, <2>2
  <1> QED
    BY <1>9, <1>10, <1>11, <1>12 DEF Next

\* A page that SignalR has reconnected and that does not poll is in no group; a
\* page that gave up is told by nobody.  In every behaviour, neither the pusher
\* nor the passing of time nor a recovery of the server brings such a page a
\* price again: only its user does (app.js connectSignalR has no onreconnected
\* and no onclose).
THEOREM ForgottenPagesHearNothing ==
    Spec => [][\A c \in Clients :
                 Forgotten(c) /\ ~User(c) =>
                     Forgotten(c)' /\ client'[c].shown = client[c].shown]_vars
  <1>1. Init => GroupInv
    BY DEF Init, GroupInv, GroupOf
  <1>2. TypeOK /\ LinkInv /\ GroupInv /\ [Next]_vars => GroupInv'
    BY NextGroup
  <1>3. TypeOK /\ GroupInv /\ [Next]_vars =>
          [\A c \in Clients :
             Forgotten(c) /\ ~User(c) =>
                 Forgotten(c)' /\ client'[c].shown = client[c].shown]_vars
    BY ForgottenStays
  <1> QED
    BY <1>1, <1>2, <1>3, LinkInvariant, PTL DEF Spec

\* The sessions of a round were seen within the window when it listed them, and
\* no time passes for them before it ends.
ActiveInv ==
    pusher.phase = "push" => \A c \in pusher.todo : age[c] <= Window

\* Ages are numbers.
LEMMA AgeNumbers ==
    ASSUME TypeOK, NEW c \in Clients
    PROVE  age[c] \in Nat /\ Window \in Nat /\ Stale = Window + 1
  BY LivePricesAssumption DEF TypeOK, Stale

\* A step that only refreshes sessions and lists none keeps the listed active.
LEMMA ActiveUntouched ==
    ASSUME TypeOK, ActiveInv,
           pusher'.phase = "push" =>
              pusher.phase = "push" /\ pusher'.todo \subseteq pusher.todo,
           \A c \in Clients : age'[c] \in {age[c], 0}
    PROVE  ActiveInv'
  <1>1. \A c \in Clients : age[c] \in Nat /\ Window \in Nat
    BY AgeNumbers
  <1>2. pusher.todo \subseteq Clients
    BY DEF TypeOK, PusherState
  <1> QED
    BY <1>1, <1>2 DEF ActiveInv

\* Every step keeps the listed active.
LEMMA NextActive == TypeOK /\ ActiveInv /\ [Next]_vars => ActiveInv'
  <1> SUFFICES ASSUME TypeOK, ActiveInv, [Next]_vars PROVE ActiveInv'
    OBVIOUS
  <1>1. pusher \in PusherState
    BY DEF TypeOK
  <1>2. ASSUME NEW c \in Clients,
               User(c) \/ Connection(c) \/ Handlers(c) \/ Subscribe(c) \/ Drop(c)
        PROVE  ActiveInv'
    <2>1. pusher' = pusher
      BY <1>2, OnlyThisPage
    <2>2. \A d \in Clients : age'[d] \in {age[d], 0}
      BY <1>2
         DEF User, Submit, Reload, Poll, Expand, GetCheapest, Connection,
             StartConnection, Reconnect, GiveUp, Handlers, SaveSession, HttpTouch,
             HttpRead, Reply, Subscribe, JoinGroup, TouchSession, ReadCheapest,
             SendToCaller, Drop, TypeOK
    <2> QED
      BY <2>1, <2>2, ActiveUntouched
  <1>3. CASE ApiStops
    BY <1>3 DEF ApiStops, PusherStarts, ActiveInv
  <1>4. CASE PusherWakes \/ PusherRoundEnds
    BY <1>1, <1>4 DEF PusherWakes, PusherRoundEnds, PusherState, ActiveInv
  <1>5. CASE PusherQuery /\ ~ApiStops
    <2>1. PICK edge \in SUBSET {c \in Clients : age[c] = Window} :
               pusher' = [pusher EXCEPT !.phase = "push",
                              !.todo = edge \cup {c \in Clients : age[c] < Window}]
      BY <1>5 DEF PusherQuery
    <2>2. pusher'.todo = edge \cup {c \in Clients : age[c] < Window}
      BY <1>1, <2>1 DEF PusherState
    <2>3. ASSUME NEW c \in pusher'.todo PROVE age[c] <= Window
      BY <2>2, <2>3, AgeNumbers
    <2> QED
      BY <1>5, <2>3 DEF PusherQuery, ActiveInv
  <1>6. CASE PusherSend
    <2>1. /\ pusher'.phase = pusher.phase /\ pusher'.todo \subseteq pusher.todo
          /\ age' = age
      BY <1>1, <1>6 DEF PusherSend, PusherState
    <2> QED
      BY <2>1, ActiveUntouched
  <1>7. ASSUME NEW c \in Clients, PusherRead(c) PROVE ActiveInv'
    <2>1. /\ pusher'.phase = pusher.phase /\ pusher'.todo \subseteq pusher.todo
          /\ age' = age
      BY <1>1, <1>7 DEF PusherRead, PusherState
    <2> QED
      BY <2>1, ActiveUntouched
  <1>8. CASE Pusher
    BY <1>3, <1>4, <1>5, <1>6, <1>7, <1>8 DEF Pusher
  <1>9. CASE Environment
    <2>1. CASE ApiStart
      BY <2>1 DEF ApiStart, PusherStarts, ActiveInv
    <2>2. CASE Ingest \/ DbCrash \/ DbRecover
      BY <2>2, ActiveUntouched DEF Ingest, DbCrash, DbRecover
    <2> QED
      BY <1>2, <1>3, <1>9, <2>1, <2>2 DEF Environment, ApiCrash
  <1>10. CASE UNCHANGED vars
    BY <1>10, ActiveUntouched DEF vars
  <1> QED
    BY <1>2, <1>8, <1>9, <1>10 DEF Next

\* A silent session stays so, and is pushed nothing, unless its page asks.
LEMMA SilentStays ==
    ASSUME TypeOK, ActiveInv, [Next]_vars, NEW c \in Clients,
           Silent(c), ~User(c), ~StartConnection(c)
    PROVE  Silent(c)' /\ pushed'[c] = pushed[c]
  <1>1. /\ age[c] = Stale /\ age[c] \in Nat /\ Window \in Nat /\ ~(age[c] <= Window)
        /\ http[c] \in HttpState /\ invoke[c] \in InvokeState
    BY AgeNumbers DEF Silent, TypeOK
  <1>2. ASSUME age'[c] = age[c], pushed' = pushed,
               http'[c].step = http[c].step \/ http'[c].step \in {"none", "read", "reply", "error"},
               invoke'[c].step = invoke[c].step \/ invoke'[c].step \in {"none", "read", "send"}
        PROVE  Silent(c)' /\ pushed'[c] = pushed[c]
    <2>1. Stale' = Stale
      BY DEF Stale
    <2> QED
      BY <1>2, <2>1 DEF Silent
  <1>3. ASSUME NEW d \in Clients \ {c},
               User(d) \/ Connection(d) \/ Handlers(d) \/ Subscribe(d) \/ Drop(d)
        PROVE  /\ age'[c] = age[c] /\ pushed' = pushed
               /\ http'[c].step = http[c].step /\ invoke'[c].step = invoke[c].step
    BY <1>3
       DEF User, Submit, Reload, Poll, Expand, GetCheapest, Connection,
           StartConnection, Reconnect, GiveUp, Handlers, SaveSession, HttpTouch,
           HttpRead, HttpGoes, Reply, Subscribe, JoinGroup, TouchSession,
           ReadCheapest, SendToCaller, InvokeFails, Drop, TypeOK, server
  <1>4. CASE Reconnect(c) \/ GiveUp(c) \/ Drop(c)
    <2>1. UNCHANGED <<age, pushed, http>> /\ invoke'[c].step = invoke[c].step
      BY <1>1, <1>4 DEF Reconnect, GiveUp, Drop, TypeOK, InvokeState, server
    <2> QED
      BY <1>2, <2>1
  <1>5. CASE Handlers(c)
    <2>1. HttpRead(c) \/ Reply(c)
      BY <1>5 DEF Handlers, SaveSession, HttpTouch, Silent
    <2>2. /\ UNCHANGED <<age, pushed, invoke>>
          /\ http'[c].step \in {"none", "reply", "error"}
      BY <2>1 DEF HttpRead, HttpGoes, Reply, NoRequest, TypeOK
    <2> QED
      BY <1>2, <2>2
  <1>6. CASE Subscribe(c)
    <2>1. ReadCheapest(c) \/ SendToCaller(c)
      BY <1>6 DEF Subscribe, JoinGroup, TouchSession, Silent
    <2>2. UNCHANGED <<age, pushed, http>>
      BY <2>1 DEF ReadCheapest, SendToCaller
    <2>3. \/ invoke' = [invoke EXCEPT ![c] = NoInvoke]
          \/ invoke' = [invoke EXCEPT ![c].step = "send", ![c].value = Cheapest(c)]
      BY <2>1 DEF ReadCheapest, SendToCaller, InvokeFails
    <2>4. invoke'[c].step \in {"none", "send"}
      BY <1>1, <2>3 DEF NoInvoke, InvokeState, TypeOK
    <2> QED
      BY <1>2, <2>2, <2>4
  <1>7. ASSUME NEW d \in Clients,
               User(d) \/ Connection(d) \/ Handlers(d) \/ Subscribe(d) \/ Drop(d)
        PROVE  Silent(c)' /\ pushed'[c] = pushed[c]
    <2>1. CASE d = c
      BY <1>4, <1>5, <1>6, <1>7, <2>1 DEF Connection
    <2>2. CASE d # c
      BY <1>2, <1>3, <1>7, <2>2
    <2> QED
      BY <2>1, <2>2
  <1>8. ASSUME ApiStops, UNCHANGED <<age, pushed>>
        PROVE  Silent(c)' /\ pushed'[c] = pushed[c]
    <2>1. http'[c].step \in {"none", "error"} /\ invoke'[c].step = "none"
      BY <1>8 DEF ApiStops, NoRequest, NoInvoke
    <2> QED
      BY <1>2, <1>8, <2>1
  <1>9. CASE PusherSend
    <2>1. pusher.target # c
      BY <1>1, <1>9 DEF PusherSend, TypeOK, ActiveInv
    <2>2. pushed'[c] = pushed[c] /\ UNCHANGED <<age, http, invoke>>
      BY <1>9, <2>1 DEF PusherSend, TypeOK, server
    <2> QED
      BY <2>2 DEF Silent, Stale
  <1>10. CASE PusherWakes \/ ApiStart
    <2>1. age'[c] = age[c]
      BY <1>1, <1>10 DEF PusherWakes, ApiStart, Older
    <2> QED
      BY <1>2, <1>10, <2>1 DEF PusherWakes, ApiStart, server
  <1>11. CASE \/ PusherRoundEnds \/ (PusherQuery /\ ~ApiStops)
              \/ Ingest \/ DbCrash \/ DbRecover \/ UNCHANGED vars
    <2>1. UNCHANGED <<age, pushed, http, invoke>>
      BY <1>11 DEF PusherRoundEnds, PusherQuery, Ingest, DbCrash, DbRecover, vars, server
    <2> QED
      BY <1>2, <2>1
  <1>12. ASSUME NEW d \in Clients, PusherRead(d)
         PROVE  Silent(c)' /\ pushed'[c] = pushed[c]
    <2>1. UNCHANGED <<age, pushed, http, invoke>>
      BY <1>12 DEF PusherRead, server
    <2> QED
      BY <1>2, <2>1
  <1>13. CASE ApiStops /\ (PusherQuery \/ ApiCrash)
    BY <1>8, <1>13 DEF PusherQuery, ApiCrash
  <1>14. CASE Pusher
    <2>1. CASE PusherQuery
      BY <1>11, <1>13, <2>1
    <2> QED
      BY <1>9, <1>10, <1>11, <1>12, <1>14, <2>1 DEF Pusher
  <1>15. CASE Environment
    BY <1>7, <1>8, <1>10, <1>11, <1>15 DEF Environment, ApiCrash
  <1> QED
    BY <1>7, <1>11, <1>14, <1>15 DEF Next

\* A session that has been silent for longer than the window is pushed nothing,
\* however new the prices and however long its page stays subscribed, until the
\* page asks for something again (the WHERE of PricePusher.PushAllAsync).
THEOREM SilentSessionsArePushedNothing == Spec => SilentSessionsRest
  <1>1. Init => ActiveInv
    BY DEF Init, ActiveInv, PusherStarts
  <1>2. TypeOK /\ ActiveInv /\ [Next]_vars => ActiveInv'
    BY NextActive
  <1>3. TypeOK /\ ActiveInv /\ [Next]_vars =>
          [\A c \in Clients :
             Silent(c) /\ ~User(c) /\ ~StartConnection(c) =>
                 Silent(c)' /\ pushed'[c] = pushed[c]]_vars
    BY SilentStays
  <1> QED
    BY <1>1, <1>2, <1>3, LiveTypes, PTL DEF Spec, SilentSessionsRest

-------------------------------------------------------------------------------
(* Pages that fall behind                                                  *)

\* What the pusher is about to send is as new as all it has sent there before.
PushesRise == pusher.target # Nobody => pusher.value >= pushed[pusher.target]

\* A price is read when the tables are ahead of all that was pushed, and it is
\* sent before the next one is read.
LEMMA NextRises == TypeOK /\ LinkInv /\ PushesRise /\ [Next]_vars => PushesRise'
  <1> SUFFICES ASSUME TypeOK, LinkInv, PushesRise, [Next]_vars PROVE PushesRise'
    OBVIOUS
  <1>1. pusher \in PusherState
    BY DEF TypeOK
  <1>2. ASSUME pushed' = pushed,
               pusher'.target = Nobody \/
                   (pusher'.target = pusher.target /\ pusher'.value = pusher.value)
        PROVE  PushesRise'
    BY <1>2 DEF PushesRise
  <1>3. ASSUME NEW c \in Clients,
               User(c) \/ Connection(c) \/ Handlers(c) \/ Subscribe(c) \/ Drop(c)
        PROVE  PushesRise'
    <2>1. pusher' = pusher /\ pushed' = pushed
      BY <1>3, OnlyThisPage
    <2> QED
      BY <1>2, <2>1
  <1>4. ASSUME NEW c \in Clients, PusherRead(c) PROVE PushesRise'
    <2>1. pushed[c] <= Cheapest(c) /\ pushed[c] \in Int /\ Cheapest(c) \in Int
      BY LinkNumbers DEF LinkInv, LinkOf
    <2>2. pushed' = pushed /\ pusher.target = Nobody
      BY <1>4 DEF PusherRead
    <2>3. \/ pusher' = [pusher EXCEPT !.todo = @ \ {c}]
          \/ pusher' = [pusher EXCEPT !.target = c, !.value = Cheapest(c)]
      BY <1>4 DEF PusherRead
    <2>4. \/ pusher'.target = Nobody
          \/ pusher'.target = c /\ pusher'.value = Cheapest(c)
      BY <1>1, <2>2, <2>3 DEF PusherState
    <2> QED
      BY <2>1, <2>2, <2>4 DEF PushesRise
  <1>5. CASE PusherSend
    <2>1. pusher'.target = Nobody
      BY <1>1, <1>5 DEF PusherSend, PusherState
    <2> QED
      BY <2>1 DEF PushesRise
  <1>6. CASE PusherWakes \/ PusherRoundEnds \/ (PusherQuery /\ ~ApiStops)
    <2>1. /\ pushed' = pushed /\ pusher'.target = pusher.target
          /\ pusher'.value = pusher.value
      BY <1>1, <1>6 DEF PusherWakes, PusherRoundEnds, PusherQuery, PusherState
    <2> QED
      BY <1>2, <2>1
  <1>7. CASE ApiStops \/ ApiStart
    <2>1. pusher' \in {PusherStarts, [PusherStarts EXCEPT !.phase = "off"]}
      BY <1>7 DEF ApiStops, ApiStart
    <2>2. pusher'.target = Nobody
      BY <2>1 DEF PusherStarts
    <2> QED
      BY <2>2 DEF PushesRise
  <1>8. CASE Pusher
    BY <1>4, <1>5, <1>6, <1>7, <1>8 DEF Pusher
  <1>9. CASE Environment
    <2>1. CASE Ingest \/ DbCrash \/ DbRecover
      BY <1>2, <2>1 DEF Ingest, DbCrash, DbRecover
    <2> QED
      BY <1>3, <1>7, <1>9, <2>1 DEF Environment, ApiCrash
  <1>10. CASE UNCHANGED vars
    BY <1>2, <1>10 DEF vars
  <1> QED
    BY <1>3, <1>8, <1>9, <1>10 DEF Next

\* A step that neither changes the price shown, nor pushes, nor makes the page
\* a subscribed one lets no page fall behind.
LEMMA KeepsUp ==
    ASSUME NEW c \in Clients, ~Lags(c), pushed'[c] = pushed[c],
           client'[c].conn = "subscribed" =>
              client[c].conn = "subscribed" /\ client'[c].shown = client[c].shown
    PROVE  ~Lags(c)'
  BY DEF Lags

\* No step but an answer that is shown makes a page fall behind.
LEMMA OnlyAnswersLag ==
    ASSUME TypeOK, LinkInv, PushesRise, [Next]_vars, NEW c \in Clients,
           ~Lags(c), ~SendToCaller(c), ~Reply(c)
    PROVE  ~Lags(c)'
  <1>1. client[c] \in ClientState /\ LinkOf(c)
    BY DEF TypeOK, LinkInv
  <1>2. ASSUME NEW d \in Clients \ {c},
               User(d) \/ Connection(d) \/ Handlers(d) \/ Subscribe(d) \/ Drop(d)
        PROVE  ~Lags(c)'
    <2>1. client'[c] = client[c] /\ pushed' = pushed
      BY <1>2, OnlyThisPage
    <2> QED
      BY <2>1, KeepsUp
  <1>3. CASE User(c) \/ Connection(c) \/ Drop(c)
    <2>1. pushed' = pushed
      BY <1>3 DEF User, Submit, Reload, Poll, Expand, GetCheapest, Connection,
                  StartConnection, Reconnect, GiveUp, Drop
    <2>2. CASE Submit(c)
      <3>1. client'[c] = [client[c] EXCEPT !.page = "posting"]
        BY <2>2 DEF Submit, TypeOK
      <3> QED
        BY <1>1, <2>1, <3>1, KeepsUp DEF ClientState
    <2>3. CASE Reload(c)
      <3>1. client'[c].conn = "none"
        BY <2>3 DEF Reload, SetupPage, TypeOK
      <3> QED
        BY <2>1, <3>1, KeepsUp
    <2>4. CASE Poll(c) \/ Expand(c)
      BY <2>1, <2>4, KeepsUp DEF Poll, Expand, GetCheapest
    <2>5. CASE Connection(c) \/ Drop(c)
      <3>1. client'[c].conn \in {"connected", "closed", "reconnecting"}
        BY <1>1, <2>5 DEF Connection, StartConnection, Reconnect, GiveUp, Drop,
                          TypeOK, ClientState
      <3> QED
        BY <2>1, <3>1, KeepsUp
    <2> QED
      BY <1>3, <2>2, <2>3, <2>4, <2>5 DEF User
  <1>4. CASE Handlers(c)
    <2>1. client' = client /\ pushed' = pushed
      BY <1>4 DEF Handlers, SaveSession, HttpTouch, HttpRead
    <2> QED
      BY <2>1, KeepsUp
  <1>5. CASE Subscribe(c)
    <2>1. pushed' = pushed
      BY <1>5 DEF Subscribe, JoinGroup, TouchSession, ReadCheapest
    <2>2. client' = client \/ client' = [client EXCEPT ![c].polling = TRUE]
      BY <1>5 DEF Subscribe, JoinGroup, TouchSession, ReadCheapest, InvokeFails
    <2>3. client'[c].conn = client[c].conn /\ client'[c].shown = client[c].shown
      BY <1>1, <2>2 DEF TypeOK, ClientState
    <2> QED
      BY <2>1, <2>3, KeepsUp
  <1>6. CASE ApiStops /\ pushed' = pushed
    <2>1. /\ client'[c].conn = client[c].conn /\ client'[c].shown = client[c].shown
          \/ client'[c].conn = "reconnecting"
      BY <1>1, <1>6 DEF ApiStops, ClientState
    <2> QED
      BY <1>6, <2>1, KeepsUp
  <1>7. CASE PusherSend
    <2>1. CASE pusher.target = c
      <3> DEFINE v == pusher.value
      <3>1. v \in Int /\ pushed[c] \in Int /\ v >= pushed[c]
        BY <1>7, <2>1, LinkNumbers DEF PushesRise, PusherSend
      <3>2. pushed'[c] = v
        BY <1>7, <2>1, <3>1 DEF PusherSend, Newer, TypeOK
      <3>3. CASE c \in joined
        <4>1. client'[c] = Received(client[c], v)
          BY <1>7, <2>1, <3>3 DEF PusherSend, TypeOK
        <4>2. client'[c].shown = v
          BY <1>1, <4>1 DEF Received, ClientState
        <4> QED
          BY <3>1, <3>2, <4>2 DEF Lags
      <3>4. CASE c \notin joined
        <4>1. client' = client /\ client[c].conn # "subscribed"
          BY <1>1, <1>7, <2>1, <3>4 DEF PusherSend, LinkOf
        <4> QED
          BY <4>1 DEF Lags
      <3> QED
        BY <3>3, <3>4
    <2>2. CASE pusher.target # c
      <3>1. client'[c] = client[c] /\ pushed'[c] = pushed[c]
        BY <1>7, <2>2 DEF PusherSend, TypeOK
      <3> QED
        BY <3>1, KeepsUp
    <2> QED
      BY <2>1, <2>2
  <1>8. CASE \/ PusherWakes \/ PusherRoundEnds \/ (PusherQuery /\ ~ApiStops)
             \/ Ingest \/ DbCrash \/ DbRecover \/ ApiStart \/ UNCHANGED vars
    <2>1. client' = client /\ pushed' = pushed
      BY <1>8 DEF PusherWakes, PusherRoundEnds, PusherQuery, Ingest, DbCrash,
                  DbRecover, ApiStart, vars
    <2> QED
      BY <2>1, KeepsUp
  <1>9. ASSUME NEW d \in Clients, PusherRead(d) PROVE ~Lags(c)'
    BY <1>9, KeepsUp DEF PusherRead
  <1>10. CASE Pusher
    <2>1. CASE PusherQuery
      BY <1>6, <1>8, <2>1 DEF PusherQuery
    <2> QED
      BY <1>7, <1>8, <1>9, <1>10, <2>1 DEF Pusher
  <1>11. ASSUME NEW d \in Clients,
                User(d) \/ Connection(d) \/ Handlers(d) \/ Subscribe(d) \/ Drop(d)
         PROVE  ~Lags(c)'
    <2>1. CASE d = c
      BY <1>3, <1>4, <1>5, <1>11, <2>1
    <2>2. CASE d # c
      BY <1>2, <1>11, <2>2
    <2> QED
      BY <2>1, <2>2
  <1>12. CASE Environment
    BY <1>6, <1>8, <1>11, <1>12 DEF Environment, ApiCrash
  <1> QED
    BY <1>8, <1>10, <1>11, <1>12 DEF Next

\* A subscribed page that shows less than it was pushed was made to by an answer
\* that came late, of Subscribe or of a poll: pushes come in the order in which
\* they were read and reach every subscribed page, so no push, failure, restart
\* or new connection does it.
THEOREM OnlyAnswersComeLate == Spec => OnlyLateAnswersLag
  <1>1. Init => PushesRise
    BY DEF Init, PushesRise, PusherStarts
  <1>2. TypeOK /\ LinkInv /\ PushesRise /\ [Next]_vars => PushesRise'
    BY NextRises
  <1>3. TypeOK /\ LinkInv /\ PushesRise /\ [Next]_vars =>
          [\A c \in Clients :
             ~Lags(c) /\ Lags(c)' => SendToCaller(c) \/ Reply(c)]_vars
    BY OnlyAnswersLag
  <1> QED
    BY <1>1, <1>2, <1>3, LinkInvariant, PTL DEF Spec, OnlyLateAnswersLag
===============================================================================
