------------------------------ MODULE LivePrices ------------------------------
(***************************************************************************)
(* How a price reaches a page: the REST handlers (StationsController), the *)
(* SignalR hub (PriceHub.Subscribe), the background service PricePusher    *)
(* and StationService under them, with the page (app.js) as their client.  *)
(*                                                                         *)
(* Prices are abstracted to the version of the price tables: "the cheapest *)
(* station" read at version n is n, and 0 stands for "no station found".   *)
(* Rows are never deleted, so a session that has a station keeps one.      *)
(*                                                                         *)
(* Time is counted in periods of the pusher: age[c] is the number of       *)
(* periods since last_seen was refreshed.  Bounds of the model: a client   *)
(* has one session, its REST request is answered before it sends another,  *)
(* and an answer is only lost when the API stops.  A push reaches the      *)
(* connections of its group in one step, and a lost connection is noticed  *)
(* by the server and the page at once.                                     *)
(*                                                                         *)
(* A page only ever calls Subscribe with the session it was given: the id  *)
(* parses and the row is there, so the early return of Subscribe and the   *)
(* null preferences of GetSessionResultAsync do not occur.                 *)
(***************************************************************************)
EXTENDS Integers, FiniteSets

CONSTANTS
    Clients,        \* pages, each with the session it created
    Closed,         \* pages that were closed before; their sessions remain
    Nobody,         \* the pusher is not holding a price
    MaxVersion,     \* bound of the model: versions of the price tables
    FirstVersion,   \* FirstVersion[c]: when the first station near c appears
    Window,         \* periods a session stays active (30 min / 10 min = 3)
    Faults          \* failures the environment may inject

ASSUME LivePricesAssumption ==
    /\ Nobody \notin Clients
    /\ Closed \subseteq Clients
    /\ MaxVersion \in Nat
    /\ FirstVersion \in [Clients -> Nat]
    /\ Window \in Nat \ {0}
    /\ Faults \subseteq {"database", "process", "network"}

VARIABLES
    db,         \* version of the price tables
    dbUp,       \* PostgreSQL answers
    apiUp,      \* the API process runs
    age,        \* user_sessions.last_seen, in periods; Window + 1: out of sight
    joined,     \* clients whose present connection is in its session's group
    http,       \* the REST request of each client, as the server handles it
    invoke,     \* the hub method Subscribe of each client, as the server runs it
    client,     \* the page
    pusher,     \* PricePusher
    pushed,     \* history: newest version pushed to the group of each session
    round       \* history: what the present round of the pusher promised

server == <<joined, http, invoke>>
vars == <<db, dbUp, apiUp, age, joined, http, invoke, client, pusher, pushed, round>>

Version == 0..MaxVersion
Stale == Window + 1

HttpStep == {"none", "save", "touch", "read", "reply", "error"}
InvokeStep == {"none", "join", "touch", "read", "send"}
Page == {"closed", "setup", "posting", "booting", "widget"}
Conn == {"none", "starting", "connected", "subscribed", "reconnecting", "closed"}
Phase == {"off", "startup", "sleep", "query", "push"}

HttpState == [step: HttpStep, value: Version]
InvokeState == [step: InvokeStep, value: Version, alive: BOOLEAN]
ClientState == [page: Page, conn: Conn, polling: BOOLEAN, shown: Version, best: Version]
PusherState == [phase: Phase, todo: SUBSET Clients,
                target: Clients \cup {Nobody}, value: Version]
RoundState == [owed: SUBSET Clients, since: Version]

NoRequest == [step |-> "none", value |-> 0]
NoInvoke == [step |-> "none", value |-> 0, alive |-> FALSE]
SetupPage == [page |-> "setup", conn |-> "none", polling |-> FALSE,
              shown |-> 0, best |-> 0]
ClosedPage == [SetupPage EXCEPT !.page = "closed"]
PusherStarts == [phase |-> "startup", todo |-> {}, target |-> Nobody, value |-> 0]
NoRound == [owed |-> {}, since |-> 0]

\* GetCheapestAsync for the session of c.
Cheapest(c) == IF db >= FirstVersion[c] THEN db ELSE 0

Newer(a, b) == IF a >= b THEN a ELSE b

Init ==
    /\ db = 0
    /\ dbUp = TRUE
    /\ apiUp = TRUE
    /\ age = [c \in Clients |-> IF c \in Closed THEN 0 ELSE Stale]
    /\ joined = {}
    /\ http = [c \in Clients |-> NoRequest]
    /\ invoke = [c \in Clients |-> NoInvoke]
    /\ client = [c \in Clients |-> IF c \in Closed THEN ClosedPage ELSE SetupPage]
    /\ pusher = PusherStarts
    /\ pushed = [c \in Clients |-> 0]
    /\ round = NoRound

-------------------------------------------------------------------------------
(* The page                                                                *)

InWidget(c) == client[c].page = "widget"
HttpFree(c) == http[c].step = "none"

\* Submit of the setup form: POST /api/setup.
Submit(c) ==
    /\ client[c].page = "setup"
    /\ apiUp /\ HttpFree(c)
    /\ client' = [client EXCEPT ![c].page = "posting"]
    /\ http' = [http EXCEPT ![c].step = "save"]
    /\ UNCHANGED <<db, dbUp, apiUp, age, joined, invoke, pusher, pushed, round>>

\* The page is loaded again: its connection is gone, the session in
\* localStorage is checked with GET /api/cheapest, and wiped if that fails.
Reload(c) ==
    /\ InWidget(c)
    /\ HttpFree(c)
    /\ client' = [client EXCEPT ![c] =
                    IF apiUp THEN [SetupPage EXCEPT !.page = "booting"]
                    ELSE SetupPage]
    /\ http' = IF apiUp THEN [http EXCEPT ![c].step = "touch"] ELSE http
    /\ joined' = joined \ {c}
    /\ invoke' = [invoke EXCEPT ![c].alive = FALSE]
    /\ UNCHANGED <<db, dbUp, apiUp, age, pusher, pushed, round>>

\* GET /api/cheapest
GetCheapest(c) ==
    /\ InWidget(c)
    /\ apiUp /\ HttpFree(c)
    /\ http' = [http EXCEPT ![c].step = "touch"]
    /\ UNCHANGED <<db, dbUp, apiUp, age, joined, invoke, client, pusher, pushed, round>>

\* The timer of startPolling.
Poll(c) == client[c].polling /\ GetCheapest(c)

\* The button of the "no result" card: the same request, the same radius.
Expand(c) == client[c].shown = 0 /\ GetCheapest(c)

\* connection.start() and invoke("Subscribe"), or the polling fallback.  A
\* Subscribe the server still runs for a connection of the page before is not
\* followed further: all it could do is refresh last_seen once more.
StartConnection(c) ==
    /\ client[c].conn = "starting"
    /\ \/ /\ apiUp
          /\ client' = [client EXCEPT ![c].conn = "connected"]
          /\ invoke' = [invoke EXCEPT ![c] = [NoInvoke EXCEPT !.step = "join",
                                                              !.alive = TRUE]]
       \/ /\ ~apiUp \/ "network" \in Faults
          /\ client' = [client EXCEPT ![c].conn = "closed", ![c].polling = TRUE]
          /\ UNCHANGED invoke
    /\ UNCHANGED <<db, dbUp, apiUp, age, joined, http, pusher, pushed, round>>

\* withAutomaticReconnect gets a new connection, which is in no group: the
\* page has no onreconnected handler that would Subscribe again.
Reconnect(c) ==
    /\ client[c].conn = "reconnecting"
    /\ apiUp
    /\ client' = [client EXCEPT ![c].conn = "connected"]
    /\ UNCHANGED <<db, dbUp, apiUp, age, server, pusher, pushed, round>>

\* Four attempts have failed.
GiveUp(c) ==
    /\ "network" \in Faults \/ ~apiUp
    /\ client[c].conn = "reconnecting"
    /\ client' = [client EXCEPT ![c].conn = "closed"]
    /\ UNCHANGED <<db, dbUp, apiUp, age, server, pusher, pushed, round>>

-------------------------------------------------------------------------------
(* REST handlers: Setup (save, read) and Cheapest (touch, read)            *)

HttpGoes(c, step, value) ==
    http' = [http EXCEPT ![c] = [step |-> step, value |-> value]]

SaveSession(c) ==
    /\ http[c].step = "save"
    /\ HttpGoes(c, IF dbUp THEN "read" ELSE "error", 0)
    /\ age' = IF dbUp THEN [age EXCEPT ![c] = 0] ELSE age
    /\ UNCHANGED <<db, dbUp, apiUp, joined, invoke, client, pusher, pushed, round>>

HttpTouch(c) ==
    /\ http[c].step = "touch"
    /\ HttpGoes(c, IF dbUp THEN "read" ELSE "error", 0)
    /\ age' = IF dbUp THEN [age EXCEPT ![c] = 0] ELSE age
    /\ UNCHANGED <<db, dbUp, apiUp, joined, invoke, client, pusher, pushed, round>>

HttpRead(c) ==
    /\ http[c].step = "read"
    /\ HttpGoes(c, IF dbUp THEN "reply" ELSE "error", IF dbUp THEN Cheapest(c) ELSE 0)
    /\ UNCHANGED <<db, dbUp, apiUp, age, joined, invoke, client, pusher, pushed, round>>

\* Mutant: a poll only fills an empty card.
AfterReplyKeepsFirst(c) ==
    LET v == http[c].value
        ok == http[c].step = "reply"
        opened == [SetupPage EXCEPT !.page = "widget", !.conn = "starting",
                                    !.shown = v, !.best = v]
    IN  CASE client[c].page = "posting" -> IF ok THEN opened ELSE SetupPage
          [] client[c].page = "booting" -> IF ok /\ v # 0 THEN opened ELSE SetupPage
          [] client[c].page = "widget" ->
                IF ok /\ v # 0 /\ client[c].shown = 0
                THEN [client[c] EXCEPT !.shown = v, !.best = Newer(@, v)]
                ELSE client[c]
          [] OTHER -> client[c]

\* What the page does with the answer.  Setup shows the price, or "no result",
\* and connects; a failed setup stays on the form.  At boot anything but a
\* price (500, or 404 when no station is found) wipes the stored session.
\* A poll that fails is ignored.
AfterReply(c) ==
    LET v == http[c].value
        ok == http[c].step = "reply"
        opened == [SetupPage EXCEPT !.page = "widget", !.conn = "starting",
                                    !.shown = v, !.best = v]
    IN  CASE client[c].page = "posting" -> IF ok THEN opened ELSE SetupPage
          [] client[c].page = "booting" -> IF ok /\ v # 0 THEN opened ELSE SetupPage
          [] client[c].page = "widget" ->
                IF ok /\ v # 0
                THEN [client[c] EXCEPT !.shown = v, !.best = Newer(@, v)]
                ELSE client[c]
          [] OTHER -> client[c]

Reply(c) ==
    /\ http[c].step \in {"reply", "error"}
    /\ client' = [client EXCEPT ![c] = AfterReply(c)]
    /\ http' = [http EXCEPT ![c] = NoRequest]
    /\ UNCHANGED <<db, dbUp, apiUp, age, joined, invoke, pusher, pushed, round>>

-------------------------------------------------------------------------------
(* PriceHub.Subscribe: join the group, GetSessionResult, send to the caller *)

\* A failed invocation rejects the page's promise: it falls back to polling,
\* in the group or not.
InvokeFails(c) ==
    /\ invoke' = [invoke EXCEPT ![c] = NoInvoke]
    /\ client' = IF invoke[c].alive
                 THEN [client EXCEPT ![c].polling = TRUE]
                 ELSE client

\* Mutant: the connection joins a group the pusher does not send to.
JoinOtherGroup(c) ==
    /\ invoke[c].step = "join"
    /\ invoke' = [invoke EXCEPT ![c].step = "touch"]
    /\ UNCHANGED <<db, dbUp, apiUp, age, joined, http, client, pusher, pushed, round>>

JoinGroup(c) ==
    /\ invoke[c].step = "join"
    /\ joined' = IF invoke[c].alive THEN joined \cup {c} ELSE joined
    /\ invoke' = [invoke EXCEPT ![c].step = "touch"]
    /\ UNCHANGED <<db, dbUp, apiUp, age, http, client, pusher, pushed, round>>

TouchSession(c) ==
    /\ invoke[c].step = "touch"
    /\ IF dbUp
       THEN /\ age' = [age EXCEPT ![c] = 0]
            /\ invoke' = [invoke EXCEPT ![c].step = "read"]
            /\ UNCHANGED client
       ELSE InvokeFails(c) /\ UNCHANGED age
    /\ UNCHANGED <<db, dbUp, apiUp, joined, http, pusher, pushed, round>>

ReadCheapest(c) ==
    /\ invoke[c].step = "read"
    /\ IF dbUp
       THEN /\ invoke' = [invoke EXCEPT ![c].step = "send", ![c].value = Cheapest(c)]
            /\ UNCHANGED client
       ELSE InvokeFails(c)
    /\ UNCHANGED <<db, dbUp, apiUp, age, joined, http, pusher, pushed, round>>

\* PriceUpdate on the page: renderResult.
Received(p, v) == [p EXCEPT !.shown = v, !.best = Newer(@, v)]

SendToCaller(c) ==
    /\ invoke[c].step = "send"
    /\ LET v == invoke[c].value
           p == IF v = 0 THEN client[c] ELSE Received(client[c], v)
       IN  client' = IF invoke[c].alive
                     THEN [client EXCEPT ![c] = [p EXCEPT !.conn = "subscribed"]]
                     ELSE client
    /\ invoke' = [invoke EXCEPT ![c] = NoInvoke]
    /\ UNCHANGED <<db, dbUp, apiUp, age, joined, http, pusher, pushed, round>>

-------------------------------------------------------------------------------
(* PricePusher                                                             *)

\* One more period without a sign of the session, up to the point where more
\* makes no difference.
Older(a) == IF a = Stale THEN Stale ELSE a + 1

\* The delay is over: five seconds at start-up, a whole period afterwards.
PusherWakes ==
    /\ pusher.phase \in {"startup", "sleep"}
    /\ pusher' = [pusher EXCEPT !.phase = "query"]
    /\ age' = IF pusher.phase = "sleep"
              THEN [c \in Clients |-> Older(age[c])]
              ELSE age
    /\ UNCHANGED <<db, dbUp, apiUp, server, client, pushed, round>>

\* The API process ends: its handlers, groups and connections are gone.  The
\* page sees its request fail, its invocation cancelled, its connection lost.
ApiStops ==
    /\ apiUp' = FALSE
    /\ pusher' = [PusherStarts EXCEPT !.phase = "off"]
    /\ joined' = {}
    /\ invoke' = [c \in Clients |-> NoInvoke]
    /\ http' = [c \in Clients |-> IF HttpFree(c) THEN NoRequest
                                  ELSE [step |-> "error", value |-> 0]]
    /\ client' = [c \in Clients |->
                    IF client[c].conn \in {"connected", "subscribed"}
                    THEN [client[c] EXCEPT !.conn = "reconnecting",
                                           !.polling = @ \/ invoke[c].alive]
                    ELSE client[c]]
    /\ round' = NoRound

\* Mutant: the exception ends the background service but not the host.
PusherQueryIgnored ==
    /\ pusher.phase = "query"
    /\ IF dbUp
       THEN \E edge \in SUBSET {c \in Clients : age[c] = Window} :
              LET listed == edge \cup {c \in Clients : age[c] < Window}
              IN  /\ pusher' = [pusher EXCEPT !.phase = "push", !.todo = listed]
                  /\ round' = [owed |-> listed, since |-> db]
       ELSE /\ pusher' = [pusher EXCEPT !.phase = "off"]
            /\ UNCHANGED round
    /\ UNCHANGED <<db, dbUp, apiUp, age, server, client, pushed>>

\* Mutant: the query forgets its WHERE and lists every session.
PusherQueryAll ==
    /\ pusher.phase = "query"
    /\ \/ /\ dbUp
          /\ pusher' = [pusher EXCEPT !.phase = "push", !.todo = Clients]
          /\ round' = [owed |-> Clients, since |-> db]
          /\ UNCHANGED <<apiUp, server, client>>
       \/ ~dbUp /\ ApiStops
    /\ UNCHANGED <<db, dbUp, age, pushed>>

\* The sessions seen in the last thirty minutes; at exactly Window periods
\* last_seen may be on either side.  The query is outside the try block: an
\* exception ends ExecuteAsync, and with it the host.
PusherQuery ==
    /\ pusher.phase = "query"
    /\ \/ /\ dbUp
          /\ \E edge \in SUBSET {c \in Clients : age[c] = Window} :
               LET listed == edge \cup {c \in Clients : age[c] < Window}
               IN  /\ pusher' = [pusher EXCEPT !.phase = "push", !.todo = listed]
                   /\ round' = [owed |-> listed, since |-> db]
          /\ UNCHANGED <<apiUp, server, client>>
       \/ ~dbUp /\ ApiStops
    /\ UNCHANGED <<db, dbUp, age, pushed>>

\* Mutant: a session without a station ends the round (return for continue).
PusherReadReturns(c) ==
    /\ pusher.phase = "push" /\ pusher.target = Nobody
    /\ c \in pusher.todo
    /\ LET v == IF dbUp THEN Cheapest(c) ELSE 0
       IN  pusher' = IF v = 0
                     THEN [pusher EXCEPT !.todo = {}]
                     ELSE [pusher EXCEPT !.target = c, !.value = v]
    /\ round' = [round EXCEPT !.owed = IF dbUp THEN @ ELSE @ \ {c}]
    /\ UNCHANGED <<db, dbUp, apiUp, age, server, client, pushed>>

\* Mutant: the check for null is missing.
PusherReadUnchecked(c) ==
    /\ pusher.phase = "push" /\ pusher.target = Nobody
    /\ c \in pusher.todo
    /\ pusher' = IF dbUp
                 THEN [pusher EXCEPT !.target = c, !.value = Cheapest(c)]
                 ELSE [pusher EXCEPT !.todo = @ \ {c}]
    /\ round' = [round EXCEPT !.owed = IF dbUp THEN @ ELSE @ \ {c}]
    /\ UNCHANGED <<db, dbUp, apiUp, age, server, client, pushed>>

\* The cheapest station of the next session; none, or an exception, and the
\* loop goes on with another session.
PusherRead(c) ==
    /\ pusher.phase = "push" /\ pusher.target = Nobody
    /\ c \in pusher.todo
    /\ LET v == IF dbUp THEN Cheapest(c) ELSE 0
       IN  pusher' = IF v = 0
                     THEN [pusher EXCEPT !.todo = @ \ {c}]
                     ELSE [pusher EXCEPT !.target = c, !.value = v]
    /\ round' = [round EXCEPT !.owed = IF dbUp THEN @ ELSE @ \ {c}]
    /\ UNCHANGED <<db, dbUp, apiUp, age, server, client, pushed>>

\* Clients.Group(session).SendAsync reaches the connections in the group.
PusherSend ==
    /\ pusher.target # Nobody
    /\ LET c == pusher.target
           v == pusher.value
       IN  /\ pushed' = [pushed EXCEPT ![c] = Newer(@, v)]
           /\ client' = IF c \in joined
                        THEN [client EXCEPT ![c] = Received(client[c], v)]
                        ELSE client
           /\ pusher' = [pusher EXCEPT !.todo = @ \ {c}, !.target = Nobody,
                                       !.value = 0]
    /\ UNCHANGED <<db, dbUp, apiUp, age, server, round>>

PusherRoundEnds ==
    /\ pusher.phase = "push" /\ pusher.todo = {}
    /\ pusher' = [pusher EXCEPT !.phase = "sleep"]
    /\ round' = NoRound
    /\ UNCHANGED <<db, dbUp, apiUp, age, server, client, pushed>>

-------------------------------------------------------------------------------
(* The environment                                                         *)

\* The ingestion service commits a feed.
Ingest ==
    /\ dbUp /\ db < MaxVersion
    /\ db' = db + 1
    /\ UNCHANGED <<dbUp, apiUp, age, server, client, pusher, pushed, round>>

DbCrash ==
    /\ "database" \in Faults
    /\ dbUp /\ dbUp' = FALSE
    /\ UNCHANGED <<db, apiUp, age, server, client, pusher, pushed, round>>

DbRecover ==
    /\ ~dbUp /\ dbUp' = TRUE
    /\ UNCHANGED <<db, apiUp, age, server, client, pusher, pushed, round>>

ApiCrash ==
    /\ "process" \in Faults
    /\ apiUp /\ ApiStops
    /\ UNCHANGED <<db, dbUp, age, pushed>>

\* restart: unless-stopped.  Sessions are in the database, and may have aged.
ApiStart ==
    /\ ~apiUp
    /\ apiUp' = TRUE
    /\ pusher' = PusherStarts
    /\ \E aged \in SUBSET Clients :
          age' = [c \in Clients |-> IF c \in aged THEN Older(age[c]) ELSE age[c]]
    /\ UNCHANGED <<db, dbUp, server, client, pushed, round>>

\* The transport of one page is lost.  A pending Subscribe goes on at the
\* server, for a connection that no longer exists.
Drop(c) ==
    /\ "network" \in Faults
    /\ client[c].conn \in {"connected", "subscribed"}
    /\ joined' = joined \ {c}
    /\ invoke' = [invoke EXCEPT ![c].alive = FALSE]
    /\ client' = [client EXCEPT ![c].conn = "reconnecting",
                                ![c].polling = @ \/ invoke[c].alive]
    /\ UNCHANGED <<db, dbUp, apiUp, age, http, pusher, pushed, round>>

-------------------------------------------------------------------------------

Handlers(c) ==
    \/ SaveSession(c) \/ HttpTouch(c) \/ HttpRead(c) \/ Reply(c)

Subscribe(c) ==
    \/ JoinGroup(c) \/ TouchSession(c) \/ ReadCheapest(c) \/ SendToCaller(c)

User(c) == Submit(c) \/ Reload(c) \/ Poll(c) \/ Expand(c)
Connection(c) == StartConnection(c) \/ Reconnect(c) \/ GiveUp(c)

Pusher ==
    \/ PusherWakes \/ PusherQuery \/ PusherSend \/ PusherRoundEnds
    \/ \E c \in Clients : PusherRead(c)

Environment ==
    \/ Ingest \/ DbCrash \/ DbRecover \/ ApiCrash \/ ApiStart
    \/ \E c \in Clients : Drop(c)

Next ==
    \/ \E c \in Clients :
          User(c) \/ Connection(c) \/ Handlers(c) \/ Subscribe(c)
    \/ Pusher
    \/ Environment

Spec == Init /\ [][Next]_vars

(***************************************************************************)
(* Fairness.  The API executes its handlers and its background service;    *)
(* Docker restarts it; the page goes on with start() and with the timer of *)
(* its polling.  The timer fires whenever no earlier poll is pending and   *)
(* the API is up, again and again, hence SF.  Users, the feed and failures *)
(* owe nothing.                                                            *)
(***************************************************************************)
Fairness ==
    /\ WF_vars(Pusher)
    /\ WF_vars(ApiStart)
    /\ \A c \in Clients \ Closed :
        /\ WF_vars(Handlers(c))
        /\ WF_vars(Subscribe(c))
        /\ WF_vars(Connection(c))
        /\ SF_vars(Poll(c))

FairSpec == Spec /\ Fairness

-------------------------------------------------------------------------------
(* Properties                                                              *)

\* Types, and that the pusher holds no empty result, but a price for a session it
\* still serves.
TypeOK ==
    /\ db \in Version
    /\ dbUp \in BOOLEAN
    /\ apiUp \in BOOLEAN
    /\ age \in [Clients -> 0..Stale]
    /\ joined \subseteq Clients
    /\ http \in [Clients -> HttpState]
    /\ invoke \in [Clients -> InvokeState]
    /\ client \in [Clients -> ClientState]
    /\ pusher \in PusherState
    /\ pushed \in [Clients -> Version]
    /\ round \in RoundState
    /\ pusher.target # Nobody =>
          /\ pusher.phase = "push" /\ pusher.target \in pusher.todo
          /\ pusher.value # 0

\* No push falls between joining the group and reading the price: a page whose
\* Subscribe has returned has received a price at least as new as any that
\* was pushed to its session, before, during or after (PriceHub.Subscribe).
SubscriberMissesNoPush ==
    \A c \in Clients :
        client[c].conn = "subscribed" => client[c].best >= pushed[c]

\* A round pushes to every session it listed a price no older than the round,
\* except where its own query failed: another session's exception, or one
\* without a station, does not end the loop (PricePusher.PushAllAsync).
RoundServesEverySession ==
    pusher.phase = "push" /\ pusher.todo = {} =>
        \A c \in round.owed :
            round.since >= FirstVersion[c] => pushed[c] >= round.since

\* A page that follows its session and shows less than it was pushed.
Lags(c) == client[c].conn = "subscribed" /\ client[c].shown < pushed[c]

\* A page only falls behind by an answer that was read before a push and shown
\* after it, that of Subscribe or of a poll; never by a push, a connection, a
\* failure or a restart (PriceHub.Subscribe, PricePusher, app.js renderResult).
OnlyLateAnswersLag ==
    [][\A c \in Clients :
          ~Lags(c) /\ Lags(c)' => SendToCaller(c) \/ Reply(c)]_vars

\* A session out of the window with no request on its way that refreshes it.
Silent(c) ==
    /\ age[c] = Stale
    /\ http[c].step \notin {"save", "touch"}
    /\ invoke[c].step \notin {"join", "touch"}

\* A session nobody has asked for within the window, that of a page which was
\* closed or of a setup that failed half-way included, is pushed nothing until
\* its page asks again: a round lists nobody who is silent by the time it sends
\* (the WHERE of PricePusher.PushAllAsync, last_seen in StationService).
SilentSessionsRest ==
    [][\A c \in Clients :
          Silent(c) /\ ~User(c) /\ ~StartConnection(c) =>
              Silent(c)' /\ pushed'[c] = pushed[c]]_vars

\* Pages that were told they follow their session, the newest price each page
\* has received, and the sessions the present round still has to serve.
Watching == {c \in Clients : client[c].conn = "subscribed"}
Known == [c \in Clients |-> client[c].best]
StillOwed ==
    {c \in pusher.todo \cap round.owed :
        /\ pusher.phase = "push"
        /\ round.since > 0 /\ round.since >= FirstVersion[c]}

Board ==
    INSTANCE PriceBoard
    WITH Sessions <- Clients, tables <- db, up <- dbUp, watching <- Watching,
         known <- Known, owed <- StillOwed, since <- round.since

\* Whatever happens to requests, groups, connections and ages, a round serves
\* whom it lists, a page that was told so misses no push, and no price is told
\* that was not in the tables (PricePusher.PushAllAsync, PriceHub.Subscribe).
PromisesAreKept == Board!Spec

\* Once the database stays up and the process is no longer killed, rounds take
\* place for ever: an error of the query ends the host, and the restarted host
\* runs the service again (PricePusher.ExecuteAsync, docker-compose.yml).
RoundsGoOn ==
    <>[]dbUp /\ <>[][~ApiCrash]_vars => []<>(pusher.phase = "push")

\* A page that has fallen back to polling shows the newest price in the end,
\* late answers and pushes notwithstanding (app.js startPolling).
PollingClientCatchesUp ==
    \A c \in Clients \ Closed :
        <>[](dbUp /\ apiUp /\ InWidget(c) /\ client[c].polling)
            => <>[](client[c].shown = Cheapest(c))

\* docs/architecture.md: a PriceUpdate is pushed every ten minutes "sans que
\* l'utilisateur ne fasse rien": a subscribed page gets the newest price.
PassiveClientIsPushed ==
    \A c \in Clients :
        <>[](dbUp /\ apiUp /\ client[c].conn = "subscribed")
            => <>[](client[c].shown = Cheapest(c))

\* docs/architecture.md: the page receives its prices by push: a connection
\* that is kept is sooner or later in the group of its session.
ReconnectedClientRejoins ==
    \A c \in Clients :
        client[c].conn = "connected"
            ~> c \in joined \/ client[c].conn # "connected"

\* PriceHub.Subscribe, "immediately push the current best price": what a
\* subscribed page shows is at least what the pusher last sent it.
SubscribeShowsCurrent ==
    \A c \in Clients :
        client[c].conn = "subscribed" => client[c].shown >= pushed[c]
===============================================================================
