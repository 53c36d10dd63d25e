# Formal models of MawaqitduGazole

The program shows the cheapest fuel near the user.  A Go service copies the
government's open-data feed into PostgreSQL every ten minutes, a C# API answers
REST requests and pushes prices over SignalR, and a page in plain JavaScript
shows them.  This directory holds TLA+ models of the parts whose behaviour
depends on the order of events, the TLC runs that check them, and TLAPS proofs of
their safety properties, their action properties and their refinements.

Paths below are relative to the root of the repository.

## 1. The system

| Component | Code | State | Operations |
|---|---|---|---|
| Ingestion: start-up, cron, run | `ingestion/main.go`, `internal/store/store.go` | connection attempts, goroutines inside `run()`, one transaction each | connect with 15 attempts, first run, cron every 10 min, fetch, parse, upsert, log |
| Fetcher | `internal/fetcher/fetcher.go` | none | download the ZIP, decode the XML entry |
| Parser | `internal/parser/parser.go` | none | filter and convert stations and prices |
| Log stream of the ingestion | `ingestion/main.go` (`logHub`) | map of channels, mutex | subscribe, unsubscribe, publish, SSE handler |
| Database | `database/init.sql` | `gas_stations`, `fuel_prices`, `user_sessions`, `ingestion_log` | upserts, row locks, queries |
| REST API | `api/Controllers`, `api/Services/StationService.cs` | none of its own | Setup, Cheapest, Nearby, Meta |
| SignalR hub | `api/Hubs/PriceHub.cs` | groups of connections | Subscribe |
| PricePusher | `api/Services/PricePusher.cs` | position in its round | every 10 min: read the active sessions, read and send the price of each |
| Log stream of the API | `api/Services/LogBroadcaster.cs`, `api/Logging`, `api/Program.cs` | channels of a broadcaster, which of two containers it is in | publish, subscribe, unsubscribe |
| Page: form | `frontend/app.js` | fuel, position, suggestions and their timer, submit button | choose a fuel, locate, type, search, pick, submit |
| Page: widget | `frontend/app.js` | stored session and preferences, card, list of the five cheapest, connection, polling intervals | boot, connect, reconnect, poll, expand, pick a row, reset |
| Infrastructure | `docker-compose.yml` | running containers | `restart: unless-stopped` |

How they interact.  The ingestion and the API share nothing but the database:
the commit of a run is the only event the API can notice, and the pusher does
not wait for it, it has a clock of its own.  The API and the page interact by
REST requests and answers, and by messages on a connection that is in the group
of its session; handlers, hub methods and the pusher are concurrent and each of
their queries is a step of its own.  The process-wide logger is shared by all
goroutines of the ingestion and is coupled to the log streams by `logHub`.

What is hard here:

* runs that outlast the cron's period overlap, lock rows against each other and
  may commit in another order than they fetched;
* a statement that fails inside a transaction whose error is "skipped";
* crashes of PostgreSQL, of either service, and a commit whose acknowledgement
  is lost;
* a hub method and the pusher reading and sending prices at the same time;
* a session that ages while its page is connected, a connection that comes back
  under another identity, a background service whose exception ends its host;
* a channel closed outside the lock under which it is sent to;
* a page whose boot check, submits, searches, position, pushes and polls answer in
  any order, over globals and two keys of localStorage that each handler reads
  when its answer is there, and a reset that stops the latest connection only.

What makes each part correct, in a sentence: readers see whole published feeds
only and no run waits for ever (ingestion); no push is missed and no session is
starved by another (live prices); a slow browser costs lines, never progress
(log streams); form, screen and stored session agree, and the page hears of its
session and of no other (page).
`PROJECT.json` lists the hazards line by line, with the properties for each.

## 2. The modules

| Module | Models | Status |
|---|---|---|
| `FeedData` | parsed batches, the effect of an upsert on the two tables | done |
| `PriceStore` | what the ingestion promises to readers of the database (abstract) | done |
| `Ingestion`, `MCIngestion` | the ingestion service with its transactions | done |
| `IngestionProofs` | theorems about `Ingestion` | done |
| `IngestionDeadlock` | theorems about what overlapping runs wait for | done |
| `PriceBoard` | what the API promises to the sessions that follow a price (abstract) | done |
| `LivePrices`, `MCLivePrices` | REST handlers, hub, pusher, page as client | done |
| `LivePricesProofs` | theorems about `LivePrices` | done |
| `LineStream` | what the log stream of the ingestion promises (abstract) | done |
| `LogHub` | the log stream of the ingestion | done |
| `LogHubProofs` | theorems about `LogHub` | done |
| `LogBroadcast` | the log stream of the API and its wiring | done |
| `LogBroadcastProofs` | theorem about `LogBroadcast` | done |
| `PageSession` | what the page promises about the stored session (abstract) | done |
| `SetupForm` | the form, and what localStorage keeps of it | done |
| `SetupFormProofs` | theorems about `SetupForm` | done |
| `Widget` | the page once it is set up: connection, polling, card, list, reset | done |
| `WidgetProofs` | theorems about `Widget` | done |

### `FeedData` and `PriceStore`

A price is abstracted to the number of the feed that published it: what can go
wrong with a price is that it is an old one, another station's or another
fuel's, and the number tells these apart.  An `Entry` is a parsed station with a
non-empty set of fuels (the parser drops the others) and the statement, if any,
that PostgreSQL refuses for it.  `Upserted` is the effect of
`INSERT ... ON CONFLICT DO UPDATE` for the first n entries of a batch.

`PriceStore` is the abstract specification.  It has three actions: a feed is
published, a whole published feed without refused rows is applied, a feed that
is applied is reported.  Any published feed may be applied, also an older one
after a newer one, because that is what overlapping runs do.

### `Ingestion`

| State | Code |
|---|---|
| `svc`, `attempts` | progress of `main()`: connection loop, first `run()`, cron; `exited` after `log.Fatalf` or a crash |
| `run[r]` | a goroutine in `run()`: phase, feed fetched, index of the upsert loop (`next`), `stationCount` (`stations`), state of the transaction (`tx`), whether the commit was acknowledged (`ok`) |
| `dbUp`, `published` | the environment: PostgreSQL, the feeds put online |
| `stationRows`, `prices`, `log` | the committed tables |
| `applied`, `overtakenBy` | history, read by no guard |

One action per step that touches something shared: `Connect`, `ConnectFails`,
`StartScheduler`, `CronTick`, `FetchAndParse`, `FetchOrParseFails`, `BeginTx`,
one upsert step per station (`UpsertStation`, `RejectRow`, `SkipRow`,
`DeadlockVictim`), the three ends of a transaction (`Commit`,
`CommitUnacknowledged`, `CommitFails`), `LogIngestion`, and the environment.
The station row and its price rows are one step: the price rows of a station are
only written under the lock of its station row.  A transaction that PostgreSQL
has aborted keeps its pooled connection until `Commit` or `Rollback`, and
releases its row locks at once; both matter for the liveness runs.
`OnWaitCycle` is PostgreSQL's deadlock detector: `DeadlockVictim` is enabled for a
run that waits, through the holders of the rows, for itself.

`Waits(r)` is a run that can do nothing by itself: it is at `begin` or `log` with no
free connection in the pool, or at a row that another open transaction holds.
`SomeRunGoesOn` says that the runs in flight are never all in such a wait unless one
of them is on a cycle, which is the detector's business.  `DeadlockNeedsTwoFeeds` says
what that takes: runs of one feed go through its stations in the same order, because
`Parse` returns a slice and `UpsertStations` ranges over it; were the stations kept in
a Go map, two overlapping runs of one feed could already lose it.  `RowsAreKept` is
what the path to the pages counts on: a station or a price that is in the tables
stays there.

### `PriceBoard` and `LivePrices`

`PriceBoard` is the abstract specification: tables that can be read or not, sessions
that are watched by a page which was told so, the newest price each page has
received, and the sessions the present round still owes a price.  A push reaches
the page of a session that is watched; a page is told that it follows its session
only with a price as new as any pushed; a session leaves a round by being served, or
excused because the database failed; every price told was in the tables.  The
refinement maps `watching` to the pages whose Subscribe has returned, `owed` to the
sessions of `pusher.todo` that had a station when the round began and whose query has
not failed.  `http`, `invoke`, `joined` and `age` have no counterpart: they are the
means.

| State | Code |
|---|---|
| `db` | version of the price tables; the cheapest station read at version n is n, 0 is "none" |
| `age[c]` | `last_seen` of the session, in periods of the pusher; `Window` is the 30 minutes of `PushAllAsync` |
| `joined` | pages whose present connection is in the group of their session |
| `http[c]`, `invoke[c]` | the REST request and the Subscribe of a page at the server, one step per query |
| `client[c]` | page, connection, polling, `shown` (what is on screen), `best` (history: newest shown) |
| `pusher` | phase of `PricePusher`, sessions of the round not served yet, price read and not sent yet |
| `pushed`, `round` | history |

`invoke[c].alive` is FALSE when the connection that invoked Subscribe is gone:
the method goes on at the server, joins nothing and sends to nobody.
`PusherQuery` with the database down is the exception outside the `try`: it ends
`ExecuteAsync`, the default of ASP.NET Core then stops the host (`ApiStops`), and
Docker restarts it (`ApiStart`).  `PusherRead` is inside the `try`.

Pages in `Closed` were closed before: their sessions are still in the table and
are served by the pusher as long as they are young, and nobody listens.

Abstractions: a page has one session, its REST request is answered before it
sends another, an answer is lost only when the API stops, and reset is not
modelled; what a page does with several sessions is in `Widget`.  A push reaches
all connections of its group in one step, and server and page notice a lost
connection at once: between the two a push would be sent to nobody, as it is after
`Drop`.  A Subscribe that still runs for a connection of a page that was reloaded is
given up when the new page connects; all it could still do is refresh `last_seen`
once more.  A page subscribes only with a session it was given, so the two early
returns for an id that does not parse and a row that is not there
(`PriceHub.cs:23`, `StationService.cs:122`) do not occur.  At exactly `Window` periods
`last_seen` may be on either side of the limit, so both are possible.

### `LineStream`, `LogHub` and `LogBroadcast`

`LineStream` has neither channels nor a mutex: a line is offered to every stream that
is served before the next one is logged, a stream takes it unless it is a whole
buffer behind, and sends what it took in order.  `LogHub` maps to it with the lines
written, followed by those in the channel, for `taken`.

`LogHub` is at the grain of the mutex: `Publish` takes it, `Offer` is one
iteration of the loop over the channels, `PublishReturns` releases it; `Delete` is
the half of `unsubscribe` under the mutex, `Close` the half outside it.  Lines
are numbered; `since` and `filled` are history.  `LogBroadcast` models the two
containers that `Program.cs` makes, and which broadcaster the provider and the
endpoint get from them.

### `PageSession`, `SetupForm` and `Widget`

The page is one program of callbacks over shared globals.  It is modelled in two
halves, the form and the widget, which meet in the session: each half has all
the handlers that touch the session, in as much detail as it needs, and leaves
the other half to the user, who may submit anything or reset at any time.
`PageSession` is what both promise about the session and the screen; each half is
shown to implement it, so one may rely on the other.

| `SetupForm` | Code |
|---|---|
| `choice`, `ready` | `userLat`, `userLng`, `selectedFuel`; the submit button |
| `gps`, `fallback` | a pending `getCurrentPosition`; the search for a city is shown |
| `named`, `asks`, `list`, `search` | the city in the status line, autocomplete queries in `debounceTimer` or in flight, suggestions shown, request of the search button |
| `posts`, `boot` | `POST /api/setup` and the boot check in flight |
| `session`, `stored`, `prefs` | `sessionId`, `gazole_session`, `gazole_prefs` |
| `edited`, `raced` | history |

| `Widget` | Code |
|---|---|
| `screen`, `card`, `rows` | which screen and card are shown, and whose station and list |
| `flows` | each boot or submit handler with the request it waits for, then the connection it has opened |
| `latest` | the flow whose connection the global `connection` holds |
| `polling`, `gets`, `lists` | sessions with an interval, answers of the expand button and of `GET /api/nearby` in flight |
| `raced` | history |

Every `await` separates two actions; what a handler reads after one is read in
the second action (`SubmitOk` stores the preferences from the choice *by then*,
`BootOk` connects to `sessionId` *by then*).  `ConnectFails` is the one way into
`startPolling`: the library is missing, `start()` or `Subscribe` fails, or reset has
stopped the connection while it was being opened.  `Reset` stops the latest
connection only, and leaves `gazole_prefs`, intervals, requests and the list alone.
`Load` forgets everything but localStorage; without a stored session it asks for
no position, because `showSetup` throws there (section 4).

Abstractions: settings are a place and a fuel (and a radius in `Widget`, where
they are atoms), and a session, a station and a list are named by the settings
they belong to, which is all the properties ask of them.  A query is named by the
city it finds.  Two submits with the same payload, and two intervals of the same
session, are one.  The text field is no state of the form: the code reads it only
when a search starts and when a key is pressed, so `Search` and `Type` take any
city, and a query whose timer another key stops is as good as not typed.  The
server answers or fails at any time; a connection that is lost once it is open is
in `LivePrices`.

## 3. The runs

| Run | Instance | Shows |
|---|---|---|
| `ingestion_safety` | 2 runs, 2 feeds out of 4 batches, pool of 2, every fault | `ReportedIsWhole`, `StoredPriceIsPublished`, `NoSilentRollback`, `SomeRunGoesOn`, `RowsAreKept`, and that `Ingestion` implements `PriceStore` (`WholeFeedsOnly`) |
| `ingestion_startup` | 2 runs, 1 feed, pool of 1, every fault | `SomeRunGoesOn`, `EveryRunEnds`, `SchedulerComesUp` |
| `ingestion_locks` | 2 runs, 2 feeds in opposite orders, the second with another fuel at one station, no fault | `DeadlockNeedsTwoFeeds`, and `EveryRunEnds` through a deadlock on the rows |
| `ingestion_bad_row` | 1 run, a feed with one refused price | violates `BadRowIsSkipped` |
| `live_prices` | 1 page, the session of a page closed before which has no station before the second version, 2 versions, window of 1, every fault | `SubscriberMissesNoPush`, `RoundServesEverySession`, `OnlyLateAnswersLag`, `SilentSessionsRest`, `RoundsGoOn`, `PollingClientCatchesUp`, and that `LivePrices` implements `PriceBoard` (`PromisesAreKept`) |
| `live_passive` | 1 page, window of 3, no fault | violates `PassiveClientIsPushed` |
| `live_reconnect` | 1 page, network fails | violates `ReconnectedClientRejoins` |
| `live_stale` | 1 page, no fault | violates `SubscribeShowsCurrent` |
| `loghub` | 2 streams, channels of 2, 4 lines | `NoSendOnClosed`, `NoLineLost`, `InOrder`, `LoggingGoesOn`, `HandlersLeave`, and that `LogHub` implements `LineStream` (`LinesAreServedInTurn`) |
| `widget` | 2 settings, 2 handlers or connections | `OwnSessionIsFollowed`, `ShowsTheSession`, `OneSessionFollowed`, and that `Widget` implements `PageSession` (`SessionIsKept`) |
| `setup_form` | 2 cities and the GPS, 1 fuel, 2 submits in flight | `LabelNamesPlace`, `ScreenMatchesSession`, `PrefsOfTheSession`, `ButtonMeansChosen`, `ChosenMeansButton`, `FormComesBack`, and that `SetupForm` implements `PageSession` (`SessionIsKept`) |
| `api_logs` | 2 streams, 2 lines | violates `EveryLineIsStreamed` |

Bounds, and why they are enough.

* Two runs are the least that overlap, deadlock, overtake each other and compete
  for one connection; two stations in both orders are the least that deadlock;
  two feeds are the least of which one is older.  The proofs remove these bounds
  for the safety properties.  `MaxAttempts` is 2 instead of 15: the model only
  tells the last attempt from the others.
* In `ingestion_startup` one feed is enough: how a run ends does not depend on
  which feed it has, and the lock order is the question of `ingestion_locks`.  Its pool
  of one is the least in which runs wait for connections; with the pool of two of
  `ingestion_safety` they only wait for rows.
* Two versions of the tables tell an old price from a new one.  The window is 1
  in `live_prices`, where sessions get too old and come back, and 3 (the value of
  the code) in `live_passive`.
* Pages share the pusher and the database, nothing else, so the properties of one
  page are checked with one open page.  The loop over the sessions needs a second
  session: that of a page closed before, whose first station comes with the last
  version, so that there are rounds that find none for it and rounds that owe it one.
* Two settings are the least that can be taken for each other, and two handlers
  the least that overlap: a boot check with a submit, two submits, a connection
  that is open with one that is being opened.  The proofs remove both bounds.
* Two cities are the least of which one can be named and the other held, and two
  suggestion lists, two searches or a list and a search can then be answered in the
  wrong order; the GPS is a third place.  With one fuel the choice can still be
  incomplete in every way and change under a submit.  The proofs are for any cities
  and fuels.
* A channel of two lines can be empty, partly filled and full.

Fairness.  The steps of `main`, of a run, of handlers, of the pusher and of
`publish` are weakly fair: they are code that executes, with time limits on what
they wait for (the HTTP client's, PostgreSQL's errors).  Row locks, pool
connections and the mutex are handed to waiters in order, so the steps that wait
for them get strong fairness.  The polling timer gets strong fairness since it
fires for ever while other requests come and go.  Docker's restart is weakly
fair.  Nothing obliges the feed, the cron, users, browsers or failures to do
anything; the recovery of the database is a premise of the properties that need
it (`<>[]dbUp`), never an assumption, and so is that the API's process is no
longer killed (`RoundsGoOn`).  No specification adds an assumption about data.
In the form the answers to the submits are weakly fair: the browser ends every
request, with an answer or an error.  Everything the user may do is unfair, and so
are the boot check, the position, the suggestions and the search, which
`FormComesBack` does not wait for.

`CHECK_DEADLOCK FALSE` is used for the log streams only: the model stops when
the bound on lines is reached and every stream has gone.

## 4. What the violated runs show

1. `ingestion_bad_row`: `UpsertStations` logs "skip station" and continues on the
   same transaction, which PostgreSQL has aborted; the remaining rows fail too
   and so does the commit.  One price above `NUMERIC(6,3)` loses the whole feed.
2. `live_passive`: nothing refreshes `last_seen` of a connected page, so a page
   that does nothing leaves the rounds after thirty minutes.
3. `live_reconnect`: after an automatic reconnection the page is in no group and
   does not poll, and it never invokes Subscribe again.
4. `live_stale`: the answer of Subscribe was read before a push and arrives after
   it; the older price stays on the page until the next push.
5. `api_logs`: `BuildServiceProvider` in `Program.cs` makes a second container; the
   provider publishes to a broadcaster no endpoint subscribes to.

A run shows one behaviour.  Theorems of section 5 say, for every instance, how far
all five go: `RefusedFeedsAreLost` (1: no run ever commits a feed with a refused
row, so retrying every ten minutes does not help), `SilentSessionsArePushedNothing` (2:
only its page brings a session back into the rounds), `ForgottenPagesHearNothing` (3:
only its user wakes a page that was reconnected and does not poll) and
`StreamsStayEmpty` (5: no line ever reaches a stream).  For 4, `NoPushIsMissed` and
`OnlyAnswersComeLate` say how far it goes: a subscribed page has received a price as
new as any pushed, and only a late answer, of Subscribe or of a poll, can put an older
one in its place.

What the models also show, without a line of the repository that says otherwise:

* Nothing deletes a row or refreshes one the feed no longer mentions: `PriceStore`
  says so, and a fuel that a station has stopped selling may stay the cheapest.
* A polling interval outlives reset (`app.js:422`): the card of the new session is
  then overwritten every minute with a station of the old one.  The same comes of
  reset during `connectSignalR`, whose `catch` starts polling for the session just
  left, and of a row of the old list that is clicked.  `ShowsTheSession` and
  `OneSessionFollowed` therefore hold for a page that is `Calm`, and the definition
  of `raced` lists exactly what ends that calm.
* A fuel, a position or a suggestion chosen during a submit enables the button
  again and changes what is stored as preferences (`edited`; a page that is loaded
  starts unedited unless it finds preferences other than those of its session).
* A submit sent during the boot check can be undone by its failure, which leaves
  the completed form with a disabled button (`raced` in `SetupForm`).
* With any position known the search button does not search, whatever city has
  been typed since (`app.js:259`).
* The button "Élargir le rayon" (`index.html`) sends the request of the stored session
  again, with the same radius (`app.js:369`): `Expand` can only find what has changed
  at the server meanwhile.
* At a first visit `showSetup` runs before `logToggleBtn` is initialised and throws,
  so that the position is never asked for (`app.js:114`).

## 5. What is proved

`IngestionProofs`, for every set of batches, any number of runs, any pool size,
any number of feeds and any subset of the faults, from `IngestionAssumption` only:

| Theorem | Statement |
|---|---|
| `TypeCorrect` | `Spec => []TypeOK` |
| `ReportsAreWhole` | `Spec => []ReportedIsWhole` |
| `StoredPricesArePublished` | `Spec => []StoredPriceIsPublished` |
| `RollbackNeedsOverlap` | `Spec => NoSilentRollback` |
| `ImplementsPriceStore` | `Spec => WholeFeedsOnly` |
| `RowsStay` | `Spec => RowsAreKept` |
| `RefusedFeedsAreLost` | `Spec => []RefusedFeedsStayOut` |

None of the invariants is inductive alone.  The argument has two layers.

* `ShapeInv` (theorem `ShapeInvariant`) says where in `run()` each field means
  something: a transaction exists only in the upsert loop, from `begin` on a feed
  is known, `next` is in the feed or one past its end, counters are untouched
  before the loop.  `TypeOK` needs it, for `Batch(r)` must be a batch whenever it
  is read, and the bound on `attempts` needs `AttemptsLeft`.
* `SafeInv` (theorem `SafetyInvariant`) says what a run holds: an open transaction
  has only seen rows without refusal and has counted each of them; a run that has
  been acknowledged names an applied feed and its length; and a stored price newer
  than the feed of a run in flight is in that run's `overtakenBy`.  The first makes
  `Commit` whole, the second makes `LogIngestion` truthful, the third is
  `NoSilentRollback` before it happens.

`SafeInv` also holds `RowsLockedOnce`, no row in two open transactions.  That is
PostgreSQL's lock, put into the model by the guard of `UpsertStation`, and no result
about the code; the theorems about deadlocks rest on it.

The refinement is proved by cases: `TableSteps` shows that a step changes the
abstract state only by a commit, by a log row or by publishing, and each of these
is a step of `PriceStore` or a stutter.

`RowsStay` rests on the same case split, since `Upserted` only adds to both tables.
`RefusedFeedsAreLost` needs `SafeInv`: a transaction still open at the end of the loop
has met no refused row.

`IngestionDeadlock`, from `IngestionAssumption` and `RunsAssumption` (a process has
finitely many goroutines):

| Theorem | Statement |
|---|---|
| `RunsAreNeverStuck` | `Spec => []SomeRunGoesOn` |
| `OneFeedNoDeadlock` | `Spec => []DeadlockNeedsTwoFeeds` |
| `DeadlocksHaveNoOrder` | `Spec => []NoCommonOrder`: no order of the stations is that of the batches of all the runs on a wait cycle |

* `OnWaitCycle` is defined by sets of blocked runs: a cycle is a set whose members wait
  for all its members and for no other run.  The argument is about such sets, because a
  walk along the holders would be an induction.  Among the finitely many sets of
  blocked runs that wait for each other only there is a smallest (`SmallestSet`, from
  the well-foundedness of inclusion on finite sets), and it is a cycle
  (`BlockedRunsHaveACycle`).
* `RunsAreNeverStuck`: if all runs wait, those that have a connection can only wait for
  rows, and who holds a row has a connection; so the runs that hold connections are a
  closed set, and it is not empty since the pool is exhausted or the run that waits
  for a row waits for one of them.
* The other two theorems say what a deadlock takes, of the behaviours of `Spec` as it is
  and with no premise on the feeds, which may list a station twice.  A run that is
  blocked is at a station it has not upserted yet, or it would hold the row itself
  (`BlockedAtNewStation`, from `RowsLockedOnce`), and its holder has been through that
  station (`HolderBeenThrough`).  If all runs of a cycle have one feed, the holder is
  therefore further on in it; if one order fits all their batches, the holder waits for
  a station that comes later in it.  Either number would grow all the way round the
  cycle, which finitely many runs exclude (`NoClimbingCycle`).
* What follows for the code: the feeds' orders are the government's, and `UpsertStations`
  does not sort, so deadlocks of runs with different feeds are possible and
  `ingestion_locks` goes through them.  To sort the stations before the loop would give
  all batches one order and, by `DeadlocksHaveNoOrder`, rule them out.

`LivePricesProofs`, for any number of pages, versions and periods, any time at
which a session's first station appears and any subset of the faults, from
`LivePricesAssumption` only:

| Theorem | Statement |
|---|---|
| `LiveTypes` | `Spec => []TypeOK` |
| `NoPushIsMissed` | `Spec => []SubscriberMissesNoPush` |
| `RoundsServeEverySession` | `Spec => []RoundServesEverySession` |
| `ImplementsPriceBoard` | `Spec => PromisesAreKept` |
| `OnlyAnswersComeLate` | `Spec => OnlyLateAnswersLag` |
| `SilentSessionsArePushedNothing` | `Spec => SilentSessionsRest` |
| `ForgottenPagesHearNothing` | a page that was reconnected or gave up, and does not poll, keeps what it shows until its user acts |

* `LinkInv` (theorem `LinkInvariant`) follows a page from joining its group to the
  return of Subscribe: nothing newer than the tables has been pushed or is held by
  the pusher; a page between the join and the read is in the group, so any push
  reaches it, and what it will read is the tables' newest; between the read and the
  answer, what it was sent and what it will be sent cover every push; once it is
  subscribed, what it was sent does.  The order of the two statements in
  `PriceHub.Subscribe` is what makes this inductive.  `Drop` and `ApiStops` leave
  the subscribed state, so they owe nothing.
* `RoundInv` says what a round in progress owes each session it listed: one that
  is served has been pushed a price as new as the round, and the price held for
  the next one is as new.  A session without a station is owed nothing because
  the tables have grown since the round began and it still has none.
* The refinement of `PriceBoard` needs both, and a third: `OnTheWay`, every price that a
  page holds, an answer carries or the pusher is about to send was in the tables.
  `LinkInv` is what lets `SendToCaller` be a `Watch`, `RoundInv` what lets `PusherSend` be a
  `Push` to a session that is owed.  `PusherQuery`, `PusherRead`, `PusherRoundEnds` and
  the stops each change one part of the board, every other step learns a price,
  opens or leaves a page, or is invisible.
* `PushesRise`: what the pusher is about to send is as new as all it has sent to that
  session.  With `LinkInv`, by which every subscribed page is in its group, a push
  never leaves a page behind.
* `ActiveInv`: the sessions a round still has to serve were seen within the window, and
  do not age before it ends.  So no push is for a silent session, and a silent one
  stays silent because only requests of its page lower its age.  Rounds are
  assumed to be shorter than the period between them: ages grow when the pusher wakes.
* `GroupInv`: only a connection whose Subscribe is at work or has returned, or has failed
  and left the page polling, is in a group.  A reconnected page that does not poll is
  none of these.

`LogHubProofs`, for any number of streams, any capacity and any number of lines,
from the assumption of `LogHub` only:

| Theorem | Statement |
|---|---|
| `HubTypes` | `Spec => []TypeOK` |
| `SendsFindOpenChannels` | `Spec => []NoSendOnClosed` |
| `LinesStayInOrder` | `Spec => []InOrder` |
| `OnlyFullChannelsLose` | `Spec => []NoLineLost` |
| `ImplementsLineStream` | `Spec => LinesAreServedInTurn` |

* `HubInv` (theorem `HubInvariant`) ties the map to the mutex: the channels still to
  be offered a line are in the map, and the map holds the channels of handlers
  that have subscribed and not deleted theirs, while only a handler that is gone
  has closed its channel.  Hence a send never meets a closed channel.
* `StreamInv` (theorem `StreamInvariant`) says of what a stream has been given, its
  written lines followed by its channel, that it is increasing, that a stream still
  to be offered the present line has nothing as new as it, and that without a full
  channel nothing is missing.
* The refinement of `LineStream` follows from `HubInv`: the streams still to be offered a
  line are in the map, and neither subscribe nor `Delete` can run while any is left,
  because `publish` keeps the mutex.

`LogBroadcastProofs`, for any streams and number of lines: `StreamsStayEmpty`
(`Spec => []NothingIsStreamed`).  The provider's broadcaster has no client, since the
endpoint subscribes to the other one; that is inductive together with the types.

`SetupFormProofs`, for any cities, fuels and number of submits in flight, from
`SetupAssumption` only:

| Theorem | Statement |
|---|---|
| `FormTypes` | `Spec => []TypeOK` |
| `ScreenAndSession` | `Spec => []ScreenMatchesSession` |
| `LabelsNamePlaces` | `Spec => []LabelNamesPlace` |
| `PrefsFollowTheSession` | `Spec => []PrefsOfTheSession` |
| `EnabledMeansChosen` | `Spec => []ButtonMeansChosen` |
| `ChosenMeansEnabled` | `Spec => []ChosenMeansButton` |
| `FormKeepsSession` | `Spec => SessionIsKept` |

* `LabelInv` extends the label to the widget as long as a boot check is on its way,
  because its failure brings that form back.
* `SteadyInv` says that, with no change of the choice under a submit, every submit
  on its way is the complete choice of the form: so what is stored on its answer
  are its own settings, and a failure may enable the button.  It also says that a boot
  check restores complete preferences.
* `RaceInv` says that, with no submit during the boot check, the check finds the
  form on screen and nothing on its way.

`WidgetProofs`, for any settings and any number of handlers and connections, from
`WidgetAssumption` only:

| Theorem | Statement |
|---|---|
| `WidgetTypes` | `Spec => []TypeOK` |
| `SessionIsFollowed` | `Spec => []OwnSessionIsFollowed` |
| `CardIsOfTheSession` | `Spec => []ShowsTheSession` |
| `OnlyOneIsFollowed` | `Spec => []OneSessionFollowed` |
| `WidgetKeepsSession` | `Spec => SessionIsKept` |

* `ShapeInv` says that a connection is open only once its handler is over.
* `FollowInv` says that a page that shows a session follows it or has a handler that
  is connecting to it; every end of `connectSignalR` turns the second into the first.
* `CalmInv` says that on a calm page at most one handler is at work, and that it, the
  open connection, the intervals, the requests, the preferences and the card are
  all about the session stored (`Single`).  Neither property is inductive without
  the rest: the card comes from any of them.
* The refinement maps submits on their way to `pending` and the boot check, which is
  made by the first flow only (`OneCheck`), to `checking`.

Only model-checked: the liveness properties and the violations.  Those of liveness
are `EveryRunEnds`, `SchedulerComesUp`, `RoundsGoOn`, `PollingClientCatchesUp`,
`LoggingGoesOn`, `HandlersLeave` and `FormComesBack`: they hold by fairness, for which the
proof system has no usable rule (it cannot reason about `ENABLED`).  `RunsAreNeverStuck`
is the safety half of `EveryRunEnds` and does not need fairness; what is left to
fairness is that a run which can go on does.

## 6. What is not modelled

* The HTTP download, ZIP and character set of the fetcher, and the arithmetic of
  the parser: a batch is any sequence of entries.
* Distances, the radius in metres, PostGIS and indexes: the answer of a query is a
  version, or whose settings it is for.
* Meta and the line of the last update: they only read and only display.
* In the page, the maps button, the side panel, the log panel and its tabs, the
  slider's label.  In the moment between `connection.stop()` and the closing of its
  socket a push may still arrive; the model closes it at once.
* Layout and styles, the connection factory, the record types, the test script.
* The length of an interval: delays are steps that happen later, and the age of
  a session counts whole periods.

## 7. Plan

1. `StationQueries` and `ParserFilters`: cheapest, nearby and the filters as
   operators, with 32-bit arithmetic for the radius and a theorem that the card and
   the first row of the list have the same price.
2. `Freshness`: `Ingestion` composed with Meta, for what `lastFetch` says about the
   tables after a lost acknowledgement or a crash.
3. `Widget` composed with `LivePrices`: several sessions of one page at the server,
   with connections that are lost after reset.
