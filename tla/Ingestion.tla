------------------------------- MODULE Ingestion -------------------------------
(***************************************************************************)
(* The Go ingestion service (ingestion/main.go, internal/store/store.go)   *)
(* and the part of PostgreSQL it leans on.  The service connects with a    *)
(* bounded number of attempts, runs once, then starts a cron whose jobs    *)
(* are goroutines of their own: a run that outlasts the period overlaps    *)
(* the next one.  A run downloads and parses the feed, upserts it in one   *)
(* transaction, and records the outcome in ingestion_log.                  *)
(*                                                                         *)
(* A transaction locks a station row when it upserts it and keeps the lock *)
(* until it ends.  The price rows of a station are only written under that *)
(* lock, so one step per station loses no interleaving.                    *)
(***************************************************************************)
EXTENDS FeedData, Integers, FiniteSets

CONSTANTS
    Batches,        \* the batches the government may publish
    Runs,           \* goroutines that may execute run() at the same time
    MaxAttempts,    \* connection attempts before log.Fatalf (15 in the code)
    MaxOpenConns,   \* size of the connection pool (10 in the code)
    MaxFeeds,       \* bound of the model: feeds published in a behaviour
    Faults          \* failures the environment may inject

ASSUME IngestionAssumption ==
    /\ Batches \subseteq ParsedBatch
    /\ MaxAttempts \in Nat \ {0}
    /\ MaxOpenConns \in Nat \ {0}
    /\ MaxFeeds \in Nat \ {0}
    /\ Faults \subseteq {"fetch", "commit", "database", "process"}

\* A process has finitely many goroutines.
ASSUME RunsAssumption == IsFiniteSet(Runs)

VARIABLES
    svc,            \* main(): connecting, starting (first run), scheduled, exited
    attempts,       \* failed connection attempts since the process started
    run,            \* run[r]: where goroutine r is in run()
    dbUp,           \* PostgreSQL answers
    published,      \* batches put online so far, newest last
    stationRows,    \* committed rows of gas_stations
    prices,         \* committed rows of fuel_prices
    log,            \* rows of ingestion_log
    applied         \* history: feeds whose batch has been committed

vars == <<svc, attempts, run, dbUp, published, stationRows, prices, log, applied>>
tables == <<stationRows, prices, log, applied>>
process == <<svc, attempts>>

FeedNo == 0..MaxFeeds
LogEntry == [feed: FeedNo, success: BOOLEAN, stations: Nat]

(***************************************************************************)
(* One goroutine in run().  "next" is the entry the upsert loop is at,     *)
(* "stations" the counter stationCount, "tx" the state of its transaction  *)
(* (PostgreSQL aborts it at the first statement that fails).               *)
(* "overtakenBy" is history: feeds other runs committed meanwhile.         *)
(***************************************************************************)
RunState == [phase: {"idle", "fetch", "begin", "upsert", "log"},
             feed: FeedNo, next: Nat, stations: Nat,
             tx: {"none", "open", "aborted"},
             ok: BOOLEAN, overtakenBy: SUBSET FeedNo]

Idle == [phase |-> "idle", feed |-> 0, next |-> 1, stations |-> 0,
         tx |-> "none", ok |-> FALSE, overtakenBy |-> {}]

Started == [Idle EXCEPT !.phase = "fetch"]

Active(r) == run[r].phase # "idle"

\* Mutant: the stations go through a map, whose order is not the same in each run.
BatchInMapOrder(r) ==
    LET b == published[run[r].feed]
    IN  IF r = CHOOSE q \in Runs : TRUE
        THEN b ELSE [i \in DOMAIN b |-> b[Len(b) + 1 - i]]

\* The stations of a run, in the order of its feed: Parse fills a slice, over which
\* UpsertStations ranges.
Batch(r) == published[run[r].feed]

Init ==
    /\ svc = "connecting"
    /\ attempts = 0
    /\ run = [r \in Runs |-> Idle]
    /\ dbUp \in BOOLEAN
    /\ published \in {<<b>> : b \in Batches}
    /\ stationRows = {}
    /\ prices = NoPrices
    /\ log = {}
    /\ applied = {}

-------------------------------------------------------------------------------
(* main(): connect, first run, scheduler                                   *)

\* Mutant: a stale err keeps the loop from noticing a later success.
ConnectFirstTryOnly ==
    /\ svc = "connecting"
    /\ dbUp
    /\ attempts = 0
    /\ svc' = "starting"
    /\ \E r \in Runs : run' = [run EXCEPT ![r] = Started]
    /\ UNCHANGED <<attempts, dbUp, published, tables>>

\* store.New succeeds; main calls run() itself before it starts the cron.
Connect ==
    /\ svc = "connecting"
    /\ dbUp
    /\ svc' = "starting"
    /\ attempts' = 0
    /\ \E r \in Runs : run' = [run EXCEPT ![r] = Started]
    /\ UNCHANGED <<dbUp, published, tables>>

\* Mutant: the process gives up one attempt too late.
ConnectFailsOffByOne ==
    /\ svc = "connecting"
    /\ ~dbUp
    /\ attempts' = attempts + 1
    /\ svc' = IF attempts' > MaxAttempts THEN "exited" ELSE "connecting"
    /\ UNCHANGED <<run, dbUp, published, tables>>

\* store.New fails; after the last attempt log.Fatalf ends the process.
ConnectFails ==
    /\ svc = "connecting"
    /\ ~dbUp
    /\ attempts' = attempts + 1
    /\ svc' = IF attempts' = MaxAttempts THEN "exited" ELSE "connecting"
    /\ UNCHANGED <<run, dbUp, published, tables>>

\* The first run has returned: AddFunc and Start.
StartScheduler ==
    /\ svc = "starting"
    /\ \A r \in Runs : ~Active(r)
    /\ svc' = "scheduled"
    /\ UNCHANGED <<attempts, run, dbUp, published, tables>>

\* Every ten minutes the cron starts a run, whatever the earlier ones do.
CronTick(r) ==
    /\ svc = "scheduled"
    /\ ~Active(r)
    /\ run' = [run EXCEPT ![r] = Started]
    /\ UNCHANGED <<process, dbUp, published, tables>>

-------------------------------------------------------------------------------
(* run(): fetch and parse                                                  *)

\* Mutant: the document comes from a cache and may be an older one.
FetchCached(r) ==
    /\ run[r].phase = "fetch"
    /\ \E v \in DOMAIN published :
          run' = [run EXCEPT ![r].phase = "begin", ![r].feed = v]
    /\ UNCHANGED <<process, dbUp, published, tables>>

\* FetchXML and Parse deliver the newest feed.
FetchAndParse(r) ==
    /\ run[r].phase = "fetch"
    /\ run' = [run EXCEPT ![r].phase = "begin", ![r].feed = Len(published)]
    /\ UNCHANGED <<process, dbUp, published, tables>>

\* The download or the decoding fails: straight to LogIngestion(false).
FetchOrParseFails(r) ==
    /\ "fetch" \in Faults
    /\ run[r].phase = "fetch"
    /\ run' = [run EXCEPT ![r].phase = "log"]
    /\ UNCHANGED <<process, dbUp, published, tables>>

-------------------------------------------------------------------------------
(* UpsertStations: one transaction, one step per station                   *)

\* Connections in use; a run waits for a free one in BeginTx and ExecContext.
InUse == Cardinality({r \in Runs : run[r].tx # "none"})
FreeConn == InUse < MaxOpenConns

BeginTx(r) ==
    /\ run[r].phase = "begin"
    /\ FreeConn
    /\ run' = [run EXCEPT ![r].phase = IF dbUp THEN "upsert" ELSE "log",
                          ![r].tx = IF dbUp THEN "open" ELSE "none"]
    /\ UNCHANGED <<process, dbUp, published, tables>>

\* Station rows an open transaction has written and so keeps locked.
Locked(r) ==
    IF run[r].tx = "open" THEN StationsIn(Batch(r), run[r].next - 1) ELSE {}

InLoop(r) == run[r].phase = "upsert" /\ run[r].next <= Len(Batch(r))
CurrentEntry(r) == Batch(r)[run[r].next]
LockedByOther(r, s) == \E q \in Runs \ {r} : s \in Locked(q)

UpsertStation(r) ==
    /\ InLoop(r)
    /\ run[r].tx = "open"
    /\ CurrentEntry(r).bad = "none"
    /\ ~LockedByOther(r, CurrentEntry(r).station)
    /\ run' = [run EXCEPT ![r].next = @ + 1, ![r].stations = @ + 1]
    /\ UNCHANGED <<process, dbUp, published, tables>>

\* Mutant: each row its own statement, no transaction to abort.
RejectRowOnly(r) ==
    /\ InLoop(r)
    /\ run[r].tx = "open"
    /\ CurrentEntry(r).bad # "none"
    /\ run' = [run EXCEPT ![r].next = @ + 1]
    /\ UNCHANGED <<process, dbUp, published, tables>>

\* PostgreSQL refuses a row.  The code logs "skip" and goes on with the next
\* one, but the transaction is aborted and its locks are released.
RejectRow(r) ==
    /\ InLoop(r)
    /\ run[r].tx = "open"
    /\ \/ /\ CurrentEntry(r).bad = "station"
          /\ run' = [run EXCEPT ![r].next = @ + 1, ![r].tx = "aborted"]
       \/ /\ CurrentEntry(r).bad = "price"
          /\ ~LockedByOther(r, CurrentEntry(r).station)
          /\ run' = [run EXCEPT ![r].next = @ + 1, ![r].stations = @ + 1,
                                ![r].tx = "aborted"]
    /\ UNCHANGED <<process, dbUp, published, tables>>

\* Mutant: a failed statement is retried instead of skipped.
SkipRowRetries(r) ==
    /\ InLoop(r)
    /\ run[r].tx = "aborted"
    /\ UNCHANGED vars

\* In an aborted transaction every further statement fails and is "skipped".
SkipRow(r) ==
    /\ InLoop(r)
    /\ run[r].tx = "aborted"
    /\ run' = [run EXCEPT ![r].next = @ + 1]
    /\ UNCHANGED <<process, dbUp, published, tables>>

Blocked(r) ==
    /\ InLoop(r)
    /\ run[r].tx = "open"
    /\ CurrentEntry(r).bad # "station"
    /\ LockedByOther(r, CurrentEntry(r).station)

Holder(r) == CHOOSE q \in Runs \ {r} : CurrentEntry(r).station \in Locked(q)

\* Transactions each of which waits for a row of another one of them.
WaitCycle(cycle) ==
    /\ \A p \in cycle : Blocked(p)
    /\ {Holder(p) : p \in cycle} = cycle

OnWaitCycle(r) == \E cycle \in SUBSET Runs : r \in cycle /\ WaitCycle(cycle)

\* PostgreSQL breaks a deadlock: the statement of one run fails.
DeadlockVictim(r) ==
    /\ Blocked(r)
    /\ OnWaitCycle(r)
    /\ run' = [run EXCEPT ![r].next = @ + 1, ![r].tx = "aborted"]
    /\ UNCHANGED <<process, dbUp, published, tables>>

LoopDone(r) == run[r].phase = "upsert" /\ run[r].next > Len(Batch(r))

\* The rows r wrote become visible; every other run in flight is overtaken.
CommitRows(r, acknowledged) ==
    /\ stationRows' = stationRows \cup StationsIn(Batch(r), run[r].next - 1)
    /\ prices' = Upserted(prices, Batch(r), run[r].next - 1, run[r].feed)
    /\ applied' = applied \cup {run[r].feed}
    /\ run' = [p \in Runs |->
                 IF p = r
                 THEN [run[r] EXCEPT !.phase = "log", !.tx = "none",
                                     !.ok = acknowledged]
                 ELSE IF Active(p)
                 THEN [run[p] EXCEPT !.overtakenBy = @ \cup {run[r].feed}]
                 ELSE run[p]]

Commit(r) ==
    /\ LoopDone(r)
    /\ run[r].tx = "open"
    /\ CommitRows(r, TRUE)
    /\ UNCHANGED <<process, dbUp, published, log>>

\* The connection is lost after the server committed: Commit returns an error.
CommitUnacknowledged(r) ==
    /\ "commit" \in Faults
    /\ LoopDone(r)
    /\ run[r].tx = "open"
    /\ CommitRows(r, FALSE)
    /\ UNCHANGED <<process, dbUp, published, log>>

\* Mutant: the error of Commit is ignored.
CommitFailsIgnored(r) ==
    /\ LoopDone(r)
    /\ run[r].tx = "aborted"
    /\ run' = [run EXCEPT ![r].phase = "log", ![r].tx = "none", ![r].ok = TRUE]
    /\ UNCHANGED <<process, dbUp, published, tables>>

\* Mutant: a commit that fails is tried again on the same transaction.
CommitFailsRetries(r) ==
    /\ LoopDone(r)
    /\ run[r].tx = "aborted"
    /\ UNCHANGED vars

\* Mutant: a transaction that cannot commit is left as it is, with its
\* connection.
CommitFailsLeaks(r) ==
    /\ LoopDone(r)
    /\ run[r].tx = "aborted"
    /\ run' = [run EXCEPT ![r].phase = "log"]
    /\ UNCHANGED <<process, dbUp, published, tables>>

\* Commit of an aborted transaction: lib/pq rolls back and returns an error.
CommitFails(r) ==
    /\ LoopDone(r)
    /\ run[r].tx = "aborted"
    /\ run' = [run EXCEPT ![r].phase = "log", ![r].tx = "none"]
    /\ UNCHANGED <<process, dbUp, published, tables>>

\* A row in ingestion_log, outside any transaction; if that fails it is only
\* printed.  The counts are logged for a success, zero for a failure.
LogIngestion(r) ==
    /\ run[r].phase = "log"
    /\ FreeConn
    /\ log' = IF dbUp
              THEN log \cup {[feed |-> run[r].feed, success |-> run[r].ok,
                              stations |-> IF run[r].ok THEN run[r].stations ELSE 0]}
              ELSE log
    /\ run' = [run EXCEPT ![r] = Idle]
    /\ UNCHANGED <<process, dbUp, published, stationRows, prices, applied>>

-------------------------------------------------------------------------------
(* The environment                                                         *)

PublishFeed ==
    /\ Len(published) < MaxFeeds
    /\ \E b \in Batches : published' = Append(published, b)
    /\ UNCHANGED <<process, run, dbUp, tables>>

\* PostgreSQL goes down: what is committed stays, open transactions are lost.
DbCrash ==
    /\ "database" \in Faults
    /\ dbUp
    /\ dbUp' = FALSE
    /\ run' = [r \in Runs |-> IF run[r].tx = "open"
                              THEN [run[r] EXCEPT !.tx = "aborted"]
                              ELSE run[r]]
    /\ UNCHANGED <<process, published, tables>>

DbRecover ==
    /\ ~dbUp
    /\ dbUp' = TRUE
    /\ UNCHANGED <<process, run, published, tables>>

\* The ingestion container dies at any point; its transactions are rolled back.
ServiceCrash ==
    /\ "process" \in Faults
    /\ svc # "exited"
    /\ svc' = "exited"
    /\ attempts' = 0
    /\ run' = [r \in Runs |-> Idle]
    /\ UNCHANGED <<dbUp, published, tables>>

\* docker-compose: restart: unless-stopped
ServiceRestart ==
    /\ svc = "exited"
    /\ svc' = "connecting"
    /\ attempts' = 0
    /\ UNCHANGED <<run, dbUp, published, tables>>

-------------------------------------------------------------------------------

RunStep(r) ==
    \/ FetchAndParse(r) \/ FetchOrParseFails(r)
    \/ BeginTx(r)
    \/ UpsertStation(r) \/ RejectRow(r) \/ SkipRow(r) \/ DeadlockVictim(r)
    \/ Commit(r) \/ CommitUnacknowledged(r) \/ CommitFails(r)
    \/ LogIngestion(r)

Main == Connect \/ ConnectFails \/ StartScheduler

Next ==
    \/ Main
    \/ \E r \in Runs : CronTick(r) \/ RunStep(r)
    \/ PublishFeed \/ DbCrash \/ DbRecover \/ ServiceCrash \/ ServiceRestart

Spec == Init /\ [][Next]_vars

(***************************************************************************)
(* Fairness.  main and the goroutines keep executing; the HTTP client has  *)
(* a timeout and PostgreSQL answers or fails, so no step of a run blocks   *)
(* for ever on its own.  Row locks (PostgreSQL) and pool connections       *)
(* (database/sql) are granted to waiters in order: the steps that wait for *)
(* them get strong fairness.  Docker restarts a container that exited.     *)
(* The cron, the feed and the failures of the environment owe nothing.     *)
(***************************************************************************)
Fairness ==
    /\ WF_vars(Main)
    /\ WF_vars(ServiceRestart)
    /\ \A r \in Runs :
        /\ WF_vars(RunStep(r))
        /\ SF_vars(UpsertStation(r))
        /\ SF_vars(BeginTx(r))
        /\ SF_vars(LogIngestion(r))

FairSpec == Spec /\ Fairness

-------------------------------------------------------------------------------
(* Properties                                                              *)

\* Types, with the facts that make Batch(r) and CurrentEntry(r) meaningful.
TypeOK ==
    /\ svc \in {"connecting", "starting", "scheduled", "exited"}
    /\ attempts \in 0..MaxAttempts
    /\ run \in [Runs -> RunState]
    /\ dbUp \in BOOLEAN
    /\ published \in Seq(Batches)
    /\ Len(published) \in 1..MaxFeeds
    /\ stationRows \subseteq Stations
    /\ prices \in [Stations -> [Fuels -> FeedNo]]
    /\ log \subseteq LogEntry
    /\ applied \subseteq FeedNo

\* A success row of ingestion_log names a feed that is in the tables, and its
\* count is the whole feed: no success is reported for a part of a batch
\* (main.go run, the counters of store.go UpsertStations).
ReportedIsWhole ==
    \A e \in log : e.success =>
        /\ e.feed \in applied
        /\ e.stations = Len(published[e.feed])

\* Every price in the table was published for that very station and fuel, by
\* a feed that has been committed, and its station has its row (the joins of
\* StationService and the foreign key of fuel_prices rely on it).
StoredPriceIsPublished ==
    \A s \in Stations, f \in Fuels : prices[s][f] # 0 =>
        /\ prices[s][f] \in applied
        /\ prices[s][f] \in DOMAIN published
        /\ s \in stationRows
        /\ \E i \in DOMAIN published[prices[s][f]] :
              LET e == published[prices[s][f]][i]
              IN  e.station = s /\ f \in e.fuels

\* A run that cannot go on by itself: it needs a pooled connection and all are
\* taken, or it is blocked on a row and PostgreSQL has no deadlock to break.
Waits(r) ==
    \/ run[r].phase \in {"begin", "log"} /\ ~FreeConn
    \/ Blocked(r) /\ ~OnWaitCycle(r)

\* The runs in flight are never all waiting, be it for connections, for rows
\* or for both in turn: a run gives its connection back before it asks for one
\* to log with, and runs that wait for rows only are on a cycle somewhere
\* (main.go run, store.go UpsertStations and LogIngestion).
SomeRunGoesOn ==
    (\E r \in Runs : Active(r)) => \E r \in Runs : Active(r) /\ ~Waits(r)

\* Runs deadlock only over the orders of different feeds: two runs that upsert the
\* same feed may wait for each other's rows, but never both, since each goes
\* through the stations in the order in which the feed lists them (the slice of
\* parser.go Parse, the loop of store.go UpsertStations).
DeadlockNeedsTwoFeeds ==
    \A cycle \in (SUBSET Runs) \ {{}} :
        WaitCycle(cycle) => \E p, q \in cycle : run[p].feed # run[q].feed

\* A stored price goes back to an older feed only when the run that writes it
\* was overtaken: the newer feed was committed while that run was in flight.
\* Runs that do not overlap never undo a newer price (main.go run, cron).
NoSilentRollback ==
    [][\A s \in Stations, f \in Fuels :
         prices'[s][f] < prices[s][f] =>
            \E r \in Runs : /\ run[r].feed = prices'[s][f]
                            /\ prices[s][f] \in run[r].overtakenBy]_vars

\* What the API counts on: a station or a price once stored is never taken away,
\* whatever later feeds leave out and whatever fails, so that a session that has
\* a station keeps one (store.go UpsertStations has no DELETE).
RowsAreKept ==
    [][/\ stationRows \subseteq stationRows'
       /\ \A s \in Stations, f \in Fuels :
             prices[s][f] # 0 => prices'[s][f] # 0]_vars

\* The service implements PriceStore: readers of the database see whole feeds
\* only, whatever fails, overlaps or crashes in between.
Store == INSTANCE PriceStore
         WITH reported <- {e.feed : e \in {x \in log : x.success}}
WholeFeedsOnly == Store!Spec

\* Every run that starts comes to its end: no run is left waiting for ever for
\* a row or a connection held by another run.
EveryRunEnds == \A r \in Runs : Active(r) ~> ~Active(r)

\* If the database stays up and the process no longer dies, the service ends
\* up with its scheduler running: the attempts of one process may run out
\* before the database is back, Docker then starts another one.
SchedulerComesUp ==
    (<>[]dbUp /\ <>[](svc = "exited" => attempts = MaxAttempts))
        => <>[](svc = "scheduled")

\* store.go logs "skip station" and continues: the other stations of the feed
\* should still be stored once the batch has been acknowledged or not.
BadRowIsSkipped ==
    \A r \in Runs :
        run[r].phase = "log" /\ run[r].feed # 0 =>
            \A i \in DOMAIN Batch(r) :
                Batch(r)[i].bad = "none" => Batch(r)[i].station \in stationRows
===============================================================================
