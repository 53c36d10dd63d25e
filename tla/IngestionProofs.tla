---------------------------- MODULE IngestionProofs ----------------------------
(***************************************************************************)
(* Safety of the ingestion service for every set of batches, any number of *)
(* overlapping runs, any pool size and any number of feeds.                *)
(***************************************************************************)
EXTENDS Ingestion, TLAPS

(***************************************************************************)
(* The shape of a run: where in run() which fields mean something.         *)
(***************************************************************************)
RunShapeOf(r) ==
    /\ run[r].tx # "none" => run[r].phase = "upsert"
    /\ run[r].phase \in {"begin", "upsert"} => run[r].feed # 0
    /\ run[r].phase \in {"idle", "fetch", "begin"} =>
          run[r].next = 1 /\ run[r].stations = 0
    /\ run[r].feed <= Len(published)
    /\ run[r].phase = "upsert" => run[r].next \in 1..(Len(Batch(r)) + 1)

RunShape == \A r \in Runs : RunShapeOf(r)

\* ConnectFails leaves the loop when the last attempt is used up.
AttemptsLeft == svc = "connecting" => attempts < MaxAttempts

ShapeInv == TypeOK /\ RunShape /\ AttemptsLeft

-------------------------------------------------------------------------------
(* Facts about batches                                                     *)

\* A published feed is a sequence of entries.
LEMMA PublishedBatch ==
    ASSUME TypeOK, NEW v \in 1..Len(published)
    PROVE  /\ published[v] \in Seq(Entry)
           /\ Len(published[v]) \in Nat
           /\ \A i \in 1..Len(published[v]) :
                /\ published[v][i] \in Entry
                /\ published[v][i].station \in Stations
                /\ published[v][i].fuels \subseteq Fuels
  <1>1. published[v] \in Batches
    BY DEF TypeOK
  <1>2. published[v] \in Seq(Entry)
    BY <1>1, IngestionAssumption DEF ParsedBatch
  <1>3. Len(published[v]) \in Nat
    BY <1>2
  <1>4. ASSUME NEW i \in 1..Len(published[v])
        PROVE  published[v][i] \in Entry
    BY <1>2
  <1>5. \A e \in Entry : e.station \in Stations /\ e.fuels \subseteq Fuels
    BY DEF Entry
  <1> QED
    BY <1>2, <1>3, <1>4, <1>5

\* The stations of a prefix of a batch are stations.
LEMMA StationsInType ==
    ASSUME TypeOK, NEW v \in 1..Len(published),
           NEW n \in Nat, n <= Len(published[v])
    PROVE  StationsIn(published[v], n) \subseteq Stations
  BY PublishedBatch DEF StationsIn

\* An upsert yields a price table again.
LEMMA UpsertedType ==
    ASSUME NEW table \in [Stations -> [Fuels -> FeedNo]],
           NEW batch, NEW n, NEW v \in FeedNo
    PROVE  Upserted(table, batch, n, v) \in [Stations -> [Fuels -> FeedNo]]
  BY DEF Upserted

\* Publishing adds a feed and changes none.
LEMMA PublishFacts ==
    ASSUME TypeOK, PublishFeed
    PROVE  /\ published' \in Seq(Batches)
           /\ Len(published') = Len(published) + 1
           /\ Len(published') <= MaxFeeds
           /\ \A v \in 1..Len(published) : published'[v] = published[v]
  <1>1. PICK b \in Batches : published' = Append(published, b)
    BY DEF PublishFeed
  <1>2. published \in Seq(Batches) /\ Len(published) < MaxFeeds
    BY DEF TypeOK, PublishFeed
  <1> QED
    BY <1>1, <1>2, IngestionAssumption

-------------------------------------------------------------------------------
(* The shape of the state is inductive                                     *)

\* The initial states have the shape.
LEMMA InitShape == Init => ShapeInv
  <1> SUFFICES ASSUME Init PROVE ShapeInv
    OBVIOUS
  <1>1. PICK b \in Batches : published = <<b>>
    BY DEF Init
  <1>2. published \in Seq(Batches) /\ Len(published) = 1
    BY <1>1
  <1>3. run \in [Runs -> RunState]
    BY IngestionAssumption DEF Init, Idle, RunState, FeedNo
  <1>4. prices \in [Stations -> [Fuels -> FeedNo]]
    BY IngestionAssumption DEF Init, NoPrices, FeedNo
  <1>5. TypeOK
    BY <1>2, <1>3, <1>4, IngestionAssumption DEF Init, TypeOK
  <1>6. RunShape
    BY <1>2 DEF Init, RunShape, RunShapeOf, Idle
  <1>7. AttemptsLeft
    BY IngestionAssumption DEF Init, AttemptsLeft
  <1> QED
    BY <1>5, <1>6, <1>7 DEF ShapeInv

(***************************************************************************)
(* Most steps of a run change one run record and nothing else the shape    *)
(* depends on; it is enough that the new record is well formed.            *)
(***************************************************************************)
WellFormed(x) ==
    /\ x \in RunState
    /\ x.tx # "none" => x.phase = "upsert"
    /\ x.phase \in {"begin", "upsert"} => x.feed # 0
    /\ x.phase \in {"idle", "fetch", "begin"} => x.next = 1 /\ x.stations = 0
    /\ x.feed <= Len(published)
    /\ x.phase = "upsert" => x.next \in 1..(Len(published[x.feed]) + 1)

\* The shape of the state says of each run record that it is well-formed.
LEMMA WellFormedRuns ==
    ASSUME ShapeInv, NEW r \in Runs
    PROVE  WellFormed(run[r])
  BY DEF ShapeInv, TypeOK, RunShape, RunShapeOf, WellFormed, Batch

\* A step that writes the record of one run keeps the shape if that record
\* is well-formed again.
LEMMA OneRunChanges ==
    ASSUME ShapeInv, NEW r \in Runs, NEW x, WellFormed(x),
           run' = [run EXCEPT ![r] = x],
           UNCHANGED <<svc, attempts, dbUp, published, stationRows, prices, applied>>,
           log' \subseteq LogEntry
    PROVE  ShapeInv'
  <1>1. run' \in [Runs -> RunState]
    BY DEF ShapeInv, TypeOK, WellFormed
  <1>2. TypeOK'
    BY <1>1 DEF ShapeInv, TypeOK
  <1>3. ASSUME NEW q \in Runs PROVE WellFormed(run'[q])
    BY WellFormedRuns DEF ShapeInv, TypeOK
  <1>4. RunShape'
    BY <1>3 DEF RunShape, RunShapeOf, WellFormed, Batch
  <1>5. AttemptsLeft'
    BY DEF ShapeInv, AttemptsLeft
  <1> QED
    BY <1>2, <1>4, <1>5 DEF ShapeInv

\* The records of a run that starts and of one that is over are well-formed.
LEMMA WellFormedStarted ==
    ASSUME TypeOK
    PROVE  WellFormed(Idle) /\ WellFormed(Started)
  <1>0. 0 \in FeedNo
    BY IngestionAssumption DEF FeedNo
  <1>1. Idle \in RunState
    BY <1>0 DEF Idle, RunState
  <1>3. Started \in RunState
    BY <1>1 DEF Started, RunState
  <1>2. 0 <= Len(published)
    BY DEF TypeOK
  <1> QED
    BY <1>1, <1>2, <1>3 DEF WellFormed, Idle, Started

\* main() keeps the shape.
LEMMA MainShape == ShapeInv /\ Main => ShapeInv'
  <1> SUFFICES ASSUME ShapeInv, Main PROVE ShapeInv'
    OBVIOUS
  <1>1. CASE Connect
    <2>1. PICK r \in Runs : run' = [run EXCEPT ![r] = Started]
      BY <1>1 DEF Connect
    <2>2. run' \in [Runs -> RunState]
      BY <2>1, WellFormedStarted DEF ShapeInv, TypeOK, WellFormed
    <2>3. TypeOK'
      BY <1>1, <2>2, IngestionAssumption DEF Connect, ShapeInv, TypeOK, tables
    <2>4. \A q \in Runs : WellFormed(run'[q])
      BY <2>1, WellFormedRuns, WellFormedStarted DEF ShapeInv, TypeOK
    <2>5. RunShape'
      BY <1>1, <2>4 DEF Connect, tables, RunShape, RunShapeOf, WellFormed, Batch
    <2> QED
      BY <1>1, <2>3, <2>5 DEF Connect, ShapeInv, AttemptsLeft
  <1>2. CASE ConnectFails
    <2>1. attempts < MaxAttempts /\ attempts \in Nat
      BY <1>2 DEF ConnectFails, ShapeInv, AttemptsLeft, TypeOK
    <2>2. TypeOK' /\ AttemptsLeft'
      BY <1>2, <2>1, IngestionAssumption
      DEF ConnectFails, ShapeInv, TypeOK, AttemptsLeft, tables
    <2> QED
      BY <1>2, <2>2
      DEF ConnectFails, tables, ShapeInv, RunShape, RunShapeOf, Batch
  <1>3. CASE StartScheduler
    BY <1>3 DEF StartScheduler, tables, ShapeInv, TypeOK, RunShape, RunShapeOf,
                Batch, AttemptsLeft
  <1> QED
    BY <1>1, <1>2, <1>3 DEF Main

\* What CommitRows does to the state keeps the shape.
LEMMA CommitShape ==
    ASSUME ShapeInv, NEW r \in Runs, NEW ok \in BOOLEAN,
           LoopDone(r), CommitRows(r, ok),
           UNCHANGED <<svc, attempts, dbUp, published, log>>
    PROVE  ShapeInv'
  <1> DEFINE v == run[r].feed
             done == [run[r] EXCEPT !.phase = "log", !.tx = "none", !.ok = ok]
  <1>1. /\ v \in 1..Len(published) /\ v \in FeedNo
        /\ run[r] \in RunState
        /\ run[r].next - 1 = Len(Batch(r))
        /\ run[r].next \in Nat
    <2>1. WellFormed(run[r]) /\ run[r].phase = "upsert"
      BY WellFormedRuns DEF LoopDone
    <2>2. v \in 1..Len(published) /\ v \in FeedNo
      BY <2>1 DEF WellFormed, RunState, FeedNo, ShapeInv, TypeOK
    <2>3. Len(published[v]) \in Nat
      BY <2>2, PublishedBatch DEF ShapeInv
    <2> QED
      BY <2>1, <2>2, <2>3 DEF WellFormed, RunState, LoopDone, Batch
  <1>2. stationRows' \subseteq Stations
    BY <1>1, StationsInType, PublishedBatch DEF CommitRows, ShapeInv, TypeOK, Batch
  <1>3. prices' \in [Stations -> [Fuels -> FeedNo]]
    BY <1>1, UpsertedType DEF CommitRows, ShapeInv, TypeOK
  <1>4. applied' \subseteq FeedNo
    BY <1>1 DEF CommitRows, ShapeInv, TypeOK
  <1>5. WellFormed(done)
    BY <1>1, WellFormedRuns DEF WellFormed, RunState, LoopDone
  <1>6. ASSUME NEW q \in Runs
        PROVE  WellFormed([run[q] EXCEPT !.overtakenBy = @ \cup {v}])
    BY <1>1, <1>6, WellFormedRuns DEF WellFormed, RunState
  <1>7. run' = [p \in Runs |->
                  IF p = r THEN done
                  ELSE IF Active(p)
                  THEN [run[p] EXCEPT !.overtakenBy = @ \cup {v}]
                  ELSE run[p]]
    BY DEF CommitRows
  <1>8. \A q \in Runs : WellFormed(run'[q])
    BY <1>5, <1>6, <1>7, WellFormedRuns
  <1>9. run' \in [Runs -> RunState]
    BY <1>7, <1>8 DEF WellFormed
  <1>10. TypeOK'
    BY <1>2, <1>3, <1>4, <1>9 DEF ShapeInv, TypeOK
  <1>11. RunShape'
    BY <1>8 DEF RunShape, RunShapeOf, WellFormed, Batch
  <1> QED
    BY <1>10, <1>11 DEF ShapeInv, AttemptsLeft

\* Every step of a run keeps the shape.
LEMMA RunStepShape ==
    ASSUME ShapeInv, NEW r \in Runs, RunStep(r)
    PROVE  ShapeInv'
  <1>t. run \in [Runs -> RunState] /\ run[r] \in RunState /\ WellFormed(run[r])
    BY WellFormedRuns DEF ShapeInv, TypeOK
  <1>1. CASE FetchAndParse(r)
    <2> DEFINE x == [run[r] EXCEPT !.phase = "begin", !.feed = Len(published)]
    <2>1. Len(published) \in FeedNo /\ Len(published) # 0
      BY IngestionAssumption DEF ShapeInv, TypeOK, FeedNo
    <2>2. WellFormed(x)
      <3>1. x \in RunState
        BY <1>t, <2>1 DEF RunState
      <3>2. /\ x.phase = "begin" /\ x.feed = Len(published)
            /\ x.next = 1 /\ x.stations = 0 /\ x.tx = "none"
        BY <1>t, <1>1 DEF FetchAndParse, WellFormed, RunState
      <3>3. Len(published) \in Int
        BY DEF ShapeInv, TypeOK
      <3> QED
        BY <2>1, <3>1, <3>2, <3>3 DEF WellFormed
    <2>3. run' = [run EXCEPT ![r] = x]
      BY <1>t, <1>1 DEF FetchAndParse, RunState
    <2> HIDE DEF x
    <2> QED
      BY <1>1, <2>2, <2>3, OneRunChanges
      DEF FetchAndParse, process, tables, ShapeInv, TypeOK
  <1>2. CASE FetchOrParseFails(r)
    <2> DEFINE x == [run[r] EXCEPT !.phase = "log"]
    <2>1. WellFormed(x)
      BY <1>t, <1>2 DEF FetchOrParseFails, WellFormed, RunState
    <2>2. run' = [run EXCEPT ![r] = x]
      BY <1>t, <1>2 DEF FetchOrParseFails, RunState
    <2> QED
      BY <1>2, <2>1, <2>2, OneRunChanges
      DEF FetchOrParseFails, process, tables, ShapeInv, TypeOK
  <1>3. CASE BeginTx(r)
    <2> DEFINE x == [run[r] EXCEPT !.phase = IF dbUp THEN "upsert" ELSE "log",
                                   !.tx = IF dbUp THEN "open" ELSE "none"]
    <2>1. run[r].feed \in 1..Len(published)
      BY <1>t, <1>3 DEF BeginTx, WellFormed, RunState, FeedNo, ShapeInv, TypeOK
    <2>2. Len(published[run[r].feed]) \in Nat
      BY <2>1, PublishedBatch DEF ShapeInv
    <2>3. WellFormed(x)
      <3>1. x \in RunState
        BY <1>t DEF RunState
      <3>2. /\ x.phase = IF dbUp THEN "upsert" ELSE "log"
            /\ x.tx = IF dbUp THEN "open" ELSE "none"
            /\ x.feed = run[r].feed /\ x.next = 1
        BY <1>t, <1>3 DEF BeginTx, WellFormed, RunState
      <3> QED
        BY <2>1, <2>2, <3>1, <3>2 DEF WellFormed
    <2>4. run' = [run EXCEPT ![r] = x]
      BY <1>t, <1>3 DEF BeginTx, RunState
    <2> HIDE DEF x
    <2> QED
      BY <1>3, <2>3, <2>4, OneRunChanges
      DEF BeginTx, process, tables, ShapeInv, TypeOK
  <1>4. ASSUME NEW n \in Nat, NEW t \in {"open", "aborted"},
               InLoop(r), run[r].tx # "none",
               run' = [run EXCEPT ![r] = [run[r] EXCEPT !.next = @ + 1,
                                            !.stations = n, !.tx = t]],
               UNCHANGED <<process, dbUp, published, tables>>
        PROVE  ShapeInv'
    <2> DEFINE x == [run[r] EXCEPT !.next = @ + 1, !.stations = n, !.tx = t]
    <2>1. run[r].feed \in 1..Len(published)
      BY <1>t, <1>4 DEF InLoop, WellFormed, RunState, FeedNo, ShapeInv, TypeOK
    <2>2. Len(published[run[r].feed]) \in Nat
      BY <2>1, PublishedBatch DEF ShapeInv
    <2>3. WellFormed(x)
      <3>1. x \in RunState
        <4>1. run[r].next + 1 \in Nat
          BY <1>t DEF RunState
        <4>2. t \in {"none", "open", "aborted"} /\ n \in Nat
          OBVIOUS
        <4> QED
          BY <1>t, <4>1, <4>2 DEF RunState
      <3>2. /\ x.phase = "upsert" /\ x.feed = run[r].feed
            /\ x.next = run[r].next + 1
        <4>1. run[r].phase = "upsert" /\ run[r].next \in Nat
          BY <1>t, <1>4 DEF InLoop, RunState
        <4> QED
          BY <1>t, <4>1 DEF RunState
      <3>3. run[r].next \in Nat /\ run[r].next <= Len(published[run[r].feed])
        BY <1>t, <1>4 DEF InLoop, RunState, Batch
      <3> QED
        <4>1. x.next \in 1..(Len(published[x.feed]) + 1)
          BY <2>2, <3>2, <3>3
        <4>2. run[r].feed # 0 /\ run[r].feed <= Len(published)
          BY <2>1
        <4> QED
          BY <3>1, <3>2, <4>1, <4>2 DEF WellFormed
    <2>4. run' = [run EXCEPT ![r] = x]
      BY <1>4
    <2> HIDE DEF x
    <2> QED
      BY <1>4, <2>3, <2>4, OneRunChanges DEF process, tables, ShapeInv, TypeOK
  <1>5. CASE UpsertStation(r)
    <2>1. run' = [run EXCEPT ![r] = [run[r] EXCEPT !.next = @ + 1,
                        !.stations = run[r].stations + 1, !.tx = "open"]]
      BY <1>t, <1>5 DEF UpsertStation, RunState
    <2>2. run[r].stations + 1 \in Nat
      BY <1>t DEF RunState
    <2> QED
      BY <1>4, <1>5, <2>1, <2>2 DEF UpsertStation
  <1>6. CASE RejectRow(r)
    <2>1. \E n \in Nat :
            run' = [run EXCEPT ![r] = [run[r] EXCEPT !.next = @ + 1,
                                         !.stations = n, !.tx = "aborted"]]
      <3>1. CASE run' = [run EXCEPT ![r].next = @ + 1, ![r].tx = "aborted"]
        <4>1. run' = [run EXCEPT ![r] = [run[r] EXCEPT !.next = @ + 1,
                            !.stations = run[r].stations, !.tx = "aborted"]]
          BY <1>t, <3>1 DEF RunState
        <4>2. run[r].stations \in Nat
          BY <1>t DEF RunState
        <4> QED
          BY <4>1, <4>2
      <3>2. CASE run' = [run EXCEPT ![r].next = @ + 1, ![r].stations = @ + 1,
                                    ![r].tx = "aborted"]
        <4>1. run' = [run EXCEPT ![r] = [run[r] EXCEPT !.next = @ + 1,
                            !.stations = run[r].stations + 1, !.tx = "aborted"]]
          BY <1>t, <3>2 DEF RunState
        <4>2. run[r].stations + 1 \in Nat
          BY <1>t DEF RunState
        <4> QED
          BY <4>1, <4>2
      <3> QED
        BY <1>6, <3>1, <3>2 DEF RejectRow
    <2> QED
      BY <1>4, <1>6, <2>1 DEF RejectRow
  <1>7. CASE SkipRow(r)
    <2>1. run' = [run EXCEPT ![r] = [run[r] EXCEPT !.next = @ + 1,
                        !.stations = run[r].stations, !.tx = "aborted"]]
      BY <1>t, <1>7 DEF SkipRow, RunState
    <2> QED
      BY <1>t, <1>4, <1>7, <2>1 DEF SkipRow, RunState
  <1>8. CASE DeadlockVictim(r)
    <2>1. run' = [run EXCEPT ![r] = [run[r] EXCEPT !.next = @ + 1,
                        !.stations = run[r].stations, !.tx = "aborted"]]
      BY <1>t, <1>8 DEF DeadlockVictim, RunState
    <2> QED
      BY <1>t, <1>4, <1>8, <2>1 DEF DeadlockVictim, Blocked, RunState
  <1>9. CASE Commit(r)
    BY <1>9, CommitShape DEF Commit, process
  <1>10. CASE CommitUnacknowledged(r)
    BY <1>10, CommitShape DEF CommitUnacknowledged, process
  <1>11. CASE CommitFails(r)
    <2> DEFINE x == [run[r] EXCEPT !.phase = "log", !.tx = "none"]
    <2>1. WellFormed(x)
      BY <1>t, <1>11 DEF CommitFails, LoopDone, WellFormed, RunState
    <2>2. run' = [run EXCEPT ![r] = x]
      BY <1>t, <1>11 DEF CommitFails, RunState
    <2> QED
      BY <1>11, <2>1, <2>2, OneRunChanges
      DEF CommitFails, process, tables, ShapeInv, TypeOK
  <1>12. CASE LogIngestion(r)
    <2>1. log' \subseteq LogEntry
      <3>1. [feed |-> run[r].feed, success |-> run[r].ok,
             stations |-> IF run[r].ok THEN run[r].stations ELSE 0] \in LogEntry
        BY <1>t DEF RunState, LogEntry
      <3> QED
        BY <1>12, <3>1 DEF LogIngestion, ShapeInv, TypeOK
    <2> QED
      BY <1>12, <2>1, OneRunChanges, WellFormedStarted
      DEF LogIngestion, process, ShapeInv
  <1> QED
    BY <1>1, <1>2, <1>3, <1>5, <1>6, <1>7, <1>8, <1>9, <1>10, <1>11, <1>12
    DEF RunStep

\* The environment keeps the shape.
LEMMA EnvironmentShape ==
    ASSUME ShapeInv,
           PublishFeed \/ DbCrash \/ DbRecover \/ ServiceCrash \/ ServiceRestart
    PROVE  ShapeInv'
  <1>1. CASE PublishFeed
    <2>1. TypeOK' /\ AttemptsLeft'
      BY <1>1, PublishFacts, IngestionAssumption
      DEF PublishFeed, ShapeInv, TypeOK, AttemptsLeft, process, tables
    <2>2. ASSUME NEW r \in Runs PROVE RunShapeOf(r)'
      <3>1. RunShapeOf(r) /\ run[r] \in RunState /\ run'[r] = run[r]
        BY <1>1 DEF ShapeInv, RunShape, TypeOK, PublishFeed
      <3>2. run[r].feed <= Len(published')
        BY <1>1, <3>1, PublishFacts
        DEF RunShapeOf, ShapeInv, TypeOK, RunState, FeedNo
      <3>3. run[r].phase = "upsert" => Batch(r)' = Batch(r)
        BY <1>1, <3>1, PublishFacts
        DEF Batch, RunShapeOf, ShapeInv, TypeOK, RunState, FeedNo
      <3> QED
        BY <3>1, <3>2, <3>3 DEF RunShapeOf
    <2> QED
      BY <2>1, <2>2 DEF ShapeInv, RunShape
  <1>2. CASE DbCrash
    <2>1. \A r \in Runs : WellFormed(run'[r])
      BY <1>2, WellFormedRuns DEF DbCrash, WellFormed, RunState
    <2>2. run' \in [Runs -> RunState]
      BY <1>2, <2>1 DEF DbCrash, WellFormed
    <2>3. TypeOK' /\ AttemptsLeft'
      BY <1>2, <2>2 DEF DbCrash, ShapeInv, TypeOK, AttemptsLeft, process, tables
    <2>4. RunShape'
      BY <1>2, <2>1 DEF DbCrash, RunShape, RunShapeOf, WellFormed, Batch
    <2> QED
      BY <2>3, <2>4 DEF ShapeInv
  <1>3. CASE DbRecover
    BY <1>3 DEF DbRecover, process, tables, ShapeInv, TypeOK, RunShape,
                RunShapeOf, Batch, AttemptsLeft
  <1>4. CASE ServiceCrash
    <2>1. \A r \in Runs : WellFormed(run'[r])
      BY <1>4, WellFormedStarted DEF ServiceCrash, ShapeInv
    <2>2. run' \in [Runs -> RunState]
      BY <1>4, <2>1 DEF ServiceCrash, WellFormed
    <2>3. TypeOK' /\ AttemptsLeft'
      BY <1>4, <2>2, IngestionAssumption
      DEF ServiceCrash, ShapeInv, TypeOK, AttemptsLeft, tables
    <2>4. RunShape'
      BY <1>4, <2>1 DEF ServiceCrash, RunShape, RunShapeOf, WellFormed, Batch
    <2> QED
      BY <2>3, <2>4 DEF ShapeInv
  <1>5. CASE ServiceRestart
    BY <1>5, IngestionAssumption
    DEF ServiceRestart, tables, ShapeInv, TypeOK, RunShape, RunShapeOf, Batch,
        AttemptsLeft
  <1> QED
    BY <1>1, <1>2, <1>3, <1>4, <1>5

\* Every step keeps the shape.
LEMMA NextShape == ShapeInv /\ [Next]_vars => ShapeInv'
  <1> SUFFICES ASSUME ShapeInv, [Next]_vars PROVE ShapeInv'
    OBVIOUS
  <1>1. CASE Main
    BY <1>1, MainShape
  <1>2. ASSUME NEW r \in Runs, CronTick(r) PROVE ShapeInv'
    <2>1. run' = [run EXCEPT ![r] = Started]
      BY <1>2 DEF CronTick
    <2> QED
      BY <1>2, <2>1, OneRunChanges, WellFormedStarted
      DEF CronTick, process, tables, ShapeInv, TypeOK
  <1>3. ASSUME NEW r \in Runs, RunStep(r) PROVE ShapeInv'
    BY <1>3, RunStepShape
  <1>4. CASE PublishFeed \/ DbCrash \/ DbRecover \/ ServiceCrash \/ ServiceRestart
    BY <1>4, EnvironmentShape
  <1>5. CASE UNCHANGED vars
    BY <1>5 DEF vars, ShapeInv, TypeOK, RunShape, RunShapeOf, Batch, AttemptsLeft
  <1> QED
    BY <1>1, <1>2, <1>3, <1>4, <1>5 DEF Next

\* In every behaviour of the service (main.go, store.go) the state is typed,
\* each run's phase, transaction, feed and position in the feed agree, and a
\* process that is still connecting has attempts left.
THEOREM ShapeInvariant == Spec => []ShapeInv
  BY InitShape, NextShape, PTL DEF Spec

\* The types of the ingestion service's state, for every instance.
THEOREM TypeCorrect == Spec => []TypeOK
  <1>1. ShapeInv => TypeOK
    BY DEF ShapeInv
  <1> QED
    BY <1>1, ShapeInvariant, PTL

-------------------------------------------------------------------------------
(***************************************************************************)
(* Safety.  What a run record promises about the tables:                   *)
(*  - an open transaction has counted, and accepted, every entry so far;   *)
(*  - a run that will report success has committed its whole batch;        *)
(*  - a price newer than the feed of a run in flight was committed while   *)
(*    that run was in flight.                                              *)
(***************************************************************************)
RunSafe(x) ==
    /\ x.tx = "open" =>
          /\ x.stations = x.next - 1
          /\ \A i \in 1..(x.next - 1) : published[x.feed][i].bad = "none"
    /\ x.ok => /\ x.phase = "log"
               /\ x.feed \in applied
               /\ x.stations = Len(published[x.feed])
    /\ x.phase \in {"begin", "upsert"} =>
          \A s \in Stations, f \in Fuels :
              prices[s][f] > x.feed => prices[s][f] \in x.overtakenBy

RunsSafe == \A r \in Runs : RunSafe(run[r])
AppliedPublished == applied \subseteq 1..Len(published)

\* The row locks of PostgreSQL: what Locked says of two runs never overlaps.
RowsLockedOnce ==
    \A p, q \in Runs : p # q => Locked(p) \cap Locked(q) = {}

SafeInv ==
    /\ RunsSafe
    /\ AppliedPublished
    /\ ReportedIsWhole
    /\ StoredPriceIsPublished
    /\ RowsLockedOnce

\* Empty tables and idle runs are safe.
LEMMA InitSafe == Init => SafeInv
  <1> SUFFICES ASSUME Init PROVE SafeInv
    OBVIOUS
  <1>1. RunsSafe
    BY DEF Init, RunsSafe, RunSafe, Idle
  <1>2. StoredPriceIsPublished
    BY DEF Init, NoPrices, StoredPriceIsPublished
  <1>3. RowsLockedOnce
    BY DEF Init, RowsLockedOnce, Locked, Idle
  <1> QED
    BY <1>1, <1>2, <1>3 DEF Init, SafeInv, AppliedPublished, ReportedIsWhole

\* A step of one run that leaves the tables alone has to be checked for that
\* run only: its record, and the rows it holds.
LEMMA OneRunSafe ==
    ASSUME SafeInv, NEW r \in Runs,
           \A q \in Runs \ {r} : run'[q] = run[q],
           UNCHANGED <<published, stationRows, prices, applied>>,
           RunSafe(run'[r]),
           \A q \in Runs \ {r} : Locked(r)' \cap Locked(q) = {},
           ReportedIsWhole'
    PROVE  SafeInv'
  <1>1. ASSUME NEW q \in Runs PROVE RunSafe(run[q])'
    BY DEF SafeInv, RunsSafe, RunSafe
  <1>2. \A q \in Runs \ {r} : Locked(q)' = Locked(q)
    BY DEF Locked, Batch
  <1>3. RowsLockedOnce'
    BY <1>2 DEF SafeInv, RowsLockedOnce
  <1>4. StoredPriceIsPublished'
    BY DEF SafeInv, StoredPriceIsPublished
  <1>5. AppliedPublished'
    BY DEF SafeInv, AppliedPublished
  <1> QED
    BY <1>1, <1>3, <1>4, <1>5 DEF SafeInv, RunsSafe

\* A prefix of a batch is in the tables exactly as the batch says.
LEMMA UpsertedCell ==
    ASSUME NEW table, NEW batch, NEW n \in Nat, NEW v,
           NEW s \in Stations, NEW f \in Fuels
    PROVE  \/ /\ Upserted(table, batch, n, v)[s][f] = v
              /\ \E i \in 1..n : batch[i].station = s /\ f \in batch[i].fuels
           \/ Upserted(table, batch, n, v)[s][f] = table[s][f]
  BY DEF Upserted

\* The log is untouched and the feeds it names stay applied.
LEMMA ReportedStays ==
    ASSUME SafeInv, UNCHANGED <<log, published>>, applied \subseteq applied'
    PROVE  ReportedIsWhole'
  BY DEF SafeInv, ReportedIsWhole

\* A committed batch is whole and its rows are the feed's.
LEMMA CommitSafe ==
    ASSUME ShapeInv, SafeInv, NEW r \in Runs, NEW ok \in BOOLEAN,
           LoopDone(r), run[r].tx = "open", CommitRows(r, ok),
           UNCHANGED <<published, log>>
    PROVE  SafeInv'
  <1> DEFINE v == run[r].feed
             n == run[r].next - 1
  <1>1. /\ v \in 1..Len(published) /\ v \in FeedNo
        /\ run[r] \in RunState /\ Batch(r) = published[v]
        /\ n = Len(Batch(r)) /\ n \in Nat
    <2>1. WellFormed(run[r]) /\ run[r].phase = "upsert"
      BY WellFormedRuns DEF LoopDone
    <2>2. v \in 1..Len(published) /\ v \in FeedNo
      BY <2>1 DEF WellFormed, RunState, FeedNo, ShapeInv, TypeOK
    <2>3. Len(published[v]) \in Nat
      BY <2>2, PublishedBatch DEF ShapeInv
    <2> QED
      BY <2>1, <2>2, <2>3 DEF WellFormed, RunState, LoopDone, Batch
  <1>2. prices' = Upserted(prices, Batch(r), n, v)
        /\ stationRows' = stationRows \cup StationsIn(Batch(r), n)
        /\ applied' = applied \cup {v}
    BY DEF CommitRows
  <1>3. AppliedPublished'
    BY <1>1, <1>2 DEF SafeInv, AppliedPublished
  <1>4. ReportedIsWhole'
    BY <1>2, ReportedStays
  <1>5. StoredPriceIsPublished'
    <2> SUFFICES ASSUME NEW s \in Stations, NEW f \in Fuels, prices'[s][f] # 0
                 PROVE  /\ prices'[s][f] \in applied'
                        /\ prices'[s][f] \in DOMAIN published
                        /\ s \in stationRows'
                        /\ \E i \in DOMAIN published[prices'[s][f]] :
                              LET e == published[prices'[s][f]][i]
                              IN  e.station = s /\ f \in e.fuels
      BY DEF StoredPriceIsPublished
    <2>1. CASE prices'[s][f] = prices[s][f]
      BY <1>2, <2>1 DEF SafeInv, StoredPriceIsPublished
    <2>2. CASE prices'[s][f] # prices[s][f]
      <3>1. prices'[s][f] = v
            /\ \E i \in 1..n : Batch(r)[i].station = s /\ f \in Batch(r)[i].fuels
        <4> DEFINE table == Upserted(prices, Batch(r), n, v)
        <4>1. \/ /\ table[s][f] = v
                 /\ \E i \in 1..n : /\ Batch(r)[i].station = s
                                  /\ f \in Batch(r)[i].fuels
              \/ table[s][f] = prices[s][f]
          BY DEF Upserted
        <4>2. prices' = table
          BY <1>2
        <4> HIDE DEF table
        <4> QED
          BY <2>2, <4>1, <4>2
      <3>2. DOMAIN published = 1..Len(published) /\ DOMAIN published[v] = 1..n
        BY <1>1, PublishedBatch DEF ShapeInv, TypeOK
      <3>3. s \in stationRows'
        BY <1>2, <3>1 DEF StationsIn
      <3> QED
        BY <1>1, <1>2, <3>1, <3>2, <3>3
    <2> QED
      BY <2>1, <2>2
  <1>6. /\ run'[r].phase = "log" /\ run'[r].tx = "none"
        /\ run'[r].feed = v /\ run'[r].stations = run[r].stations
    BY <1>1 DEF CommitRows, RunState
  <1>7. ASSUME NEW q \in Runs, q # r
        PROVE  /\ run'[q].phase = run[q].phase /\ run'[q].tx = run[q].tx
               /\ run'[q].feed = run[q].feed /\ run'[q].next = run[q].next
               /\ run'[q].stations = run[q].stations /\ run'[q].ok = run[q].ok
               /\ run[q].overtakenBy \subseteq run'[q].overtakenBy
               /\ run[q].phase # "idle" => v \in run'[q].overtakenBy
    <2>1. run[q] \in RunState
      BY DEF ShapeInv, TypeOK
    <2>2. run'[q] = IF run[q].phase # "idle"
                    THEN [run[q] EXCEPT !.overtakenBy = @ \cup {v}]
                    ELSE run[q]
      BY <1>7 DEF CommitRows, Active
    <2> QED
      BY <2>1, <2>2 DEF RunState
  <1>8. RowsLockedOnce'
    <2>1. Locked(r)' = {}
      BY <1>6 DEF Locked
    <2>2. \A q \in Runs : q # r => Locked(q)' = Locked(q)
      BY <1>7 DEF Locked, Batch
    <2> QED
      BY <2>1, <2>2 DEF RowsLockedOnce, SafeInv
  <1>9. ASSUME NEW q \in Runs PROVE RunSafe(run[q])'
    <2>1. CASE q = r
      <3>1. run[r].stations = n
        BY DEF SafeInv, RunsSafe, RunSafe
      <3> QED
        BY <1>1, <1>2, <1>6, <2>1, <3>1 DEF RunSafe
    <2>2. CASE q # r
      <3>1. RunSafe(run[q]) /\ run[q] \in RunState
        BY DEF SafeInv, RunsSafe, ShapeInv, TypeOK
      <3>2. ASSUME run[q].phase \in {"begin", "upsert"},
                   NEW s \in Stations, NEW f \in Fuels,
                   prices'[s][f] > run[q].feed
            PROVE  prices'[s][f] \in run'[q].overtakenBy
        <4>1. prices'[s][f] \in {v, prices[s][f]}
          BY <1>1, <1>2, UpsertedCell
        <4> QED
          BY <1>7, <2>2, <3>1, <3>2, <4>1 DEF RunSafe
      <3>3. run'[q].ok => /\ run'[q].phase = "log"
                          /\ run'[q].feed \in applied'
                          /\ run'[q].stations = Len(published'[run'[q].feed])
        BY <1>2, <1>7, <2>2, <3>1 DEF RunSafe
      <3>4. run'[q].tx = "open" =>
              /\ run'[q].stations = run'[q].next - 1
              /\ \A i \in 1..(run'[q].next - 1) :
                    published'[run'[q].feed][i].bad = "none"
        BY <1>7, <2>2, <3>1 DEF RunSafe
      <3> QED
        BY <1>7, <2>2, <3>2, <3>3, <3>4 DEF RunSafe
    <2> QED
      BY <2>1, <2>2
  <1> QED
    BY <1>3, <1>4, <1>5, <1>8, <1>9 DEF SafeInv, RunsSafe

\* SafeInv does not depend on the rest of the state.
LEMMA SafeStutter ==
    ASSUME SafeInv,
           UNCHANGED <<run, published, stationRows, prices, log, applied>>
    PROVE  SafeInv'
  <1>1. RunsSafe'
    BY DEF SafeInv, RunsSafe, RunSafe
  <1>2. ReportedIsWhole'
    BY DEF SafeInv, ReportedIsWhole
  <1>3. StoredPriceIsPublished'
    BY DEF SafeInv, StoredPriceIsPublished
  <1>4. RowsLockedOnce'
    BY DEF SafeInv, RowsLockedOnce, Locked, Batch
  <1> QED
    BY <1>1, <1>2, <1>3, <1>4 DEF SafeInv, AppliedPublished

\* An upsert adds one station to the rows a run holds, one nobody else holds.
LEMMA UpsertStationSafe ==
    ASSUME ShapeInv, SafeInv, NEW r \in Runs, UpsertStation(r)
    PROVE  SafeInv'
  <1>1. run \in [Runs -> RunState] /\ run[r] \in RunState /\ RunSafe(run[r])
    BY DEF ShapeInv, TypeOK, SafeInv, RunsSafe
  <1>2. /\ run'[r].next = run[r].next + 1
        /\ run'[r].stations = run[r].stations + 1
        /\ run'[r].phase = "upsert" /\ run'[r].tx = "open"
        /\ run'[r].feed = run[r].feed /\ run'[r].ok = run[r].ok
        /\ run'[r].overtakenBy = run[r].overtakenBy
    BY <1>1 DEF UpsertStation, InLoop, RunState
  <1>3. /\ \A q \in Runs \ {r} : run'[q] = run[q]
        /\ UNCHANGED <<published, stationRows, prices, applied, log>>
    BY <1>1 DEF UpsertStation, tables
  <1>4. run[r].next \in Nat \ {0} /\ run[r].stations \in Nat
    BY <1>1, WellFormedRuns
    DEF UpsertStation, InLoop, WellFormed, RunState
  <1>5. RunSafe(run'[r])
    <2>1. \A i \in 1..(run'[r].next - 1) : published[run'[r].feed][i].bad = "none"
      <3>1. \A i \in 1..(run'[r].next - 1) :
              i \in 1..(run[r].next - 1) \/ i = run[r].next
        BY <1>2, <1>4
      <3>2. published[run[r].feed][run[r].next].bad = "none"
        BY DEF UpsertStation, CurrentEntry, Batch
      <3> QED
        BY <1>1, <1>2, <3>1, <3>2 DEF UpsertStation, RunSafe
    <2> QED
      BY <1>1, <1>2, <1>4, <2>1 DEF RunSafe, UpsertStation, InLoop
  <1>6. ASSUME NEW q \in Runs \ {r} PROVE Locked(r)' \cap Locked(q) = {}
    <2>1. CurrentEntry(r).station \notin Locked(q)
      BY DEF UpsertStation, LockedByOther
    <2>2. Locked(r)' \subseteq Locked(r) \cup {CurrentEntry(r).station}
      <3>1. \A i \in 1..(run'[r].next - 1) :
              i \in 1..(run[r].next - 1) \/ i = run[r].next
        BY <1>2, <1>4
      <3> QED
        BY <1>2, <1>3, <3>1
        DEF UpsertStation, Locked, StationsIn, CurrentEntry, Batch
    <2>3. Locked(r) \cap Locked(q) = {}
      BY DEF SafeInv, RowsLockedOnce
    <2> QED
      BY <2>1, <2>2, <2>3
  <1>7. ReportedIsWhole'
    BY <1>3, ReportedStays
  <1> QED
    BY <1>3, <1>5, <1>6, <1>7, OneRunSafe

\* Every other step of a run: the rows it holds stay or are given up.
LEMMA RunStepSafe ==
    ASSUME ShapeInv, SafeInv, NEW r \in Runs, RunStep(r)
    PROVE  SafeInv'
  <1>t. /\ run \in [Runs -> RunState] /\ run[r] \in RunState
        /\ RunSafe(run[r]) /\ WellFormed(run[r])
    BY WellFormedRuns DEF ShapeInv, TypeOK, SafeInv, RunsSafe
  <1>g. ASSUME \A q \in Runs \ {r} : run'[q] = run[q],
               UNCHANGED <<published, stationRows, prices, applied, log>>,
               run'[r].tx # "open", RunSafe(run'[r])
        PROVE  SafeInv'
    <2>1. Locked(r)' = {}
      BY <1>g DEF Locked
    <2>2. ReportedIsWhole'
      BY <1>g, ReportedStays
    <2> QED
      BY <1>g, <2>1, <2>2, OneRunSafe
  <1>1. CASE FetchAndParse(r)
    <2>1. /\ run'[r].phase = "begin" /\ run'[r].feed = Len(published)
          /\ run'[r].tx = "none" /\ run'[r].ok = FALSE
      BY <1>t, <1>1 DEF FetchAndParse, WellFormed, RunSafe, RunState
    <2>2. ASSUME NEW s \in Stations, NEW f \in Fuels
          PROVE  ~(prices[s][f] > Len(published))
      <3>1. prices[s][f] \in FeedNo /\ Len(published) \in Nat
        BY DEF ShapeInv, TypeOK
      <3>2. prices[s][f] # 0 => prices[s][f] \in 1..Len(published)
        BY DEF SafeInv, StoredPriceIsPublished, AppliedPublished
      <3> QED
        BY <3>1, <3>2 DEF FeedNo
    <2>3. RunSafe(run'[r])
      BY <1>1, <2>1, <2>2 DEF FetchAndParse, tables, RunSafe
    <2> QED
      BY <1>t, <1>1, <1>g, <2>1, <2>3 DEF FetchAndParse, tables
  <1>2. CASE FetchOrParseFails(r)
    <2>1. run'[r].phase = "log" /\ run'[r].tx = "none" /\ run'[r].ok = FALSE
      BY <1>t, <1>2 DEF FetchOrParseFails, WellFormed, RunSafe, RunState
    <2> QED
      BY <1>t, <1>2, <1>g, <2>1 DEF FetchOrParseFails, tables, RunSafe
  <1>3. CASE BeginTx(r)
    <2>1. /\ run'[r].feed = run[r].feed /\ run'[r].ok = FALSE
          /\ run'[r].overtakenBy = run[r].overtakenBy
          /\ run'[r].next = 1 /\ run'[r].stations = 0
          /\ \A q \in Runs \ {r} : run'[q] = run[q]
          /\ UNCHANGED <<published, stationRows, prices, applied, log>>
      BY <1>t, <1>3 DEF BeginTx, WellFormed, RunSafe, RunState, tables
    <2>2. RunSafe(run'[r])
      BY <1>t, <1>3, <2>1 DEF BeginTx, RunSafe
    <2>3. Locked(r)' = {}
      BY <2>1 DEF Locked, StationsIn
    <2>4. ReportedIsWhole'
      BY <2>1, ReportedStays
    <2> QED
      BY <2>1, <2>2, <2>3, <2>4, OneRunSafe
  <1>4. CASE UpsertStation(r)
    BY <1>4, UpsertStationSafe
  <1>5. CASE RejectRow(r) \/ SkipRow(r) \/ DeadlockVictim(r)
    <2>1. /\ run'[r].phase = "upsert" /\ run'[r].tx = "aborted"
          /\ run'[r].feed = run[r].feed /\ run'[r].ok = FALSE
          /\ run'[r].overtakenBy = run[r].overtakenBy
          /\ \A q \in Runs \ {r} : run'[q] = run[q]
          /\ UNCHANGED <<published, stationRows, prices, applied, log>>
      <3>1. run[r].phase = "upsert" /\ run[r].ok = FALSE
        BY <1>t, <1>5
        DEF RejectRow, SkipRow, DeadlockVictim, Blocked, InLoop, RunSafe, RunState
      <3>2. CASE RejectRow(r)
        BY <1>t, <3>1, <3>2 DEF RejectRow, RunState, tables
      <3>3. CASE SkipRow(r)
        BY <1>t, <3>1, <3>3 DEF SkipRow, RunState, tables
      <3>4. CASE DeadlockVictim(r)
        BY <1>t, <3>1, <3>4 DEF DeadlockVictim, RunState, tables
      <3> QED
        BY <1>5, <3>2, <3>3, <3>4
    <2>2. RunSafe(run'[r])
      <3>1. run[r].phase = "upsert"
        BY <1>5 DEF RejectRow, SkipRow, DeadlockVictim, Blocked, InLoop
      <3> QED
        BY <1>t, <2>1, <3>1 DEF RunSafe
    <2> QED
      BY <1>g, <2>1, <2>2
  <1>6. CASE Commit(r)
    BY <1>6, CommitSafe DEF Commit
  <1>7. CASE CommitUnacknowledged(r)
    BY <1>7, CommitSafe DEF CommitUnacknowledged
  <1>8. CASE CommitFails(r)
    <2>1. run'[r].phase = "log" /\ run'[r].tx = "none" /\ run'[r].ok = FALSE
      BY <1>t, <1>8 DEF CommitFails, LoopDone, RunSafe, RunState
    <2> QED
      BY <1>t, <1>8, <1>g, <2>1 DEF CommitFails, tables, RunSafe
  <1>9. CASE LogIngestion(r)
    <2>1. /\ \A q \in Runs \ {r} : run'[q] = run[q]
          /\ run'[r] = Idle
          /\ UNCHANGED <<published, stationRows, prices, applied>>
      BY <1>t, <1>9 DEF LogIngestion
    <2>2. Locked(r)' = {} /\ RunSafe(run'[r])
      BY <2>1 DEF Locked, Idle, RunSafe
    <2>3. ReportedIsWhole'
      BY <1>t, <1>9, <2>1 DEF LogIngestion, ReportedIsWhole, SafeInv, RunSafe
    <2> QED
      BY <2>1, <2>2, <2>3, OneRunSafe
  <1> QED
    BY <1>1, <1>2, <1>3, <1>4, <1>5, <1>6, <1>7, <1>8, <1>9 DEF RunStep

\* The feed, PostgreSQL and the container keep the invariant: crashes give up
\* rows and runs, they write none.
LEMMA EnvironmentSafe ==
    ASSUME ShapeInv, SafeInv,
           PublishFeed \/ DbCrash \/ DbRecover \/ ServiceCrash \/ ServiceRestart
    PROVE  SafeInv'
  <1>t. /\ run \in [Runs -> RunState]
        /\ \A r \in Runs : RunSafe(run[r]) /\ WellFormed(run[r])
    BY WellFormedRuns DEF ShapeInv, TypeOK, SafeInv, RunsSafe
  <1>1. CASE PublishFeed
    <2>1. /\ \A v \in 1..Len(published) : published'[v] = published[v]
          /\ Len(published') = Len(published) + 1 /\ Len(published) \in Nat
          /\ DOMAIN published = 1..Len(published)
          /\ DOMAIN published' = 1..Len(published')
      BY <1>1, PublishFacts DEF ShapeInv, TypeOK
    <2>2. UNCHANGED <<run, stationRows, prices, log, applied>>
      BY <1>1 DEF PublishFeed, tables
    <2>3. applied \subseteq 1..Len(published)
      BY DEF SafeInv, AppliedPublished
    <2>4. AppliedPublished'
      BY <2>1, <2>2, <2>3 DEF AppliedPublished
    <2>5. ReportedIsWhole'
      BY <2>1, <2>2, <2>3 DEF SafeInv, ReportedIsWhole
    <2>6. StoredPriceIsPublished'
      BY <2>1, <2>2, <2>3 DEF SafeInv, StoredPriceIsPublished
    <2>7. ASSUME NEW r \in Runs, run[r].phase \in {"begin", "upsert"}
          PROVE  published'[run[r].feed] = published[run[r].feed]
      <3>1. run[r].feed \in 1..Len(published)
        BY <1>t, <2>1, <2>7 DEF WellFormed, RunState, FeedNo
      <3> QED
        BY <2>1, <3>1
    <2>8. ASSUME NEW r \in Runs PROVE RunSafe(run[r])'
      <3>1. run[r].tx = "open" => run[r].phase = "upsert"
        BY <1>t DEF WellFormed
      <3>2. run[r].ok => published'[run[r].feed] = published[run[r].feed]
        BY <1>t, <2>1, <2>3 DEF RunSafe
      <3> QED
        BY <1>t, <2>2, <2>7, <3>1, <3>2 DEF RunSafe
    <2>9. ASSUME NEW r \in Runs PROVE Locked(r)' = Locked(r)
      <3>1. run[r].tx = "open" => run[r].phase = "upsert"
        BY <1>t DEF WellFormed
      <3> QED
        BY <2>2, <2>7, <3>1 DEF Locked, StationsIn, Batch
    <2>10. RowsLockedOnce'
      BY <2>9 DEF SafeInv, RowsLockedOnce
    <2> QED
      BY <2>4, <2>5, <2>6, <2>8, <2>10 DEF SafeInv, RunsSafe
  <1>2. CASE DbCrash
    <2>1. UNCHANGED <<published, stationRows, prices, log, applied>>
      BY <1>2 DEF DbCrash, tables
    <2>2. ASSUME NEW r \in Runs
          PROVE  /\ run'[r].tx # "open"
                 /\ run'[r].phase = run[r].phase /\ run'[r].feed = run[r].feed
                 /\ run'[r].ok = run[r].ok /\ run'[r].stations = run[r].stations
                 /\ run'[r].overtakenBy = run[r].overtakenBy
      <3>1. run[r] \in RunState
        BY <1>t
      <3>2. run'[r] = IF run[r].tx = "open" THEN [run[r] EXCEPT !.tx = "aborted"]
                      ELSE run[r]
        BY <1>2 DEF DbCrash
      <3> QED
        BY <3>1, <3>2 DEF RunState
    <2>3. RunsSafe'
      BY <1>t, <2>1, <2>2 DEF RunsSafe, RunSafe
    <2>4. RowsLockedOnce'
      BY <2>2 DEF RowsLockedOnce, Locked
    <2> QED
      BY <2>1, <2>3, <2>4
      DEF SafeInv, AppliedPublished, ReportedIsWhole, StoredPriceIsPublished
  <1>3. CASE ServiceCrash
    <2>1. UNCHANGED <<published, stationRows, prices, log, applied>>
      BY <1>3 DEF ServiceCrash, tables
    <2>2. \A r \in Runs : run'[r] = Idle
      BY <1>3 DEF ServiceCrash
    <2>3. RunsSafe'
      BY <2>2 DEF RunsSafe, RunSafe, Idle
    <2>4. RowsLockedOnce'
      BY <2>2 DEF RowsLockedOnce, Locked, Idle
    <2> QED
      BY <2>1, <2>3, <2>4
      DEF SafeInv, AppliedPublished, ReportedIsWhole, StoredPriceIsPublished
  <1>4. CASE DbRecover \/ ServiceRestart
    BY <1>4, SafeStutter DEF DbRecover, ServiceRestart, tables
  <1> QED
    BY <1>1, <1>2, <1>3, <1>4

\* Every step keeps the strengthened safety invariant.
LEMMA NextSafe == ShapeInv /\ SafeInv /\ [Next]_vars => SafeInv'
  <1> SUFFICES ASSUME ShapeInv, SafeInv, [Next]_vars PROVE SafeInv'
    OBVIOUS
  <1>t. run \in [Runs -> RunState] /\ \A r \in Runs : RunSafe(run[r])
    BY DEF ShapeInv, TypeOK, SafeInv, RunsSafe
  <1>1. CASE \/ Connect
             \/ \E r \in Runs : CronTick(r)
    <2>1. PICK r \in Runs : run' = [run EXCEPT ![r] = Started]
      BY <1>1 DEF Connect, CronTick
    <2>2. /\ \A q \in Runs \ {r} : run'[q] = run[q]
          /\ run'[r] = Started
          /\ UNCHANGED <<published, stationRows, prices, log, applied>>
      BY <1>1, <1>t, <2>1 DEF Connect, CronTick, tables
    <2>3. RunSafe(run'[r]) /\ Locked(r)' = {}
      BY <2>2 DEF RunSafe, Locked, Started, Idle
    <2>4. ReportedIsWhole'
      BY <2>2, ReportedStays
    <2> QED
      BY <2>2, <2>3, <2>4, OneRunSafe
  <1>2. CASE ConnectFails \/ StartScheduler \/ UNCHANGED vars
    BY <1>2, SafeStutter DEF ConnectFails, StartScheduler, vars, tables
  <1>3. ASSUME NEW r \in Runs, RunStep(r) PROVE SafeInv'
    BY <1>3, RunStepSafe
  <1>4. CASE PublishFeed \/ DbCrash \/ DbRecover \/ ServiceCrash \/ ServiceRestart
    BY <1>4, EnvironmentSafe
  <1> QED
    BY <1>1, <1>2, <1>3, <1>4 DEF Next, Main

\* The inductive invariant of the service: what the runs hold and have counted,
\* together with the tables and the log (store.go UpsertStations).
THEOREM SafetyInvariant == Spec => [](ShapeInv /\ SafeInv)
  <1>1. Init => SafeInv
    BY InitSafe
  <1>2. SafeInv /\ ShapeInv /\ [Next]_vars => SafeInv'
    BY NextSafe
  <1> QED
    BY <1>1, <1>2, ShapeInvariant, PTL DEF Spec

\* Success rows of ingestion_log: the feed is in the tables, all of it.
THEOREM ReportsAreWhole == Spec => []ReportedIsWhole
  <1>1. SafeInv => ReportedIsWhole
    BY DEF SafeInv
  <1> QED
    BY <1>1, SafetyInvariant, PTL

\* Every stored price was published, committed, and has its station row.
THEOREM StoredPricesArePublished == Spec => []StoredPriceIsPublished
  <1>1. SafeInv => StoredPriceIsPublished
    BY DEF SafeInv
  <1> QED
    BY <1>1, SafetyInvariant, PTL

-------------------------------------------------------------------------------
(* What one step may do to the tables                                      *)

\* The tables change by the commit of a run or the log row of a run, the
\* published feeds by PublishFeed.
LEMMA TableSteps ==
    ASSUME [Next]_vars
    PROVE  \/ \E r \in Runs, ok \in BOOLEAN :
                 /\ LoopDone(r) /\ run[r].tx = "open" /\ CommitRows(r, ok)
                 /\ UNCHANGED <<published, log>>
           \/ \E r \in Runs : LogIngestion(r)
           \/ PublishFeed
           \/ UNCHANGED <<published, stationRows, prices, log, applied>>
  <1>1. ASSUME NEW r \in Runs, RunStep(r)
        PROVE  \/ \E ok \in BOOLEAN :
                     /\ LoopDone(r) /\ run[r].tx = "open" /\ CommitRows(r, ok)
                     /\ UNCHANGED <<published, log>>
               \/ LogIngestion(r)
               \/ UNCHANGED <<published, stationRows, prices, log, applied>>
    <2>1. CASE Commit(r)
      BY <2>1 DEF Commit
    <2>2. CASE CommitUnacknowledged(r)
      BY <2>2 DEF CommitUnacknowledged
    <2>3. CASE \/ FetchAndParse(r) \/ FetchOrParseFails(r) \/ BeginTx(r)
               \/ UpsertStation(r) \/ RejectRow(r) \/ SkipRow(r)
               \/ DeadlockVictim(r) \/ CommitFails(r)
      BY <2>3
      DEF FetchAndParse, FetchOrParseFails, BeginTx, UpsertStation, RejectRow,
          SkipRow, DeadlockVictim, CommitFails, tables
    <2> QED
      BY <1>1, <2>1, <2>2, <2>3 DEF RunStep
  <1>2. ASSUME \/ Main \/ \E r \in Runs : CronTick(r)
               \/ DbCrash \/ DbRecover \/ ServiceCrash \/ ServiceRestart
               \/ UNCHANGED vars
        PROVE  UNCHANGED <<published, stationRows, prices, log, applied>>
    BY <1>2
    DEF Main, Connect, ConnectFails, StartScheduler, CronTick, DbCrash,
        DbRecover, ServiceCrash, ServiceRestart, vars, tables
  <1> QED
    BY <1>1, <1>2 DEF Next

\* A committing run is at the end of its batch, which holds no refused row.
LEMMA CommittingRun ==
    ASSUME ShapeInv, SafeInv, NEW r \in Runs, LoopDone(r), run[r].tx = "open"
    PROVE  /\ run[r].feed \in 1..Len(published)
           /\ run[r].next - 1 = Len(published[run[r].feed])
           /\ \A i \in DOMAIN published[run[r].feed] :
                  published[run[r].feed][i].bad = "none"
  <1>1. WellFormed(run[r]) /\ RunSafe(run[r]) /\ run[r].phase = "upsert"
    BY WellFormedRuns DEF LoopDone, SafeInv, RunsSafe
  <1>2. run[r].feed \in 1..Len(published)
    BY <1>1 DEF WellFormed, RunState, FeedNo, ShapeInv, TypeOK
  <1>3. Len(published[run[r].feed]) \in Nat
        /\ DOMAIN published[run[r].feed] = 1..Len(published[run[r].feed])
    BY <1>2, PublishedBatch DEF ShapeInv
  <1>4. run[r].next - 1 = Len(published[run[r].feed])
    BY <1>1, <1>3 DEF WellFormed, RunState, LoopDone, Batch
  <1> QED
    BY <1>1, <1>2, <1>3, <1>4 DEF RunSafe

\* A price goes back to an older feed only if a newer one was committed while
\* the run that writes it was in flight.
THEOREM RollbackNeedsOverlap == Spec => NoSilentRollback
  <1> DEFINE Overtaken ==
        \A s \in Stations, f \in Fuels :
          prices'[s][f] < prices[s][f] =>
            \E r \in Runs : /\ run[r].feed = prices'[s][f]
                            /\ prices[s][f] \in run[r].overtakenBy
  <1>1. ShapeInv /\ SafeInv /\ [Next]_vars => Overtaken
    <2> SUFFICES ASSUME ShapeInv, SafeInv, [Next]_vars,
                        NEW s \in Stations, NEW f \in Fuels,
                        prices'[s][f] < prices[s][f]
                 PROVE  \E r \in Runs : /\ run[r].feed = prices'[s][f]
                                        /\ prices[s][f] \in run[r].overtakenBy
      OBVIOUS
    <2>1. prices[s][f] \in Nat
      BY DEF ShapeInv, TypeOK, FeedNo
    <2>2. CASE prices' = prices
      BY <2>1, <2>2
    <2>3. ASSUME NEW r \in Runs, NEW ok \in BOOLEAN,
                 LoopDone(r), run[r].tx = "open", CommitRows(r, ok)
          PROVE  /\ run[r].feed = prices'[s][f]
                 /\ prices[s][f] \in run[r].overtakenBy
      <3>1. prices' = Upserted(prices, Batch(r), run[r].next - 1, run[r].feed)
        BY <2>3 DEF CommitRows
      <3>2. prices'[s][f] \in {run[r].feed, prices[s][f]}
        BY <3>1 DEF Upserted
      <3>3. prices'[s][f] = run[r].feed /\ prices[s][f] > run[r].feed
        <4>1. run[r].feed \in Int
          BY <2>3, CommittingRun DEF ShapeInv, TypeOK
        <4> QED
          BY <2>1, <3>2, <4>1
      <3>4. RunSafe(run[r]) /\ run[r].phase = "upsert"
        BY <2>3 DEF SafeInv, RunsSafe, LoopDone
      <3> QED
        BY <3>3, <3>4 DEF RunSafe
    <2> QED
      BY <2>2, <2>3, TableSteps DEF LogIngestion, PublishFeed, tables
  <1>2. ShapeInv /\ SafeInv /\ [Next]_vars => [Overtaken]_vars
    BY <1>1
  <1> QED
    BY <1>2, SafetyInvariant, PTL DEF Spec, NoSilentRollback

\* A station or a price that is stored stays stored: only its value is replaced.
THEOREM RowsStay == Spec => RowsAreKept
  <1> DEFINE Kept == /\ stationRows \subseteq stationRows'
                     /\ \A s \in Stations, f \in Fuels :
                           prices[s][f] # 0 => prices'[s][f] # 0
  <1>1. ShapeInv /\ SafeInv /\ [Next]_vars => Kept
    <2> SUFFICES ASSUME ShapeInv, SafeInv, [Next]_vars PROVE Kept
      OBVIOUS
    <2>1. ASSUME NEW r \in Runs, NEW ok \in BOOLEAN,
                 LoopDone(r), run[r].tx = "open", CommitRows(r, ok)
          PROVE  Kept
      <3>1. run[r].feed \in 1..Len(published) /\ Len(published) \in Nat
        BY <2>1, CommittingRun DEF ShapeInv, TypeOK
      <3>2. ASSUME NEW s \in Stations, NEW f \in Fuels
            PROVE  prices'[s][f] \in {run[r].feed, prices[s][f]}
        BY <2>1 DEF CommitRows, Upserted
      <3>3. run[r].feed # 0
        BY <3>1
      <3>4. stationRows \subseteq stationRows'
        BY <2>1 DEF CommitRows
      <3> QED
        BY <3>2, <3>3, <3>4
    <2>2. CASE UNCHANGED <<stationRows, prices>>
      BY <2>2
    <2> HIDE DEF Kept
    <2> QED
      BY <2>1, <2>2, TableSteps DEF LogIngestion, PublishFeed, tables
  <1>2. ShapeInv /\ SafeInv /\ [Next]_vars => [Kept]_vars
    BY <1>1
  <1> QED
    BY <1>2, SafetyInvariant, PTL DEF Spec, RowsAreKept

\* The service implements PriceStore: whole published feeds, nothing else.
THEOREM ImplementsPriceStore == Spec => WholeFeedsOnly
  <1>1. Init => Store!Init
    BY DEF Init, Store!Init, Store!NoPrices, NoPrices
  <1>2. ShapeInv /\ SafeInv /\ [Next]_vars => [Store!Next]_Store!vars
    <2> SUFFICES ASSUME ShapeInv, SafeInv, [Next]_vars
                 PROVE  [Store!Next]_Store!vars
      OBVIOUS
    <2>1. DOMAIN published = 1..Len(published)
      BY DEF ShapeInv, TypeOK
    <2>2. ASSUME NEW r \in Runs, NEW ok \in BOOLEAN,
                 LoopDone(r), run[r].tx = "open", CommitRows(r, ok),
                 UNCHANGED <<published, log>>
          PROVE  Store!Next
      <3>1. Store!Apply(run[r].feed)
        BY <2>2, CommittingRun
        DEF CommitRows, Batch, Store!Apply, Store!StationsIn, Store!Upserted,
            StationsIn, Upserted
      <3> QED
        BY <2>1, <2>2, <3>1, CommittingRun DEF Store!Next
    <2>3. ASSUME NEW r \in Runs, LogIngestion(r)
          PROVE  [Store!Next]_Store!vars
      <3>1. RunSafe(run[r]) /\ applied \subseteq 1..Len(published)
        BY DEF SafeInv, RunsSafe, AppliedPublished
      <3>2. CASE run[r].ok /\ dbUp
        <4>1. run[r].feed \in applied
          BY <3>1, <3>2 DEF RunSafe
        <4> DEFINE row == [feed |-> run[r].feed, success |-> run[r].ok,
                           stations |-> run[r].stations]
        <4>2. log' = log \cup {row}
          BY <2>3, <3>2 DEF LogIngestion
        <4>3. row.success /\ row.feed = run[r].feed
          BY <3>2
        <4> HIDE DEF row
        <4>4. {y.feed : y \in {x \in log' : x.success}}
                = {y.feed : y \in {x \in log : x.success}} \cup {run[r].feed}
          BY <4>2, <4>3
        <4>5. Store!Report(run[r].feed)
          BY <2>3, <4>1, <4>4 DEF LogIngestion, Store!Report
        <4>6. run[r].feed \in DOMAIN published
          BY <2>1, <3>1, <4>1
        <4>7. Store!Next
          BY <4>5, <4>6 DEF Store!Next, Store!Report, Store!Apply
        <4> QED
          BY <4>7
      <3>3. CASE ~(run[r].ok /\ dbUp)
        BY <2>3, <3>3 DEF LogIngestion, Store!vars
      <3> QED
        BY <3>2, <3>3
    <2>4. CASE PublishFeed
      BY <2>4 DEF PublishFeed, tables, Store!Next, Store!Publish
    <2>5. CASE UNCHANGED <<published, stationRows, prices, log, applied>>
      BY <2>5 DEF Store!vars
    <2> QED
      BY <2>2, <2>3, <2>4, <2>5, TableSteps
  <1> QED
    BY <1>1, <1>2, SafetyInvariant, PTL DEF Spec, WholeFeedsOnly, Store!Spec

-------------------------------------------------------------------------------
(* One refused row loses the feed                                          *)

\* No feed with a row that PostgreSQL refuses is ever in the tables, however
\* many of its rows were good: the general form of what the run
\* ingestion_bad_row shows (store.go "skip station" ... continue).
RefusedFeedsStayOut ==
    \A v \in applied : \A i \in DOMAIN published[v] : published[v][i].bad = "none"

\* The only step that puts a feed into the tables is the commit of a run whose
\* transaction has met no refused row.
THEOREM RefusedFeedsAreLost == Spec => []RefusedFeedsStayOut
  <1>1. Init => RefusedFeedsStayOut
    BY DEF Init, RefusedFeedsStayOut
  <1>2. ShapeInv /\ SafeInv /\ RefusedFeedsStayOut /\ [Next]_vars
          => RefusedFeedsStayOut'
    <2> SUFFICES ASSUME ShapeInv, SafeInv, RefusedFeedsStayOut, [Next]_vars
                 PROVE  RefusedFeedsStayOut'
      OBVIOUS
    <2>1. ASSUME NEW r \in Runs, NEW ok \in BOOLEAN,
                 LoopDone(r), run[r].tx = "open", CommitRows(r, ok),
                 UNCHANGED <<published, log>>
          PROVE  RefusedFeedsStayOut'
      <3>1. applied' = applied \cup {run[r].feed}
        BY <2>1 DEF CommitRows
      <3>2. \A i \in DOMAIN published[run[r].feed] :
                published[run[r].feed][i].bad = "none"
        BY <2>1, CommittingRun
      <3> QED
        BY <2>1, <3>1, <3>2 DEF RefusedFeedsStayOut
    <2>2. CASE PublishFeed
      <3>1. \A v \in applied : published'[v] = published[v]
        BY <2>2, PublishFacts DEF ShapeInv, SafeInv, AppliedPublished
      <3> QED
        BY <2>2, <3>1 DEF PublishFeed, tables, RefusedFeedsStayOut
    <2>3. CASE \/ \E r \in Runs : LogIngestion(r)
               \/ UNCHANGED <<published, stationRows, prices, log, applied>>
      BY <2>3 DEF LogIngestion, RefusedFeedsStayOut
    <2> QED
      BY <2>1, <2>2, <2>3, TableSteps
  <1> QED
    BY <1>1, <1>2, SafetyInvariant, PTL DEF Spec
===============================================================================
