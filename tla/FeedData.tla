------------------------------- MODULE FeedData -------------------------------
(***************************************************************************)
(* The data the ingestion service moves: parsed batches of stations and    *)
(* the two tables gas_stations and fuel_prices they are written to.        *)
(*                                                                         *)
(* A price is abstracted to the number of the feed that published it: the  *)
(* n-th document put online by the government has feed number n, and every *)
(* price in it is "the price of feed n".  0 stands for "no row".           *)
(***************************************************************************)
EXTENDS Naturals, Sequences

CONSTANTS
    Stations,   \* station ids that occur in the open-data feed
    Fuels       \* fuel types of FuelTypeMap

(***************************************************************************)
(* A parsed station: its id, the fuels it sells (the parser drops a        *)
(* station left without any price), and which statement of the upsert      *)
(* PostgreSQL refuses for it: none, the gas_stations row (VARCHAR(100),    *)
(* VARCHAR(10)) or one of its fuel_prices rows (NUMERIC(6,3)).             *)
(***************************************************************************)
Entry == [station: Stations, fuels: (SUBSET Fuels) \ {{}},
          bad: {"none", "station", "price"}]

\* What one feed may hold: the []ParsedStation returned by parser.Parse.
ParsedBatch == Seq(Entry)

NoPrices == [s \in Stations |-> [f \in Fuels |-> 0]]

\* The stations named by the first n entries of a batch.
StationsIn(batch, n) == {batch[i].station : i \in 1..n}

\* Mutant: the price is written for every fuel of the station.
UpsertedAllFuels(table, batch, n, v) ==
    [s \in Stations |-> [f \in Fuels |->
        IF \E i \in 1..n : batch[i].station = s THEN v ELSE table[s][f]]]

\* Mutant: the price table is emptied before the feed is written.
UpsertedAfresh(table, batch, n, v) ==
    [s \in Stations |-> [f \in Fuels |->
        IF \E i \in 1..n : batch[i].station = s /\ f \in batch[i].fuels
        THEN v
        ELSE 0]]

\* The first n entries of the batch of feed v written over a price table:
\* INSERT ... ON CONFLICT (station_id, fuel_type) DO UPDATE.
Upserted(table, batch, n, v) ==
    [s \in Stations |-> [f \in Fuels |->
        IF \E i \in 1..n : batch[i].station = s /\ f \in batch[i].fuels
        THEN v
        ELSE table[s][f]]]
===============================================================================
