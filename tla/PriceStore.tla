------------------------------ MODULE PriceStore ------------------------------
(***************************************************************************)
(* What the ingestion service promises to the readers of the database:     *)
(* the tables change by whole feeds only, each of them a feed that was     *)
(* really published, and a success is reported only for a feed that is in. *)
(* How runs overlap, fail, crash and lock rows is not visible here.        *)
(***************************************************************************)
EXTENDS FeedData

CONSTANT Batches    \* the batches the government may publish

VARIABLES
    published,      \* sequence of the batches put online, newest last
    stationRows,    \* ids that have a row in gas_stations
    prices,         \* fuel_prices: station -> fuel -> feed number, 0 = no row
    applied,        \* feeds whose batch has been written
    reported        \* feeds for which ingestion_log has a success row

vars == <<published, stationRows, prices, applied, reported>>

Init ==
    /\ published \in {<<b>> : b \in Batches}
    /\ stationRows = {}
    /\ prices = NoPrices
    /\ applied = {}
    /\ reported = {}

Publish ==
    /\ \E b \in Batches : published' = Append(published, b)
    /\ UNCHANGED <<stationRows, prices, applied, reported>>

Apply(v) ==
    LET batch == published[v] IN
    /\ \A i \in DOMAIN batch : batch[i].bad = "none"
    /\ stationRows' = stationRows \cup StationsIn(batch, Len(batch))
    /\ prices' = Upserted(prices, batch, Len(batch), v)
    /\ applied' = applied \cup {v}
    /\ UNCHANGED <<published, reported>>

Report(v) ==
    /\ v \in applied
    /\ reported' = reported \cup {v}
    /\ UNCHANGED <<published, stationRows, prices, applied>>

Next ==
    \/ Publish
    \/ \E v \in DOMAIN published : Apply(v) \/ Report(v)

Spec == Init /\ [][Next]_vars
===============================================================================
