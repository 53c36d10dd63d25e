----------------------------- MODULE MCIngestion -----------------------------
(***************************************************************************)
(* Small instances of Ingestion for TLC: two stations, two fuels, feeds    *)
(* that list the stations in both orders, are empty, or hold a row         *)
(* PostgreSQL refuses.                                                     *)
(***************************************************************************)
EXTENDS Ingestion, TLC

CONSTANTS s1, s2, f1, f2

At(s, fs) == [station |-> s, fuels |-> fs, bad |-> "none"]
Refused(s, fs, why) == [station |-> s, fuels |-> fs, bad |-> why]

\* The second feed has the other order, and another fuel at the second station.
Forward == <<At(s1, {f1}), At(s2, {f1})>>
Backward == <<At(s2, {f2}), At(s1, {f1})>>
BadPrice == <<At(s1, {f1}), Refused(s2, {f2}, "price")>>
BadStation == <<Refused(s1, {f1}, "station"), At(s2, {f1})>>

\* Both orders: runs that overlap can deadlock on the rows.
TwoOrders == {Forward, Backward}
\* What overlapping runs can do to each other, and both kinds of refusal.
MixedBatches == {Forward, Backward, BadPrice, BadStation}
\* Orders and refusals one at a time, and the empty feed, for the liveness runs.
LiveBatches == {Forward, Backward, BadPrice, <<>>}

\* One station whose price overflows NUMERIC(6,3).
BadPriceOnly == {BadPrice}

AnyRun == Permutations(Runs)
===============================================================================
