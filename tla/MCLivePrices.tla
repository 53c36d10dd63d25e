----------------------------- MODULE MCLivePrices -----------------------------
(***************************************************************************)
(* Small instances of LivePrices: one page that is used, with a station    *)
(* from the first feed on, and the session of a page that was closed, with *)
(* no station before the last version of the tables.                       *)
(***************************************************************************)
EXTENDS LivePrices

CONSTANTS c1, c2

FromTheFirst == [c \in Clients |-> 1]
LaterForTheSecond == [c \in Clients |-> IF c = c1 THEN 1 ELSE MaxVersion]
===============================================================================
