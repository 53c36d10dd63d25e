--------------------------- MODULE LogBroadcastProofs ---------------------------
(***************************************************************************)
(* The log stream of the API carries nothing, for any number of streams    *)
(* and of lines: what the run api_logs shows of one line holds of all.     *)
(***************************************************************************)
EXTENDS LogBroadcast, TLAPS

\* No browser that follows GET /logs of the API ever has a line to read.
NothingIsStreamed == \A s \in Streams : ch[s] = <<>>

\* The provider publishes to a broadcaster that no endpoint subscribes to.
NobodyListens == clients[ProviderBroadcaster] = {}

WiringInv ==
    /\ clients \in [Container -> SUBSET Streams]
    /\ ch \in [Streams -> Seq(Nat)]
    /\ NobodyListens
    /\ NothingIsStreamed

\* Whatever is logged and whoever subscribes, the two containers of Program.cs
\* keep the lines from the streams (LogBroadcaster.cs, the endpoint /logs).
THEOREM StreamsStayEmpty == Spec => []NothingIsStreamed
  <1>1. Init => WiringInv
    BY DEF Init, WiringInv, NobodyListens, NothingIsStreamed, Container,
           ProviderBroadcaster
  <1>2. WiringInv /\ [Next]_vars => WiringInv'
    <2> SUFFICES ASSUME WiringInv, [Next]_vars PROVE WiringInv'
      OBVIOUS
    <2> USE DEF WiringInv, NobodyListens, NothingIsStreamed, Container,
                ProviderBroadcaster, EndpointBroadcaster
    <2>1. CASE Publish
      <3>1. \A s \in Streams : ch'[s] = ch[s]
        BY <2>1 DEF Publish
      <3>2. ch' = ch
        BY <2>1, <3>1 DEF Publish
      <3> QED
        BY <2>1, <3>2 DEF Publish
    <2>2. ASSUME NEW s \in Streams, Subscribe(s) PROVE WiringInv'
      BY <2>2 DEF Subscribe
    <2>3. ASSUME NEW s \in Streams, Unsubscribe(s) PROVE WiringInv'
      BY <2>3 DEF Unsubscribe
    <2>4. CASE UNCHANGED vars
      BY <2>4 DEF vars
    <2> QED
      BY <2>1, <2>2, <2>3, <2>4 DEF Next
  <1> QED
    BY <1>1, <1>2, PTL DEF Spec, WiringInv
===============================================================================
