----------------------------- MODULE LogBroadcast -----------------------------
(***************************************************************************)
(* The log stream of the API: LogBroadcastProvider publishes what ASP.NET  *)
(* logs to a LogBroadcaster, GET /logs subscribes to a LogBroadcaster, and *)
(* Program.cs decides which objects these are.  BuildServiceProvider is    *)
(* called while the services are still being registered: it makes a        *)
(* container of its own, and a "singleton" is one per container.           *)
(***************************************************************************)
EXTENDS Naturals, Sequences

CONSTANTS
    Streams,    \* GET /logs requests
    MaxLines    \* bound of the model: lines logged in a behaviour

VARIABLES
    clients,    \* clients[b]: channels of LogBroadcaster b
    ch,         \* ch[s]: lines written to the channel of s
    open,       \* streams whose request is being served
    logged      \* lines the API has logged so far

vars == <<clients, ch, open, logged>>

\* One LogBroadcaster per container: the one BuildServiceProvider makes for
\* AddProvider, and the one of builder.Build().
Container == {"registration", "app"}
ProviderBroadcaster == "registration"
EndpointBroadcaster == "app"

Init ==
    /\ clients = [b \in Container |-> {}]
    /\ ch = [s \in Streams |-> <<>>]
    /\ open = {}
    /\ logged = 0

\* LogBroadcastLogger.Log, then Publish: TryWrite on an unbounded channel.
Publish ==
    /\ logged < MaxLines
    /\ logged' = logged + 1
    /\ ch' = [s \in Streams |-> IF s \in clients[ProviderBroadcaster]
                               THEN Append(ch[s], logged')
                               ELSE ch[s]]
    /\ UNCHANGED <<clients, open>>

\* GET /logs: Subscribe.
Subscribe(s) ==
    /\ s \notin open
    /\ open' = open \cup {s}
    /\ clients' = [clients EXCEPT ![EndpointBroadcaster] = @ \cup {s}]
    /\ UNCHANGED <<ch, logged>>

\* The request ends: Unsubscribe, the channel is completed and dropped.
Unsubscribe(s) ==
    /\ s \in open
    /\ open' = open \ {s}
    /\ clients' = [clients EXCEPT ![EndpointBroadcaster] = @ \ {s}]
    /\ ch' = [ch EXCEPT ![s] = <<>>]
    /\ UNCHANGED logged

Next ==
    \/ Publish
    \/ \E s \in Streams : Subscribe(s) \/ Unsubscribe(s)

Spec == Init /\ [][Next]_vars

-------------------------------------------------------------------------------

\* LogBroadcaster.cs: it "fans them out to every connected SSE client": a line
\* logged while a stream is open reaches the channel of that stream.
EveryLineIsStreamed ==
    [][\A s \in open : logged' = logged + 1 => ch'[s] = Append(ch[s], logged')]_vars
===============================================================================
