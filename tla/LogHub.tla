-------------------------------- MODULE LogHub --------------------------------
(***************************************************************************)
(* The log stream of the ingestion service (main.go, logHub): every line   *)
(* the process logs is offered to the SSE handlers, each with a buffered   *)
(* channel of its own.  The standard logger writes one line at a time and  *)
(* waits for broadcastWriter.Write, so a line that could not be handed     *)
(* over would stop every goroutine that logs, the ingestion run included.  *)
(*                                                                         *)
(* Lines are numbered in the order they are logged.                        *)
(***************************************************************************)
EXTENDS Integers, Sequences

CONSTANTS
    Streams,    \* GET /logs requests
    Capacity,   \* size of a channel (64 in the code)
    MaxLines    \* bound of the model: lines logged in a behaviour

ASSUME LogHubAssumption ==
    /\ Capacity \in Nat \ {0}
    /\ MaxLines \in Nat

VARIABLES
    step,       \* step[s]: where the handler of s is in logsHandler
    clients,    \* the keys of hub.clients
    ch,         \* ch[s]: lines in the channel of s
    closed,     \* channels that have been closed
    written,    \* written[s]: lines sent to the browser
    logged,     \* number of the last line given to Write
    todo,       \* channels publish has not reached yet, under the mutex
    publishing, \* publish holds the mutex
    since,      \* history: logged when s subscribed
    filled      \* history: streams whose channel has been full

vars == <<step, clients, ch, closed, written, logged, todo, publishing, since, filled>>
hub == <<clients, logged, todo, publishing>>

Init ==
    /\ step = [s \in Streams |-> "opening"]
    /\ clients = {}
    /\ ch = [s \in Streams |-> <<>>]
    /\ closed = {}
    /\ written = [s \in Streams |-> <<>>]
    /\ logged = 0
    /\ todo = {}
    /\ publishing = FALSE
    /\ since = [s \in Streams |-> 0]
    /\ filled = {}

\* The mutex is held by subscribe and the first half of unsubscribe for one
\* step each, by publish until it has offered the line to every channel.
MutexFree == ~publishing

-------------------------------------------------------------------------------
(* Write and publish                                                       *)

\* The logger hands over the next line and publish takes the mutex.
Publish ==
    /\ MutexFree
    /\ logged < MaxLines
    /\ logged' = logged + 1
    /\ publishing' = TRUE
    /\ todo' = clients
    /\ UNCHANGED <<step, clients, ch, closed, written, since, filled>>

\* Mutant: no default branch, the send waits for room in the channel.
OfferBlocking(s) ==
    /\ s \in todo
    /\ s \notin closed
    /\ Len(ch[s]) < Capacity
    /\ ch' = [ch EXCEPT ![s] = Append(@, logged)]
    /\ filled' = IF Len(ch'[s]) = Capacity THEN filled \cup {s} ELSE filled
    /\ todo' = todo \ {s}
    /\ UNCHANGED <<step, clients, closed, written, logged, publishing, since>>

\* Mutant: the oldest line makes room for the new one.
OfferDropOldest(s) ==
    /\ s \in todo
    /\ s \notin closed
    /\ ch' = [ch EXCEPT ![s] = Append(IF Len(@) >= Capacity - 1 THEN Tail(@) ELSE @,
                                      logged)]
    /\ filled' = IF Len(ch'[s]) = Capacity THEN filled \cup {s} ELSE filled
    /\ todo' = todo \ {s}
    /\ UNCHANGED <<step, clients, closed, written, logged, publishing, since>>

\* Mutant: a channel that grows instead of dropping.
OfferUnbounded(s) ==
    /\ s \in todo
    /\ s \notin closed
    /\ ch' = [ch EXCEPT ![s] = Append(@, logged)]
    /\ filled' = IF Len(ch'[s]) = Capacity THEN filled \cup {s} ELSE filled
    /\ todo' = todo \ {s}
    /\ UNCHANGED <<step, clients, closed, written, logged, publishing, since>>

\* Mutant: a stream that has been full once is not offered anything any more.
OfferUnlessSlow(s) ==
    /\ s \in todo
    /\ s \notin closed
    /\ ch' = IF s \notin filled THEN [ch EXCEPT ![s] = Append(@, logged)] ELSE ch
    /\ filled' = IF Len(ch'[s]) = Capacity THEN filled \cup {s} ELSE filled
    /\ todo' = todo \ {s}
    /\ UNCHANGED <<step, clients, closed, written, logged, publishing, since>>

\* select { case ch <- line: default: }.  On a closed channel it would panic.
Offer(s) ==
    /\ s \in todo
    /\ s \notin closed
    /\ ch' = IF Len(ch[s]) < Capacity THEN [ch EXCEPT ![s] = Append(@, logged)] ELSE ch
    /\ filled' = IF Len(ch'[s]) = Capacity THEN filled \cup {s} ELSE filled
    /\ todo' = todo \ {s}
    /\ UNCHANGED <<step, clients, closed, written, logged, publishing, since>>

\* Mutant: the mutex is not released.
PublishKeepsMutex ==
    /\ publishing /\ todo = {}
    /\ UNCHANGED vars

PublishReturns ==
    /\ publishing /\ todo = {}
    /\ publishing' = FALSE
    /\ UNCHANGED <<step, clients, ch, closed, written, logged, todo, since, filled>>

-------------------------------------------------------------------------------
(* logsHandler                                                             *)

Subscribe(s) ==
    /\ step[s] = "opening"
    /\ MutexFree
    /\ clients' = clients \cup {s}
    /\ step' = [step EXCEPT ![s] = "streaming"]
    /\ since' = [since EXCEPT ![s] = logged]
    /\ UNCHANGED <<ch, closed, written, logged, todo, publishing, filled>>

\* Mutant: the line stays in the channel.
ForwardKeeps(s) ==
    /\ step[s] = "streaming"
    /\ ch[s] # <<>>
    /\ Len(written[s]) < MaxLines
    /\ written' = [written EXCEPT ![s] = Append(@, Head(ch[s]))]
    /\ UNCHANGED <<step, ch, closed, hub, since, filled>>

\* One line to the browser.  A slow browser delays this step for ever.
Forward(s) ==
    /\ step[s] = "streaming"
    /\ ch[s] # <<>>
    /\ written' = [written EXCEPT ![s] = Append(@, Head(ch[s]))]
    /\ ch' = [ch EXCEPT ![s] = Tail(@)]
    /\ UNCHANGED <<step, closed, hub, since, filled>>

\* ctx.Done(), whatever is still in the channel.
Disconnect(s) ==
    /\ step[s] = "streaming"
    /\ step' = [step EXCEPT ![s] = "leaving"]
    /\ UNCHANGED <<ch, closed, written, hub, since, filled>>

\* Mutant: unsubscribe deletes its channel without taking the mutex.
DeleteUnlocked(s) ==
    /\ step[s] = "leaving"
    /\ clients' = clients \ {s}
    /\ step' = [step EXCEPT ![s] = "closing"]
    /\ UNCHANGED <<ch, closed, written, logged, todo, publishing, since, filled>>

\* unsubscribe: the channel leaves the map under the mutex ...
Delete(s) ==
    /\ step[s] = "leaving"
    /\ MutexFree
    /\ clients' = clients \ {s}
    /\ step' = [step EXCEPT ![s] = "closing"]
    /\ UNCHANGED <<ch, closed, written, logged, todo, publishing, since, filled>>

\* ... and is closed outside it.
Close(s) ==
    /\ step[s] = "closing"
    /\ closed' = closed \cup {s}
    /\ step' = [step EXCEPT ![s] = "gone"]
    /\ UNCHANGED <<ch, written, hub, since, filled>>

-------------------------------------------------------------------------------

Handler(s) ==
    Subscribe(s) \/ Forward(s) \/ Disconnect(s) \/ Delete(s) \/ Close(s)

Next ==
    \/ Publish \/ PublishReturns
    \/ \E s \in Streams : Offer(s) \/ Handler(s)

Spec == Init /\ [][Next]_vars

(***************************************************************************)
(* Fairness.  publish executes; sync.Mutex hands itself over to a handler  *)
(* that has waited long enough.  Browsers owe nothing: no fairness for     *)
(* Forward and Disconnect, and nothing obliges the process to log.         *)
(***************************************************************************)
Fairness ==
    /\ WF_vars(PublishReturns)
    /\ \A s \in Streams :
        WF_vars(Offer(s)) /\ SF_vars(Subscribe(s)) /\ SF_vars(Delete(s)) /\ WF_vars(Close(s))

FairSpec == Spec /\ Fairness

-------------------------------------------------------------------------------
(* Properties                                                              *)

Lines == 1..MaxLines

\* Types; the channels never exceed their capacity.
TypeOK ==
    /\ step \in [Streams -> {"opening", "streaming", "leaving", "closing", "gone"}]
    /\ clients \subseteq Streams
    /\ ch \in [Streams -> Seq(Lines)]
    /\ \A s \in Streams : Len(ch[s]) <= Capacity
    /\ closed \subseteq Streams
    /\ written \in [Streams -> Seq(Lines)]
    /\ logged \in 0..MaxLines
    /\ todo \subseteq Streams
    /\ publishing \in BOOLEAN
    /\ since \in [Streams -> 0..MaxLines]
    /\ filled \subseteq Streams

\* publish never reaches a closed channel, although unsubscribe closes it
\* outside the mutex (a send on a closed channel would end the process).
NoSendOnClosed == todo \cap closed = {}

\* What a stream has been given: sent to the browser, then what is waiting.
Given(s) == written[s] \o ch[s]

\* A stream whose channel was never full has every line since it subscribed,
\* once each and in order, up to the one being published.
NoLineLost ==
    \A s \in clients \ filled :
        LET last == IF s \in todo THEN logged - 1 ELSE logged
        IN  Given(s) = [i \in 1..(last - since[s]) |-> since[s] + i]

\* Lines may be dropped, never swapped or repeated.
InOrder ==
    \A s \in Streams : \A i, j \in DOMAIN Given(s) :
        i < j => Given(s)[i] < Given(s)[j]

\* The hub implements LineStream: lines are lost to a stream only while its
\* channel is full, and what it took it sends in that order, whatever the
\* handlers, their ends and the channels that are closed do in between.
Promised == INSTANCE LineStream
            WITH served <- clients, owed <- todo,
                 taken <- [s \in Streams |-> Given(s)],
                 sent <- [s \in Streams |-> Len(written[s])]
LinesAreServedInTurn == Promised!Spec

\* Logging never waits for a browser: every line given to Write is done with,
\* however slow the streams are.
LoggingGoesOn == publishing ~> ~publishing

\* A handler whose request has ended leaves the hub and closes its channel.
HandlersLeave == \A s \in Streams : step[s] = "leaving" ~> step[s] = "gone"
===============================================================================
