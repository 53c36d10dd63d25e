----------------------------- MODULE LogHubProofs -----------------------------
(***************************************************************************)
(* Safety of the log stream for any number of streams and lines and any    *)
(* capacity of the channels.                                               *)
(***************************************************************************)
EXTENDS LogHub, TLAPS, SequenceTheorems

(***************************************************************************)
(* Where the handlers are and which channels the hub knows: publish only   *)
(* has channels to serve while it holds the mutex, all of them in the map, *)
(* and the channels in the map are those of handlers that have subscribed  *)
(* and not yet deleted theirs.                                             *)
(***************************************************************************)
MutexInv ==
    /\ ~publishing => todo = {}
    /\ publishing => logged \in Lines
    /\ todo \subseteq clients
    /\ clients = {s \in Streams : step[s] \in {"streaming", "leaving"}}
    /\ closed = {s \in Streams : step[s] = "gone"}

HubInv == TypeOK /\ MutexInv

-------------------------------------------------------------------------------
(* Sequences                                                               *)

\* Moving the head of b to the end of a leaves a \o b as it is.
LEMMA MoveHead ==
    ASSUME NEW S, NEW a \in Seq(S), NEW b \in Seq(S), b # <<>>
    PROVE  Append(a, Head(b)) \o Tail(b) = a \o b
  <1>1. Head(b) \in S /\ Tail(b) \in Seq(S)
    BY HeadTailProperties
  <1>2. Append(a, Head(b)) = a \o <<Head(b)>>
    BY <1>1, AppendIsConcat
  <1>3. <<Head(b)>> \in Seq(S)
    BY <1>1
  <1>4. (a \o <<Head(b)>>) \o Tail(b) = a \o (<<Head(b)>> \o Tail(b))
    BY <1>1, <1>3, ConcatAssociative
  <1>5. <<Head(b)>> \o Tail(b) = b
    <2> DEFINE t == <<Head(b)>> \o Tail(b)
    <2>1. /\ Len(Tail(b)) = Len(b) - 1
          /\ \A i \in 1..Len(Tail(b)) : Tail(b)[i] = b[i + 1]
          /\ Len(b) \in Nat \ {0}
      BY HeadTailProperties, EmptySeq
    <2>2. /\ t \in Seq(S)
          /\ Len(t) = 1 + Len(Tail(b))
          /\ \A i \in 1..(1 + Len(Tail(b))) :
                t[i] = IF i <= 1 THEN Head(b) ELSE Tail(b)[i - 1]
      BY <1>1, <1>3, ConcatProperties
    <2>3. Head(b) = b[1]
      OBVIOUS
    <2>4. \A i \in 1..Len(t) : t[i] = b[i]
      BY <2>1, <2>2, <2>3
    <2> QED
      BY <2>1, <2>2, <2>4, SeqEqual
  <1> QED
    BY <1>2, <1>4, <1>5

\* Appending to the second of two sequences appends to both.
LEMMA AppendSecond ==
    ASSUME NEW S, NEW a \in Seq(S), NEW b \in Seq(S), NEW e \in S
    PROVE  a \o Append(b, e) = Append(a \o b, e)
  <1>1. a \o b \in Seq(S) /\ <<e>> \in Seq(S)
    BY ConcatProperties
  <1>2. Append(b, e) = b \o <<e>> /\ Append(a \o b, e) = (a \o b) \o <<e>>
    BY <1>1, AppendIsConcat
  <1> QED
    BY <1>1, <1>2, ConcatAssociative

-------------------------------------------------------------------------------
(* The mutex                                                               *)

\* The initial states satisfy the invariant of the hub.
LEMMA InitHub == Init => HubInv
  <1> SUFFICES ASSUME Init PROVE HubInv
    OBVIOUS
  <1>1. <<>> \in Seq(Lines) /\ Len(<<>>) = 0
    OBVIOUS
  <1>2. ch \in [Streams -> Seq(Lines)] /\ \A s \in Streams : Len(ch[s]) <= Capacity
    BY <1>1, LogHubAssumption DEF Init
  <1>3. written \in [Streams -> Seq(Lines)] /\ since \in [Streams -> 0..MaxLines]
    BY <1>1, LogHubAssumption DEF Init
  <1>4. step \in [Streams -> {"opening", "streaming", "leaving", "closing", "gone"}]
    BY DEF Init
  <1>5. logged \in 0..MaxLines
    BY LogHubAssumption DEF Init
  <1>6. /\ clients \subseteq Streams /\ closed \subseteq Streams
        /\ todo \subseteq Streams /\ filled \subseteq Streams
        /\ publishing \in BOOLEAN
    BY DEF Init
  <1>7. TypeOK
    BY <1>2, <1>3, <1>4, <1>5, <1>6 DEF TypeOK
  <1> QED
    BY <1>7 DEF Init, HubInv, MutexInv

\* Every step keeps the types.
LEMMA TypeStep == HubInv /\ [Next]_vars => TypeOK'
  <1> SUFFICES ASSUME HubInv, [Next]_vars PROVE TypeOK'
    OBVIOUS
  <1> USE LogHubAssumption
  <1>1. CASE Publish
    BY <1>1 DEF HubInv, TypeOK, MutexInv, Publish, Lines
  <1>2. CASE PublishReturns
    BY <1>2 DEF HubInv, TypeOK, PublishReturns, Lines
  <1>3. ASSUME NEW s \in Streams, Offer(s) PROVE TypeOK'
    <2>1. logged \in Lines
      BY <1>3 DEF HubInv, TypeOK, MutexInv, Offer
    <2> QED
      BY <1>3, <2>1 DEF HubInv, TypeOK, Offer, Lines
  <1>4. ASSUME NEW s \in Streams, Handler(s) PROVE TypeOK'
    <2>1. CASE Subscribe(s)
      BY <2>1 DEF HubInv, TypeOK, Subscribe, Lines
    <2>2. CASE Forward(s)
      <3>1. /\ Head(ch[s]) \in Lines
            /\ Tail(ch[s]) \in Seq(Lines)
            /\ Len(Tail(ch[s])) = Len(ch[s]) - 1
        BY <2>2, HeadTailProperties DEF HubInv, TypeOK, Forward
      <3> QED
        BY <2>2, <3>1 DEF HubInv, TypeOK, Forward, hub
    <2>3. CASE Disconnect(s)
      BY <2>3 DEF HubInv, TypeOK, Disconnect, hub
    <2>4. CASE Delete(s)
      BY <2>4 DEF HubInv, TypeOK, Delete
    <2>5. CASE Close(s)
      BY <2>5 DEF HubInv, TypeOK, Close, hub
    <2> QED
      BY <1>4, <2>1, <2>2, <2>3, <2>4, <2>5 DEF Handler
  <1>5. CASE UNCHANGED vars
    BY <1>5 DEF HubInv, TypeOK, vars
  <1> QED
    BY <1>1, <1>2, <1>3, <1>4, <1>5 DEF Next

\* Every step keeps the account of the mutex.
LEMMA MutexStep == HubInv /\ [Next]_vars => MutexInv'
  <1> SUFFICES ASSUME HubInv, [Next]_vars PROVE MutexInv'
    OBVIOUS
  <1> USE DEF HubInv, MutexInv
  <1>1. CASE Publish
    BY <1>1, LogHubAssumption DEF Publish, MutexFree, TypeOK, Lines
  <1>2. CASE PublishReturns
    BY <1>2 DEF PublishReturns
  <1>3. ASSUME NEW s \in Streams, Offer(s) PROVE MutexInv'
    BY <1>3 DEF Offer
  <1>4. ASSUME NEW s \in Streams, Handler(s) PROVE MutexInv'
    <2> USE DEF TypeOK
    <2>1. CASE Subscribe(s)
      BY <2>1 DEF Subscribe, MutexFree
    <2>2. CASE Forward(s)
      BY <2>2 DEF Forward, hub
    <2>3. CASE Disconnect(s)
      BY <2>3 DEF Disconnect, hub
    <2>4. CASE Delete(s)
      BY <2>4 DEF Delete, MutexFree
    <2>5. CASE Close(s)
      BY <2>5 DEF Close, hub
    <2> QED
      BY <1>4, <2>1, <2>2, <2>3, <2>4, <2>5 DEF Handler
  <1>5. CASE UNCHANGED vars
    BY <1>5 DEF vars
  <1> QED
    BY <1>1, <1>2, <1>3, <1>4, <1>5 DEF Next

\* In every behaviour of the hub (main.go logHub) the types hold and publish,
\* while it holds the mutex, only has channels of subscribed handlers to serve.
THEOREM HubInvariant == Spec => []HubInv
  <1>1. HubInv /\ [Next]_vars => HubInv'
    BY TypeStep, MutexStep DEF HubInv
  <1> QED
    BY <1>1, InitHub, PTL DEF Spec

\* The types of the hub; no channel holds more than its capacity.
THEOREM HubTypes == Spec => []TypeOK
  <1>1. HubInv => TypeOK
    BY DEF HubInv
  <1> QED
    BY <1>1, HubInvariant, PTL

\* publish never sends on a closed channel, though unsubscribe closes channels
\* outside the mutex (main.go unsubscribe).
THEOREM SendsFindOpenChannels == Spec => []NoSendOnClosed
  <1>1. HubInv => NoSendOnClosed
    BY DEF HubInv, MutexInv, NoSendOnClosed
  <1> QED
    BY <1>1, HubInvariant, PTL

-------------------------------------------------------------------------------
(* The streams                                                             *)

\* The last line publish is done with, as far as s is concerned.
Served(s) == IF s \in todo THEN logged - 1 ELSE logged

(***************************************************************************)
(* What a stream has been given: nothing before it subscribes; lines in    *)
(* order, none that has not been served yet; and, as long as its channel   *)
(* has never been full, each line since it subscribed.                     *)
(***************************************************************************)
GivenInOrder(s) ==
    /\ \A i \in DOMAIN Given(s) : Given(s)[i] <= Served(s)
    /\ \A i, j \in DOMAIN Given(s) : i < j => Given(s)[i] < Given(s)[j]

GivenWhole(s) ==
    s \in clients \ filled =>
        /\ Len(Given(s)) = Served(s) - since[s]
        /\ \A i \in DOMAIN Given(s) : Given(s)[i] = since[s] + i

StreamOK(s) ==
    /\ step[s] = "opening" => written[s] = <<>> /\ ch[s] = <<>>
    /\ s \notin filled => Len(ch[s]) < Capacity
    /\ GivenInOrder(s)
    /\ GivenWhole(s)

StreamInv == \A s \in Streams : StreamOK(s)

\* What a stream has been given is a sequence of lines.
LEMMA GivenType ==
    ASSUME TypeOK, NEW s \in Streams
    PROVE  /\ Given(s) \in Seq(Lines)
           /\ DOMAIN Given(s) = 1..Len(Given(s))
           /\ Len(Given(s)) \in Nat
           /\ \A i \in DOMAIN Given(s) : Given(s)[i] \in Lines
  <1>1. Given(s) \in Seq(Lines)
    BY ConcatProperties DEF TypeOK, Given
  <1> QED
    BY <1>1, LenProperties, ElementOfSeq

\* Streams that have been given nothing are in order and whole.
LEMMA InitStreams == Init => StreamInv
  <1> SUFFICES ASSUME Init, NEW s \in Streams PROVE StreamOK(s)
    BY DEF StreamInv
  <1>1. written[s] = <<>> /\ ch[s] = <<>> /\ s \notin clients
    BY DEF Init
  <1>2. Given(s) = <<>>
    BY <1>1 DEF Given
  <1>3. Len(ch[s]) < Capacity
    BY <1>1, LogHubAssumption
  <1> QED
    BY <1>1, <1>2, <1>3 DEF StreamOK, GivenInOrder, GivenWhole

\* A stream that has been given the same lines stays in order and whole if what
\* it is measured against stays too, or has moved on while it is not subscribed.
LEMMA StreamUntouched ==
    ASSUME HubInv, NEW s \in Streams, StreamOK(s),
           Given(s)' = Given(s),
           Len(ch'[s]) <= Len(ch[s]),
           step'[s] = "opening" => written'[s] = <<>> /\ ch'[s] = <<>>,
           s \in filled => s \in filled',
           Served(s)' \in Int, Served(s)' >= Served(s),
           s \in clients' \ filled' =>
              s \in clients /\ Served(s)' = Served(s) /\ since'[s] = since[s]
    PROVE  StreamOK(s)'
  <1>1. /\ Given(s) \in Seq(Lines)
        /\ DOMAIN Given(s) = 1..Len(Given(s))
        /\ \A i \in DOMAIN Given(s) : Given(s)[i] \in Int
    BY GivenType, LogHubAssumption DEF HubInv, Lines
  <1>2. GivenInOrder(s)'
    BY <1>1, LogHubAssumption DEF StreamOK, GivenInOrder, Served, HubInv, TypeOK
  <1>3. GivenWhole(s)'
    BY DEF StreamOK, GivenWhole
  <1>4. s \notin filled' => Len(ch'[s]) < Capacity
    BY LogHubAssumption DEF StreamOK, HubInv, TypeOK
  <1> QED
    BY <1>2, <1>3, <1>4 DEF StreamOK

\* Offering a line: the stream gets it, or its channel is and stays marked full.
LEMMA OfferStream ==
    ASSUME HubInv, StreamInv, NEW t \in Streams, Offer(t), NEW s \in Streams
    PROVE  StreamOK(s)'
  <1>0. StreamOK(s) /\ publishing
    BY DEF StreamInv, Offer, HubInv, MutexInv
  <1>1. CASE s # t
    <2>1. UNCHANGED <<Given(s), ch[s], written[s], Served(s), since[s], step[s]>>
      BY <1>1 DEF Offer, HubInv, TypeOK, Given, Served
    <2>2. (s \in filled) = (s \in filled') /\ clients' = clients
      BY <1>1 DEF Offer
    <2>3. Served(s) \in Int /\ Len(ch[s]) \in Int
      BY LogHubAssumption DEF HubInv, TypeOK, Served
    <2> QED
      BY <1>0, <2>1, <2>2, <2>3, StreamUntouched DEF StreamOK
  <1>2. CASE s = t /\ Len(ch[t]) < Capacity
    <2> DEFINE g == Given(s)
    <2>1. /\ g \in Seq(Lines)
          /\ DOMAIN g = 1..Len(g)
          /\ Len(g) \in Nat
          /\ \A i \in DOMAIN g : g[i] \in Lines
      BY GivenType DEF HubInv
    <2>2. logged \in Lines
      BY <1>0 DEF HubInv, MutexInv
    <2>3. ch'[s] = Append(ch[s], logged) /\ written'[s] = written[s]
      BY <1>2 DEF Offer, HubInv, TypeOK
    <2>4. Given(s)' = Append(g, logged)
      BY <2>2, <2>3, AppendSecond DEF Given, HubInv, TypeOK
    <2>5. /\ DOMAIN Given(s)' = 1..(Len(g) + 1)
          /\ Len(Given(s)') = Len(g) + 1
          /\ \A i \in 1..Len(g) : Given(s)'[i] = g[i]
          /\ Given(s)'[Len(g) + 1] = logged
      BY <2>1, <2>2, <2>4
    <2>6. Served(s) = logged - 1 /\ Served(s)' = logged
      BY <1>2 DEF Offer, Served
    <2>7. GivenInOrder(s)'
      <3>1. \A i \in 1..Len(g) : g[i] <= logged - 1 /\ g[i] \in Int
        BY <1>0, <2>1, <2>6, LogHubAssumption DEF StreamOK, GivenInOrder, Lines
      <3>2. \A i \in 1..(Len(g) + 1) : Given(s)'[i] <= Served(s)'
        BY <2>1, <2>2, <2>5, <2>6, <3>1, LogHubAssumption DEF Lines
      <3>3. ASSUME NEW i \in 1..(Len(g) + 1), NEW j \in 1..(Len(g) + 1), i < j
            PROVE  Given(s)'[i] < Given(s)'[j]
        <4>1. i \in 1..Len(g) /\ Given(s)'[i] = g[i]
          BY <2>1, <2>5, <3>3
        <4>2. CASE j = Len(g) + 1
          BY <2>2, <2>5, <3>1, <4>1, <4>2, LogHubAssumption DEF Lines
        <4>3. CASE j \in 1..Len(g)
          BY <1>0, <2>1, <2>5, <3>3, <4>1, <4>3 DEF StreamOK, GivenInOrder
        <4> QED
          BY <2>1, <4>2, <4>3
      <3> QED
        BY <2>5, <3>2, <3>3 DEF GivenInOrder
    <2>8. GivenWhole(s)'
      <3> SUFFICES ASSUME s \in clients' \ filled' PROVE
             /\ Len(Given(s)') = Served(s)' - since'[s]
             /\ \A i \in DOMAIN Given(s)' : Given(s)'[i] = since'[s] + i
        BY DEF GivenWhole
      <3>1. s \in clients \ filled /\ since'[s] = since[s] /\ since[s] \in Int
        BY LogHubAssumption DEF Offer, HubInv, TypeOK
      <3>2. /\ Len(g) = logged - 1 - since[s]
            /\ \A i \in 1..Len(g) : g[i] = since[s] + i
        BY <1>0, <2>1, <2>6, <3>1 DEF StreamOK, GivenWhole
      <3>3. Len(g) + 1 = logged - since[s] /\ logged \in Int
        BY <2>1, <2>2, <3>1, <3>2, LogHubAssumption DEF Lines
      <3>4. ASSUME NEW i \in 1..(Len(g) + 1) PROVE Given(s)'[i] = since[s] + i
        <4>1. CASE i = Len(g) + 1
          BY <2>5, <3>1, <3>3, <4>1
        <4>2. CASE i \in 1..Len(g)
          BY <2>5, <3>2, <4>2
        <4> QED
          BY <2>1, <4>1, <4>2
      <3> QED
        BY <2>5, <2>6, <3>1, <3>3, <3>4
    <2>9. s \notin filled' => Len(ch'[s]) < Capacity
      <3>1. Len(ch'[s]) = Len(ch[s]) + 1 /\ Len(ch[s]) \in Nat
        BY <2>2, <2>3 DEF HubInv, TypeOK
      <3>2. s \notin filled' => Len(ch'[s]) # Capacity
        BY <1>2 DEF Offer
      <3> QED
        BY <1>2, <3>1, <3>2, LogHubAssumption
    <2>10. step'[s] # "opening"
      BY <1>2 DEF Offer, HubInv, MutexInv
    <2> QED
      BY <2>7, <2>8, <2>9, <2>10 DEF StreamOK
  <1>3. CASE s = t /\ ~(Len(ch[t]) < Capacity)
    <2>1. UNCHANGED <<Given(s), ch[s], written[s], since[s], step[s], clients>>
      BY <1>3 DEF Offer, Given
    <2>2. s \in filled /\ s \in filled'
      BY <1>0, <1>3 DEF StreamOK, Offer
    <2>3. /\ Served(s) = logged - 1 /\ Served(s)' = logged
          /\ logged \in Int /\ Len(ch[s]) \in Int
      BY <1>3, LogHubAssumption DEF Offer, Served, HubInv, TypeOK
    <2> QED
      BY <1>0, <2>1, <2>2, <2>3, StreamUntouched DEF StreamOK
  <1> QED
    BY <1>1, <1>2, <1>3

\* A handler subscribes, forwards, leaves: the lines of its stream stay the same.
LEMMA HandlerStream ==
    ASSUME HubInv, StreamInv, NEW t \in Streams, Handler(t), NEW s \in Streams
    PROVE  StreamOK(s)'
  <1>0. /\ StreamOK(s)
        /\ Served(s) \in Int /\ Len(ch[s]) \in Int
    BY LogHubAssumption DEF StreamInv, HubInv, TypeOK, Served
  <1>1. CASE Subscribe(t)
    <2>1. UNCHANGED <<Given(s), ch[s], written[s], Served(s), filled>>
      BY <1>1 DEF Subscribe, Given, Served
    <2>2. CASE s # t
      <3>1. UNCHANGED <<step[s], since[s]>> /\ (s \in clients' <=> s \in clients)
        BY <1>1, <2>2 DEF Subscribe, HubInv, TypeOK
      <3> QED
        BY <1>0, <2>1, <3>1, StreamUntouched DEF StreamOK
    <2>3. CASE s = t
      <3>1. written[s] = <<>> /\ ch[s] = <<>>
        BY <1>0, <1>1, <2>3 DEF Subscribe, StreamOK
      <3>2. Given(s) = <<>> /\ Given(s)' = <<>>
        BY <2>1, <3>1 DEF Given
      <3>3. since'[s] = Served(s)' /\ Served(s)' \in Int
        BY <1>0, <1>1, <2>1, <2>3
           DEF Subscribe, MutexFree, Served, HubInv, MutexInv, TypeOK
      <3>4. GivenInOrder(s)' /\ GivenWhole(s)'
        BY <3>2, <3>3 DEF GivenInOrder, GivenWhole
      <3>5. step'[s] # "opening" /\ Len(ch'[s]) < Capacity
        BY <1>1, <2>1, <2>3, <3>1, LogHubAssumption DEF Subscribe, HubInv, TypeOK
      <3> QED
        BY <3>4, <3>5 DEF StreamOK
    <2> QED
      BY <2>2, <2>3
  <1>2. CASE Forward(t)
    <2>1. UNCHANGED <<step, clients, since, filled, Served(s)>>
      BY <1>2 DEF Forward, hub, Served
    <2>2. CASE s # t
      <3>1. UNCHANGED <<Given(s), ch[s], written[s]>>
        BY <1>2, <2>2 DEF Forward, Given, HubInv, TypeOK
      <3>2. step'[s] = "opening" => written'[s] = <<>> /\ ch'[s] = <<>>
        BY <1>0, <2>1, <3>1 DEF StreamOK
      <3> QED
        BY <1>0, <2>1, <3>1, <3>2, StreamUntouched
    <2>3. CASE s = t
      <3>1. /\ written'[s] = Append(written[s], Head(ch[s]))
            /\ ch'[s] = Tail(ch[s])
            /\ ch[s] # <<>> /\ step[s] # "opening"
        BY <1>2, <2>3 DEF Forward, HubInv, TypeOK
      <3>2. Given(s)' = Given(s)
        BY <3>1, MoveHead DEF Given, HubInv, TypeOK
      <3>3. Len(ch'[s]) <= Len(ch[s])
        BY <1>0, <3>1, HeadTailProperties DEF HubInv, TypeOK
      <3>4. step'[s] # "opening" /\ since'[s] = since[s] /\ Served(s)' = Served(s)
        BY <2>1, <3>1
      <3>5. filled' = filled /\ clients' = clients
        BY <2>1
      <3> QED
        BY <1>0, <3>2, <3>3, <3>4, <3>5, StreamUntouched
    <2> QED
      BY <2>2, <2>3
  <1>3. CASE Disconnect(t) \/ Delete(t) \/ Close(t)
    <2>1. UNCHANGED <<Given(s), ch[s], written[s], since[s], filled, Served(s)>>
      BY <1>3 DEF Disconnect, Delete, Close, hub, Given, Served
    <2>2. s \in clients' => s \in clients
      BY <1>3 DEF Disconnect, Delete, Close, hub
    <2>3. step'[s] = "opening" => step[s] = "opening"
      BY <1>3 DEF Disconnect, Delete, Close, HubInv, TypeOK
    <2> QED
      BY <1>0, <2>1, <2>2, <2>3, StreamUntouched DEF StreamOK
  <1> QED
    BY <1>1, <1>2, <1>3 DEF Handler

\* Every step keeps the streams in order and whole.
LEMMA StreamStep == HubInv /\ StreamInv /\ [Next]_vars => StreamInv'
  <1> SUFFICES ASSUME HubInv, StreamInv, [Next]_vars, NEW s \in Streams
               PROVE  StreamOK(s)'
    BY DEF StreamInv
  <1>0. /\ StreamOK(s)
        /\ logged \in Int /\ Served(s) \in Int /\ Len(ch[s]) \in Int
    BY LogHubAssumption DEF StreamInv, HubInv, TypeOK, Served
  <1>1. CASE Publish
    <2>1. UNCHANGED <<Given(s), ch[s], written[s], since[s], step[s], filled, clients>>
      BY <1>1 DEF Publish, Given
    <2>2. /\ Served(s) = logged
          /\ Served(s)' = IF s \in clients THEN logged ELSE logged + 1
      BY <1>0, <1>1 DEF Publish, MutexFree, HubInv, MutexInv, Served
    <2> QED
      BY <1>0, <2>1, <2>2, StreamUntouched DEF StreamOK
  <1>2. CASE PublishReturns \/ UNCHANGED vars
    <2>1. UNCHANGED <<Given(s), ch[s], written[s], since[s], step[s], filled, clients,
                      Served(s)>>
      BY <1>2 DEF PublishReturns, vars, Given, Served
    <2> QED
      BY <1>0, <2>1, StreamUntouched DEF StreamOK
  <1> QED
    BY <1>1, <1>2, OfferStream, HandlerStream DEF Next

\* What every stream has been given is in order, and whole while its channel has
\* never been full (main.go publish, logsHandler).
THEOREM StreamInvariant == Spec => [](HubInv /\ StreamInv)
  <1>1. Init => HubInv /\ StreamInv
    BY InitHub, InitStreams
  <1>2. HubInv /\ StreamInv /\ [Next]_vars => (HubInv /\ StreamInv)'
    BY TypeStep, MutexStep, StreamStep DEF HubInv
  <1> QED
    BY <1>1, <1>2, PTL DEF Spec

\* Lines may be dropped, but never swapped or repeated.
THEOREM LinesStayInOrder == Spec => []InOrder
  <1>1. StreamInv => InOrder
    BY DEF StreamInv, StreamOK, GivenInOrder, InOrder
  <1> QED
    BY <1>1, StreamInvariant, PTL

\* A stream whose channel was never full has every line since it subscribed.
THEOREM OnlyFullChannelsLose == Spec => []NoLineLost
  <1>1. ASSUME HubInv, StreamInv PROVE NoLineLost
    <2> SUFFICES ASSUME NEW s \in clients \ filled
                 PROVE  Given(s) = [i \in 1..(Served(s) - since[s]) |-> since[s] + i]
      BY DEF NoLineLost, Served
    <2>1. s \in Streams /\ GivenWhole(s)
      BY <1>1 DEF HubInv, TypeOK, StreamInv, StreamOK
    <2>2. Given(s) \in [1..Len(Given(s)) -> Lines]
      BY <1>1, <2>1, GivenType, LenProperties DEF HubInv
    <2> QED
      BY <2>1, <2>2 DEF GivenWhole
  <1> QED
    BY <1>1, StreamInvariant, PTL

-------------------------------------------------------------------------------
(* The hub implements LineStream                                           *)

\* What was taken is what was sent followed by what waits in the channel.
LEMMA GivenLength ==
    ASSUME TypeOK, NEW s \in Streams
    PROVE  /\ Len(Given(s)) = Len(written[s]) + Len(ch[s])
           /\ Len(written[s]) \in Nat /\ Len(ch[s]) \in Nat
           /\ Len(ch[s]) <= Capacity
  <1>1. written[s] \in Seq(Lines) /\ ch[s] \in Seq(Lines)
    BY DEF TypeOK
  <1> QED
    BY <1>1, ConcatProperties DEF TypeOK, Given

\* A stream is behind by what waits in its channel.
LEMMA BehindIsWaiting ==
    ASSUME HubInv, NEW s \in Streams
    PROVE  /\ Promised!Behind(s) = Len(ch[s])
           /\ Len(ch[s]) \in Nat /\ Len(ch[s]) <= Capacity
  <1>1. /\ Len(Given(s)) = Len(written[s]) + Len(ch[s])
        /\ Len(written[s]) \in Nat /\ Len(ch[s]) \in Nat
        /\ Len(ch[s]) <= Capacity
    BY GivenLength DEF HubInv
  <1>2. Promised!Behind(s) = Len(Given(s)) - Len(written[s])
    BY DEF Promised!Behind
  <1> QED
    BY <1>1, <1>2

\* An iteration of the loop of publish takes the line or loses it.
LEMMA OfferTakesOrLoses ==
    ASSUME HubInv, NEW t \in Streams, Offer(t)
    PROVE  Promised!Take(t) \/ Promised!Lose(t)
  <1>1. logged \in Lines /\ publishing
    BY DEF Offer, HubInv, MutexInv
  <1>2. /\ Promised!Behind(t) = Len(ch[t])
        /\ Len(ch[t]) \in Nat /\ Len(ch[t]) <= Capacity
    BY BehindIsWaiting
  <1>3. \A s \in Streams : written'[s] = written[s]
    BY DEF Offer
  <1>4. CASE Len(ch[t]) < Capacity
    <2>1. \A s \in Streams : Given(s)' = IF s = t THEN Append(Given(s), logged)
                                                  ELSE Given(s)
      <3>1. ch' = [ch EXCEPT ![t] = Append(@, logged)] /\ written' = written
        BY <1>4 DEF Offer
      <3>2. Given(t)' = Append(Given(t), logged)
        <4>1. ch'[t] = Append(ch[t], logged)
          BY <3>1 DEF HubInv, TypeOK
        <4> QED
          BY <1>1, <3>1, <4>1, AppendSecond DEF Given, HubInv, TypeOK
      <3> QED
        BY <3>1, <3>2 DEF Given, HubInv, TypeOK
    <2>2. [s \in Streams |-> Given(s)']
            = [[s \in Streams |-> Given(s)] EXCEPT ![t] = Append(@, logged)]
      BY <2>1
    <2> QED
      BY <1>2, <1>4, <2>2 DEF Offer, Promised!Take
  <1>5. CASE ~(Len(ch[t]) < Capacity)
    <2>1. Len(ch[t]) = Capacity
      BY <1>2, <1>5, LogHubAssumption
    <2>2. ch' = ch /\ written' = written
      BY <1>5 DEF Offer
    <2> QED
      BY <1>2, <2>1, <2>2 DEF Offer, Given, Promised!Lose
  <1> QED
    BY <1>4, <1>5

\* A line that is forwarded moves from the channel to what was sent.
LEMMA ForwardDelivers ==
    ASSUME HubInv, NEW t \in Streams, Forward(t)
    PROVE  Promised!Deliver(t)
  <1>1. written[t] \in Seq(Lines) /\ ch[t] \in Seq(Lines) /\ ch[t] # <<>>
    BY DEF Forward, HubInv, TypeOK
  <1>2. Promised!Behind(t) = Len(ch[t]) /\ Len(ch[t]) > 0
    BY <1>1, BehindIsWaiting, EmptySeq
  <1>3. /\ written'[t] = Append(written[t], Head(ch[t])) /\ ch'[t] = Tail(ch[t])
        /\ \A s \in Streams \ {t} : written'[s] = written[s] /\ ch'[s] = ch[s]
    BY DEF Forward, HubInv, TypeOK
  <1>4. Given(t)' = Given(t)
    BY <1>1, <1>3, MoveHead DEF Given
  <1>5. \A s \in Streams : Given(s)' = Given(s)
    BY <1>3, <1>4 DEF Given
  <1>6. Len(written'[t]) = Len(written[t]) + 1
    BY <1>1, <1>3, HeadTailProperties, AppendProperties
  <1>7. [s \in Streams |-> Len(written'[s])]
          = [[s \in Streams |-> Len(written[s])] EXCEPT ![t] = @ + 1]
    BY <1>3, <1>6
  <1>8. t \in clients
    BY DEF Forward, HubInv, MutexInv
  <1> QED
    BY <1>2, <1>5, <1>7, <1>8 DEF Forward, hub, Promised!Deliver

\* Lines are served in turn: every step of the hub is one of LineStream or is
\* not visible there (main.go logHub, logsHandler).
THEOREM ImplementsLineStream == Spec => LinesAreServedInTurn
  <1>1. Init => Promised!Init
    <2> SUFFICES ASSUME Init PROVE Promised!Init
      OBVIOUS
    <2>1. ASSUME NEW s \in Streams
          PROVE  Given(s) = <<>> /\ Len(written[s]) = 0
      <3>1. written[s] = <<>> /\ ch[s] = <<>>
        BY DEF Init
      <3>2. Given(s) = <<>>
        BY <3>1 DEF Given
      <3> QED
        BY <3>1, <3>2
    <2> QED
      BY <2>1 DEF Init, Promised!Init
  <1>2. HubInv /\ StreamInv /\ [Next]_vars => [Promised!Next]_Promised!vars
    <2> SUFFICES ASSUME HubInv, StreamInv, [Next]_vars
                 PROVE  [Promised!Next]_Promised!vars
      OBVIOUS
    <2>1. CASE Publish
      BY <2>1 DEF Publish, MutexFree, HubInv, MutexInv, Given,
                  Promised!Next, Promised!Log
    <2>2. ASSUME NEW t \in Streams, Offer(t) PROVE Promised!Next
      BY <2>2, OfferTakesOrLoses DEF Promised!Next
    <2>3. ASSUME NEW t \in Streams, Handler(t)
          PROVE  [Promised!Next]_Promised!vars
      <3>1. CASE Subscribe(t)
        <4>1. t \notin clients /\ todo = {}
          BY <3>1 DEF Subscribe, MutexFree, HubInv, MutexInv
        <4>2. Given(t) = <<>>
          BY <3>1 DEF Subscribe, StreamInv, StreamOK, Given
        <4>3. Promised!Join(t)
          BY <3>1, <4>1, <4>2 DEF Subscribe, Given, Promised!Join
        <4> QED
          BY <4>3 DEF Promised!Next
      <3>2. CASE Forward(t)
        BY <3>2, ForwardDelivers DEF Promised!Next
      <3>3. CASE Delete(t)
        <4>1. Promised!Leave(t)
          BY <3>3 DEF Delete, MutexFree, HubInv, MutexInv, Given, Promised!Leave
        <4> QED
          BY <4>1 DEF Promised!Next
      <3>4. CASE Disconnect(t) \/ Close(t)
        BY <3>4 DEF Disconnect, Close, hub, Given, Promised!vars
      <3> QED
        BY <2>3, <3>1, <3>2, <3>3, <3>4 DEF Handler
    <2>4. CASE PublishReturns \/ UNCHANGED vars
      BY <2>4 DEF PublishReturns, vars, Given, Promised!vars
    <2> QED
      BY <2>1, <2>2, <2>3, <2>4 DEF Next
  <1> QED
    BY <1>1, <1>2, StreamInvariant, PTL
    DEF Spec, LinesAreServedInTurn, Promised!Spec
===============================================================================
