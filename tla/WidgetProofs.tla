----------------------------- MODULE WidgetProofs -----------------------------
(***************************************************************************)
(* Theorems about Widget, for any settings and any number of handlers and  *)
(* connections, from WidgetAssumption.                                     *)
(***************************************************************************)
EXTENDS Widget, TLAPS

\* A connection is open only once its handler is over, and a request is always
\* about a session.
Sound(f) ==
    /\ f \in Flow
    /\ f.open => f.step = "idle"
    /\ f.step = "request" => f.sid # None

ShapeInv == TypeOK /\ \A i \in Flows : Sound(flows[i])

-------------------------------------------------------------------------------
(* Types                                                                   *)

\* The records a step may put into a flow.
LEMMA FlowSteps ==
    ASSUME NEW f, Sound(f)
    PROVE  /\ Sound(Idle)
           /\ Sound([Idle EXCEPT !.sid = f.sid, !.open = TRUE])
           /\ ~f.open => Sound([f EXCEPT !.step = "subscribe"])
           /\ ~f.open => Sound([f EXCEPT !.step = "stopped"])
           /\ ~f.open => \A s \in Settings \cup {None} :
                            Sound([f EXCEPT !.step = "start", !.sid = s])
           /\ Sound(Stopped(f))
  BY DEF Sound, Flow, Idle, Stopped

LEMMA NewFlow ==
    ASSUME NEW s \in Settings, NEW t \in {"boot", "submit"}
    PROVE  Sound([task |-> t, step |-> "request", sid |-> s, open |-> FALSE])
  BY WidgetAssumption DEF Sound, Flow

\* Replacing one flow by a sound one.
LEMMA OneFlow ==
    ASSUME ShapeInv, NEW i \in Flows, NEW f, Sound(f),
           flows' = [flows EXCEPT ![i] = f]
    PROVE  /\ flows' \in [Flows -> Flow] /\ \A j \in Flows : Sound(flows'[j])
           /\ flows'[i] = f /\ \A j \in Flows : j # i => flows'[j] = flows[j]
  BY DEF ShapeInv, TypeOK, Sound

LEMMA InitShape == Init => ShapeInv
  <1> SUFFICES ASSUME Init PROVE ShapeInv
    OBVIOUS
  <1>1. Idle \in Flow /\ Sound(Idle)
    BY DEF Idle, Flow, Sound
  <1> QED
    BY <1>1 DEF Init, ShapeInv, TypeOK

\* The flow of a connection settles: idle, with an open connection or without.
LEMMA SettledShape ==
    ASSUME ShapeInv, NEW i \in Flows, NEW open \in BOOLEAN, Settled(i, open)
    PROVE  /\ flows' \in [Flows -> Flow] /\ \A j \in Flows : Sound(flows'[j])
           /\ flows'[i].step = "idle" /\ flows'[i].open = open
           /\ open => flows'[i].sid = flows[i].sid
           /\ ~open => flows'[i] = Idle
           /\ \A j \in Flows : j # i => flows'[j] = flows[j]
  <1> DEFINE f == IF open THEN [Idle EXCEPT !.sid = flows[i].sid, !.open = TRUE]
                  ELSE Idle
  <1>1. Sound(flows[i])
    BY DEF ShapeInv
  <1>2. Sound(f)
    BY <1>1, FlowSteps
  <1>3. flows' = [flows EXCEPT ![i] = f]
    BY DEF Settled
  <1>4. f.step = "idle" /\ f.open = open /\ (open => f.sid = flows[i].sid)
    BY DEF Idle
  <1> HIDE DEF f
  <1>5. /\ flows' \in [Flows -> Flow] /\ \A j \in Flows : Sound(flows'[j])
        /\ flows'[i] = f /\ \A j \in Flows : j # i => flows'[j] = flows[j]
    BY <1>2, <1>3, OneFlow
  <1> QED
    BY <1>4, <1>5 DEF f

\* What the list is asked for with.
LEMMA AskTypes ==
    ASSUME TypeOK, NEW i \in Flows, ThenList(i)
    PROVE  lists' \subseteq Settings /\ raced' \in BOOLEAN
  BY DEF ThenList, Ask, Disturbs, TypeOK

\* Each answer to a flow keeps types and shape.
LEMMA AnswerShape ==
    ASSUME ShapeInv, NEW i \in Flows, Answer(i)
    PROVE  ShapeInv'
  <1>1. TypeOK /\ Sound(flows[i]) /\ flows[i].sid \in Settings \cup {None}
    BY DEF ShapeInv, Sound, Flow
  <1>2. ASSUME NEW s \in Settings \cup {None}, Connect(i, s), flows[i].step = "request"
        PROVE  /\ flows' \in [Flows -> Flow] /\ \A j \in Flows : Sound(flows'[j])
               /\ latest' \in Flows \cup {None}
    <2> DEFINE f == [flows[i] EXCEPT !.step = "start", !.sid = s]
    <2>1. Sound(f)
      BY <1>1, <1>2, FlowSteps DEF Sound
    <2>2. flows' = [flows EXCEPT ![i] = f]
      BY <1>2 DEF Connect
    <2> HIDE DEF f
    <2> QED
      BY <1>2, <2>1, <2>2, OneFlow DEF Connect
  <1>3. CASE BootOk(i)
    <2>1. flows[i].sid \in Settings /\ session \in Settings \cup {None}
      BY <1>1, <1>3 DEF BootOk, AtStep, Sound, TypeOK
    <2> QED
      BY <1>1, <1>2, <1>3, <2>1 DEF BootOk, AtStep, ShapeInv, TypeOK
  <1>4. CASE SubmitOk(i)
    <2>1. flows[i].sid \in Settings
      BY <1>1, <1>4 DEF SubmitOk, AtStep, Sound
    <2>2. prefs' \in Settings \cup {None} /\ raced' \in BOOLEAN
      BY <1>1, <1>4 DEF SubmitOk, Disturbs, TypeOK
    <2> QED
      BY <1>1, <1>2, <1>4, <2>1, <2>2 DEF SubmitOk, AtStep, ShapeInv, TypeOK
  <1>5. CASE BootFails(i) \/ SubmitFails(i)
    <2>1. flows' = [flows EXCEPT ![i] = Idle] /\ Sound(Idle)
      BY <1>1, <1>5, FlowSteps DEF BootFails, SubmitFails
    <2>2. flows' \in [Flows -> Flow] /\ \A j \in Flows : Sound(flows'[j])
      BY <2>1, OneFlow
    <2> QED
      BY <1>1, <1>5, <2>2 DEF BootFails, SubmitFails, ShapeInv, TypeOK
  <1>6. CASE Started(i)
    <2> DEFINE f == [flows[i] EXCEPT !.step = "subscribe"]
    <2>1. Sound(f) /\ flows' = [flows EXCEPT ![i] = f]
      BY <1>1, <1>6, FlowSteps DEF Started, Sound
    <2> HIDE DEF f
    <2>2. flows' \in [Flows -> Flow] /\ \A j \in Flows : Sound(flows'[j])
      BY <2>1, OneFlow
    <2> QED
      BY <1>1, <1>6, <2>2 DEF Started, ShapeInv, TypeOK
  <1>7. CASE Subscribed(i) \/ ConnectFails(i)
    <2>1. \E open \in BOOLEAN : Settled(i, open)
      BY <1>7 DEF Subscribed, ConnectFails
    <2>2. flows' \in [Flows -> Flow] /\ \A j \in Flows : Sound(flows'[j])
      BY <2>1, SettledShape
    <2>3. lists' \subseteq Settings /\ raced' \in BOOLEAN
      BY <1>1, <1>7, AskTypes DEF Subscribed, ConnectFails
    <2>4. polling' \subseteq Settings
      BY <1>1, <1>7 DEF Subscribed, ConnectFails, TypeOK
    <2> QED
      BY <1>1, <1>7, <2>2, <2>3, <2>4 DEF Subscribed, ConnectFails, ShapeInv, TypeOK
  <1> QED
    BY <1>3, <1>4, <1>5, <1>6, <1>7 DEF Answer

\* Each action of the user keeps types and shape.
LEMMA UserShape ==
    ASSUME ShapeInv, User
    PROVE  ShapeInv'
  <1>1. TypeOK
    BY DEF ShapeInv
  <1>2. ASSUME NEW i \in Flows, NEW s \in Settings, Submit(i, s) PROVE ShapeInv'
    <2> DEFINE f == [task |-> "submit", step |-> "request", sid |-> s, open |-> FALSE]
    <2>1. Sound(f) /\ flows' = [flows EXCEPT ![i] = f]
      BY <1>2, NewFlow DEF Submit
    <2> HIDE DEF f
    <2>2. flows' \in [Flows -> Flow] /\ \A j \in Flows : Sound(flows'[j])
      BY <2>1, OneFlow
    <2> QED
      BY <1>1, <1>2, <2>2 DEF Submit, ShapeInv, TypeOK
  <1>3. CASE Expand \/ PickRow
    BY <1>1, <1>3 DEF Expand, PickRow, ShapeInv, TypeOK
  <1>4. CASE Reset
    <2>1. \A i \in Flows : Sound(flows'[i])
      BY <1>4, FlowSteps DEF Reset, ShapeInv
    <2>2. flows' = [i \in Flows |-> IF i = latest THEN Stopped(flows[i]) ELSE flows[i]]
      BY <1>4 DEF Reset
    <2>3. flows' \in [Flows -> Flow]
      BY <2>1, <2>2 DEF Sound
    <2> QED
      BY <1>1, <1>4, <2>1, <2>3 DEF Reset, ShapeInv, TypeOK
  <1>5. CASE Load
    <2>1. \A i \in Flows : Sound(Loaded[i])
      BY <1>1, FlowSteps, NewFlow DEF Loaded, TypeOK, ShapeInv
    <2>2. flows' \in [Flows -> Flow] /\ \A i \in Flows : Sound(flows'[i])
      BY <1>5, <2>1 DEF Load, Loaded, Sound
    <2> QED
      BY <1>1, <1>5, <2>2 DEF Load, ShapeInv, TypeOK
  <1> QED
    BY <1>2, <1>3, <1>4, <1>5 DEF User

\* So does each message that arrives.
LEMMA ArrivesShape ==
    ASSUME ShapeInv, Arrives
    PROVE  ShapeInv'
  <1>1. ASSUME NEW i \in Flows, Push(i) PROVE ShapeInv'
    <2>1. flows[i].sid \in Settings
      BY <1>1 DEF Push, ShapeInv, Sound, Flow
    <2> QED
      BY <1>1, <2>1 DEF Push, Ask, ShapeInv, TypeOK
  <1>2. ASSUME NEW s \in Settings, PollAnswered(s) \/ ExpandAnswered(s) \/ ListAnswered(s)
        PROVE  ShapeInv'
    BY <1>2 DEF PollAnswered, ExpandAnswered, ListAnswered, ShapeInv, TypeOK
  <1> QED
    BY <1>1, <1>2 DEF Arrives

LEMMA NextShape == ShapeInv /\ [Next]_vars => ShapeInv'
  <1> SUFFICES ASSUME ShapeInv, [Next]_vars PROVE ShapeInv'
    OBVIOUS
  <1>1. CASE UNCHANGED vars
    BY <1>1 DEF vars, ShapeInv, TypeOK
  <1> QED
    BY <1>1, UserShape, ArrivesShape, AnswerShape DEF Next

\* The page keeps its types: nothing is ever drawn, polled or asked for without
\* settings (app.js connectSignalR, loadTop5FromSession).
THEOREM WidgetTypes == Spec => []TypeOK
  <1>1. ShapeInv => TypeOK
    BY DEF ShapeInv
  <1> QED
    BY <1>1, InitShape, NextShape, PTL DEF Spec

-------------------------------------------------------------------------------
(* The session on display is followed                                      *)

\* A handler is connecting to s.
Connecting(i) == flows[i].step \in {"start", "subscribe", "stopped"}
Coming(s) == \E i \in Flows : Connecting(i) /\ flows[i].sid = s

FollowInv ==
    screen = "widget" /\ session # None => Followed(session) \/ Coming(session)

LEMMA NextFollow == ShapeInv /\ FollowInv /\ [Next]_vars => FollowInv'
  <1> SUFFICES ASSUME ShapeInv, FollowInv, [Next]_vars PROVE FollowInv'
    OBVIOUS
  <1>1. CASE UNCHANGED vars
    BY <1>1 DEF vars, FollowInv, Followed, Coming, Connecting
  <1>2. ASSUME NEW i \in Flows, NEW s \in Settings, Submit(i, s) PROVE FollowInv'
    <2>1. ~flows[i].open /\ ~Connecting(i)
      BY <1>2 DEF Submit, FreeFlow, Idle, Connecting
    <2>2. \A j \in Flows : j # i => flows'[j] = flows[j]
      BY <1>2 DEF Submit, ShapeInv, TypeOK
    <2> QED
      BY <1>2, <2>1, <2>2 DEF Submit, FollowInv, Followed, Coming, Connecting
  <1>3. CASE Reset \/ Load
    BY <1>3 DEF Reset, Load, FollowInv
  <1>4. CASE Expand \/ PickRow \/ Arrives
    BY <1>4 DEF Expand, PickRow, Arrives, Push, PollAnswered, ExpandAnswered,
                ListAnswered, FollowInv, Followed, Coming, Connecting
  <1>5. ASSUME NEW i \in Flows, Answer(i) PROVE FollowInv'
    <2>1. ASSUME NEW s, Connect(i, s), flows[i].step = "request"
          PROVE  Connecting(i)' /\ flows'[i].sid = s
      <3>1. flows' = [flows EXCEPT ![i] = [flows[i] EXCEPT !.step = "start", !.sid = s]]
        BY <2>1 DEF Connect
      <3>2. flows'[i] = [flows[i] EXCEPT !.step = "start", !.sid = s] /\ flows[i] \in Flow
        BY <3>1 DEF ShapeInv, TypeOK
      <3> QED
        BY <3>2 DEF Connecting, Flow
    <2>2. CASE BootOk(i)
      <3>1. Coming(session)' /\ session' = session
        BY <2>1, <2>2 DEF BootOk, AtStep, Coming
      <3> QED
        BY <3>1 DEF FollowInv, Coming
    <2>3. CASE SubmitOk(i)
      <3>1. Coming(session)'
        BY <2>1, <2>3 DEF SubmitOk, AtStep, Coming
      <3> QED
        BY <3>1 DEF FollowInv, Coming
    <2>4. CASE BootFails(i)
      BY <2>4 DEF BootFails, FollowInv
    <2>5. CASE SubmitFails(i)
      <3>1. ~flows[i].open /\ ~Connecting(i)
        BY <2>5 DEF SubmitFails, AtStep, Connecting, ShapeInv, Sound
      <3>2. \A j \in Flows : j # i => flows'[j] = flows[j]
        BY <2>5 DEF SubmitFails, ShapeInv, TypeOK
      <3> QED
        BY <2>5, <3>1, <3>2 DEF SubmitFails, FollowInv, Followed, Coming, Connecting
    <2>6. CASE Started(i)
      <3>1. /\ flows' = [flows EXCEPT ![i] = [flows[i] EXCEPT !.step = "subscribe"]]
            /\ flows[i] \in Flow /\ ~flows[i].open
        BY <2>6 DEF Started, ShapeInv, Sound
      <3>2. Connecting(i)' /\ flows'[i].sid = flows[i].sid
        BY <3>1 DEF ShapeInv, TypeOK, Connecting, Flow
      <3>3. \A j \in Flows : j # i => flows'[j] = flows[j]
        BY <3>1 DEF ShapeInv, TypeOK
      <3> QED
        BY <2>6, <3>1, <3>2, <3>3 DEF Started, FollowInv, Followed, Coming, Connecting
    <2>7. CASE Subscribed(i) \/ ConnectFails(i)
      <3>1. PICK open \in BOOLEAN : Settled(i, open) /\ (open \/ ConnectFails(i))
        BY <2>7 DEF Subscribed, ConnectFails
      <3>2. /\ open => flows'[i].open /\ flows'[i].sid = flows[i].sid
            /\ \A j \in Flows : j # i => flows'[j] = flows[j]
        BY <3>1, SettledShape
      <3>3. ~open => flows[i].sid \in polling' \cup {None}
        BY <3>1 DEF ConnectFails
      <3>4. polling \subseteq polling' /\ UNCHANGED <<screen, session>> /\ ~flows[i].open
        BY <2>7 DEF Subscribed, ConnectFails, ShapeInv, Sound
      <3> QED
        BY <3>2, <3>3, <3>4 DEF FollowInv, Followed, Coming, Connecting
    <2> QED
      BY <1>5, <2>2, <2>3, <2>4, <2>5, <2>6, <2>7 DEF Answer
  <1> QED
    BY <1>1, <1>2, <1>3, <1>4, <1>5 DEF Next, User

\* A page that shows the widget and has nothing in flight hears of its session:
\* every way out of connectSignalR is a subscription or a polling interval.
THEOREM SessionIsFollowed == Spec => []OwnSessionIsFollowed
  <1>1. Init => FollowInv
    BY DEF Init, FollowInv
  <1>2. FollowInv => OwnSessionIsFollowed
    BY DEF FollowInv, OwnSessionIsFollowed, Coming, Connecting, Busy
  <1> QED
    BY <1>1, <1>2, InitShape, NextShape, NextFollow, PTL DEF Spec
-------------------------------------------------------------------------------
(* A calm page and its session                                             *)

\* What a flow of a calm page is about: the session of the page, or the one a
\* submit is about to make.
Right(f) ==
    /\ f.open => f.sid = session /\ screen = "widget"
    /\ \/ f.step = "idle"
       \/ f.step = "request" /\ f.task = "boot" /\ f.sid = session /\ screen = "setup"
       \/ f.step = "request" /\ f.task = "submit" /\ session = None /\ screen = "setup"
       \/ f.step \in {"start", "subscribe"} /\ f.sid = session /\ screen = "widget"

OneBusy == \A i, j \in Flows : Busy(i) /\ Busy(j) => i = j

Asked == polling \cup gets \cup lists

\* Of the session that is stored, and nothing else, there are links, requests,
\* preferences and a card.
Single ==
    /\ \A i \in Flows : Right(flows[i])
    /\ OneBusy
    /\ Asked \subseteq {session}
    /\ session # None => prefs = session
    /\ screen = "setup" => Asked = {} /\ (session = None \/ \E i \in Flows : Busy(i))
    /\ screen = "widget" => session # None /\ card \in {session, Loading, NoResult}

CalmInv == Calm => Single
\* While a handler of a calm page works, no other does; on the form nothing is
\* open either.
LEMMA OthersRest ==
    ASSUME Single, NEW i \in Flows, Busy(i), NEW j \in Flows, j # i
    PROVE  /\ flows[j].step = "idle"
           /\ flows[j].open => flows[j].sid = session /\ screen = "widget"
  BY DEF Single, OneBusy, Busy, Right

\* A handler moves on; the others keep what they had.
LEMMA OneMoves ==
    ASSUME Single, NEW i \in Flows, Busy(i),
           \A j \in Flows : j # i => flows'[j] = flows[j],
           Right(flows[i])',
           screen = "setup" \/ UNCHANGED <<screen, session>>
    PROVE  (\A j \in Flows : Right(flows[j]))' /\ OneBusy'
  <1>1. ASSUME NEW j \in Flows, j # i PROVE Right(flows[j])' /\ ~Busy(j)'
    BY <1>1, OthersRest DEF Right, Busy
  <1> QED
    BY <1>1 DEF OneBusy

LEMMA UserCalm == ShapeInv /\ CalmInv /\ User /\ Calm' => Single'
  <1> SUFFICES ASSUME ShapeInv, CalmInv, User, Calm' PROVE Single'
    OBVIOUS
  <1>1. CASE Load
    <2>1. \A i \in Flows : flows'[i] = Loaded[i]
      BY <1>1 DEF Load, Loaded
    <2>2. 1 \in Flows
      BY WidgetAssumption DEF Flows
    <2>3. /\ screen' = "setup" /\ Asked' = {} /\ session' = session
          /\ session # None => prefs' = session
      BY <1>1 DEF Load, Asked, Calm
    <2>4. \A i \in Flows : Right(flows[i])'
      BY <2>1, <2>3 DEF Loaded, Right, Idle
    <2>5. OneBusy' /\ (session # None => Busy(1)')
      BY <2>1, <2>2 DEF Loaded, OneBusy, Busy, Idle
    <2> QED
      BY <2>2, <2>3, <2>4, <2>5 DEF Single
  <1>2. ASSUME NEW i \in Flows, NEW s \in Settings, Submit(i, s) PROVE Single'
    <2>1. Single /\ screen = "setup" /\ \A j \in Flows : ~Busy(j)
      BY <1>2 DEF Submit, Calm, CalmInv
    <2>2. session = None
      BY <2>1 DEF Single
    <2>3. /\ flows'[i] = [task |-> "submit", step |-> "request", sid |-> s, open |-> FALSE]
          /\ \A j \in Flows : j # i => flows'[j] = flows[j]
          /\ UNCHANGED <<screen, card, session, prefs, polling, gets, lists>>
      BY <1>2 DEF Submit, ShapeInv, TypeOK
    <2>4. \A j \in Flows : Right(flows[j])'
      BY <2>1, <2>2, <2>3 DEF Single, Right
    <2>5. OneBusy'
      BY <2>1, <2>3 DEF OneBusy, Busy
    <2> QED
      BY <2>1, <2>2, <2>3, <2>4, <2>5 DEF Single, Asked
  <1>3. CASE Expand \/ PickRow
    <2>1. Single /\ screen = "widget" /\ UNCHANGED <<screen, session, prefs, flows>>
      BY <1>3 DEF Expand, PickRow, Calm, CalmInv
    <2>2. Asked' \subseteq {session} /\ card' \in {session, Loading, NoResult}
      BY <1>3, <2>1 DEF Expand, PickRow, Calm, Single, Asked
    <2> QED
      BY <2>1, <2>2 DEF Single, OneBusy, Busy, Right
  <1>4. CASE Reset
    <2>1. /\ Single /\ Asked = {} /\ UNCHANGED <<polling, gets, lists>>
          /\ \A i \in Flows : ~Busy(i) /\ (flows[i].open => i = latest)
      BY <1>4 DEF Reset, Calm, CalmInv, Asked
    <2>2. \A i \in Flows : flows'[i] = IF i = latest THEN Stopped(flows[i]) ELSE flows[i]
      BY <1>4 DEF Reset
    <2>3. ASSUME NEW i \in Flows PROVE flows'[i].step = "idle" /\ ~flows'[i].open
      <3>1. CASE flows[i].open
        <4>1. Stopped(flows[i]) = Idle
          BY <3>1 DEF Stopped
        <4>2. flows'[i] = Idle
          BY <2>1, <2>2, <3>1, <4>1
        <4> QED
          BY <4>2 DEF Idle
      <3>2. CASE ~flows[i].open
        <4>1. flows[i].step = "idle"
          BY <2>1 DEF Busy
        <4>2. Stopped(flows[i]) = flows[i]
          BY <3>2, <4>1 DEF Stopped
        <4>3. flows'[i] = flows[i]
          BY <2>2, <4>2
        <4> QED
          BY <3>2, <4>1, <4>3
      <3> QED
        BY <3>1, <3>2
    <2> QED
      BY <1>4, <2>1, <2>3 DEF Reset, Single, OneBusy, Busy, Right, Asked
  <1> QED
    BY <1>1, <1>2, <1>3, <1>4 DEF User

LEMMA ArrivesCalm == ShapeInv /\ CalmInv /\ Arrives /\ Calm' => Single'
  <1> SUFFICES ASSUME ShapeInv, CalmInv, Arrives, Calm' PROVE Single'
    OBVIOUS
  <1>1. Single /\ UNCHANGED <<screen, session, prefs, flows>>
    BY DEF Arrives, Push, PollAnswered, ExpandAnswered, ListAnswered, Calm, CalmInv
  <1>2. ASSUME screen = "widget", Asked' \subseteq {session},
               card' \in {session, Loading, NoResult}
        PROVE  Single'
    BY <1>1, <1>2 DEF Single, OneBusy, Busy, Right
  <1>3. ASSUME NEW i \in Flows, Push(i) PROVE Single'
    <2>1. /\ flows[i].sid = session /\ screen = "widget"
          /\ session # None /\ prefs = session
      BY <1>1, <1>3 DEF Push, Single, Right
    <2> QED
      BY <1>1, <1>2, <1>3, <2>1 DEF Push, Ask, Single, Asked
  <1>4. ASSUME NEW s \in Settings, PollAnswered(s) \/ ExpandAnswered(s) \/ ListAnswered(s)
        PROVE  Single'
    <2>1. s \in Asked /\ Asked' \subseteq Asked
      BY <1>4 DEF PollAnswered, ExpandAnswered, ListAnswered, Asked
    <2>2. s = session /\ screen = "widget"
      BY <1>1, <2>1 DEF Single, ShapeInv, TypeOK
    <2>3. card' \in {session, card}
      BY <1>4, <2>2 DEF PollAnswered, ExpandAnswered, ListAnswered
    <2> QED
      BY <1>1, <1>2, <2>1, <2>2, <2>3 DEF Single
  <1> QED
    BY <1>3, <1>4 DEF Arrives

LEMMA AnswerCalm ==
    ASSUME ShapeInv, CalmInv, NEW i \in Flows, Answer(i), Calm'
    PROVE  Single'
  <1>1. Single /\ flows \in [Flows -> Flow] /\ Sound(flows[i])
    BY DEF Answer, BootOk, BootFails, SubmitOk, SubmitFails, Started, Subscribed,
           ConnectFails, ThenList, Disturbs, Calm, CalmInv, ShapeInv, TypeOK
  <1>2. ASSUME NEW f, flows' = [flows EXCEPT ![i] = f]
        PROVE  flows'[i] = f /\ \A j \in Flows : j # i => flows'[j] = flows[j]
    BY <1>1, <1>2
  <1>3. ASSUME NEW s, Connect(i, s)
        PROVE  /\ flows'[i].step = "start" /\ flows'[i].sid = s
               /\ flows'[i].open = flows[i].open
               /\ \A j \in Flows : j # i => flows'[j] = flows[j]
    <2>1. flows' = [flows EXCEPT ![i] = [flows[i] EXCEPT !.step = "start", !.sid = s]]
      BY <1>3 DEF Connect
    <2> QED
      BY <1>1, <1>2, <2>1 DEF Flow
  <1>4. CASE BootOk(i)
    <2>1. /\ Busy(i) /\ ~flows[i].open /\ screen = "setup" /\ flows[i].sid = session
          /\ session # None
      BY <1>1, <1>4 DEF BootOk, AtStep, Busy, Sound, Single, Right
    <2>2. Right(flows[i])' /\ \A j \in Flows : j # i => flows'[j] = flows[j]
      BY <1>3, <1>4, <2>1 DEF BootOk, Right
    <2>3. (\A j \in Flows : Right(flows[j]))' /\ OneBusy'
      BY <1>1, <2>1, <2>2, OneMoves
    <2> QED
      BY <1>1, <1>4, <2>1, <2>3 DEF BootOk, Single, Asked
  <1>5. CASE SubmitOk(i)
    <2>1. /\ Busy(i) /\ ~flows[i].open /\ screen = "setup" /\ flows[i].sid # None
          /\ prefs' = flows[i].sid
      BY <1>1, <1>5 DEF SubmitOk, AtStep, Busy, Sound, Single, Right, Disturbs, Calm
    <2>2. Right(flows[i])' /\ \A j \in Flows : j # i => flows'[j] = flows[j]
      BY <1>3, <1>5, <2>1 DEF SubmitOk, Right
    <2>3. (\A j \in Flows : Right(flows[j]))' /\ OneBusy'
      BY <1>1, <2>1, <2>2, OneMoves
    <2> QED
      BY <1>1, <1>5, <2>1, <2>3 DEF SubmitOk, Single, Asked
  <1>6. CASE BootFails(i) \/ SubmitFails(i)
    <2>1. /\ Busy(i) /\ screen = "setup" /\ screen' = "setup" /\ session' = None
          /\ flows' = [flows EXCEPT ![i] = Idle]
          /\ UNCHANGED <<polling, gets, lists>>
      BY <1>1, <1>6 DEF BootFails, SubmitFails, AtStep, Busy, Single, Right
    <2>2. Right(flows[i])' /\ \A j \in Flows : j # i => flows'[j] = flows[j]
      BY <1>2, <2>1 DEF Right, Idle
    <2>3. (\A j \in Flows : Right(flows[j]))' /\ OneBusy'
      BY <1>1, <2>1, <2>2, OneMoves
    <2> QED
      BY <1>1, <2>1, <2>3 DEF Single, Asked
  <1>7. CASE Started(i)
    <2>1. /\ Busy(i) /\ screen = "widget" /\ flows[i].sid = session /\ ~flows[i].open
          /\ UNCHANGED <<screen, card, session, prefs, polling, gets, lists>>
      BY <1>1, <1>7 DEF Started, Busy, Single, Right, Sound
    <2>2. Right(flows[i])' /\ \A j \in Flows : j # i => flows'[j] = flows[j]
      <3>1. flows' = [flows EXCEPT ![i] = [flows[i] EXCEPT !.step = "subscribe"]]
        BY <1>7 DEF Started
      <3> QED
        BY <1>1, <1>2, <2>1, <3>1 DEF Right, Flow
    <2>3. (\A j \in Flows : Right(flows[j]))' /\ OneBusy'
      BY <1>1, <2>1, <2>2, OneMoves
    <2> QED
      BY <1>1, <2>1, <2>3 DEF Single, Asked
  <1>8. CASE Subscribed(i) \/ ConnectFails(i)
    <2>1. /\ Busy(i) /\ screen = "widget" /\ flows[i].sid = session /\ ~flows[i].open
          /\ session # None /\ prefs = session
          /\ UNCHANGED <<screen, card, session, prefs, gets>>
      BY <1>1, <1>8 DEF Subscribed, ConnectFails, Busy, Single, Right, Sound
    <2>2. PICK open \in BOOLEAN : Settled(i, open)
      BY <1>8 DEF Subscribed, ConnectFails
    <2>3. Right(flows[i])' /\ \A j \in Flows : j # i => flows'[j] = flows[j]
      BY <2>1, <2>2, SettledShape DEF Right, Idle
    <2>4. (\A j \in Flows : Right(flows[j]))' /\ OneBusy'
      BY <1>1, <2>1, <2>3, OneMoves
    <2>5. lists' \subseteq {session} /\ polling' \subseteq {session}
      BY <1>1, <1>8, <2>1 DEF Subscribed, ConnectFails, ThenList, Ask, Disturbs, Calm,
                              Single, Asked
    <2> QED
      BY <1>1, <2>1, <2>4, <2>5 DEF Single, Asked
  <1> QED
    BY <1>4, <1>5, <1>6, <1>7, <1>8 DEF Answer

LEMMA NextCalm == ShapeInv /\ CalmInv /\ [Next]_vars => CalmInv'
  <1> SUFFICES ASSUME ShapeInv, CalmInv, [Next]_vars, Calm' PROVE Single'
    BY DEF CalmInv
  <1>1. CASE UNCHANGED vars
    BY <1>1 DEF vars, CalmInv, Calm, Single, OneBusy, Busy, Right, Asked
  <1> QED
    BY <1>1, UserCalm, ArrivesCalm, AnswerCalm DEF Next

LEMMA InitCalm == Init => CalmInv
  BY DEF Init, CalmInv, Single, OneBusy, Busy, Right, Asked, Idle

\* As long as nothing of other settings is left running, the card shows the
\* session that is stored, through any failure, reload and reset.
THEOREM CardIsOfTheSession == Spec => []ShowsTheSession
  <1>1. CalmInv => ShowsTheSession
    BY DEF CalmInv, Single, ShowsTheSession
  <1> QED
    BY <1>1, InitShape, NextShape, InitCalm, NextCalm, PTL DEF Spec

\* As long as nothing of other settings is left running, the page follows no
\* session but its own: reset has stopped the connection it left.
THEOREM OnlyOneIsFollowed == Spec => []OneSessionFollowed
  <1>1. CalmInv => OneSessionFollowed
    BY DEF CalmInv, Single, OneSessionFollowed, Followed, Right, Asked
  <1> QED
    BY <1>1, InitShape, NextShape, InitCalm, NextCalm, PTL DEF Spec

-------------------------------------------------------------------------------
(* The widget keeps the promises of PageSession                            *)

\* The boot check is made by the first flow of a page only.
OneCheck == \A i \in Flows : AtStep(i, "boot", "request") => i = 1

Pending == {flows[i].sid : i \in Submits}
Checking == \E i \in Flows : AtStep(i, "boot", "request")

\* A flow that changes without being, or becoming, a submit on its way.
LEMMA SamePending ==
    ASSUME NEW i \in Flows, \A j \in Flows : j # i => flows'[j] = flows[j],
           ~AtStep(i, "submit", "request"), ~AtStep(i, "submit", "request")'
    PROVE  Pending' = Pending
  <1>1. ASSUME NEW j \in Flows
        PROVE  /\ (j \in Submits)' <=> j \in Submits
               /\ j \in Submits => flows'[j].sid = flows[j].sid
    BY <1>1 DEF Submits, AtStep
  <1> QED
    BY <1>1 DEF Pending, Submits

\* The answer to a submit.
LEMMA AnsweredPending ==
    ASSUME NEW i \in Flows, \A j \in Flows : j # i => flows'[j] = flows[j],
           AtStep(i, "submit", "request"), ~AtStep(i, "submit", "request")',
           NEW s, s = flows[i].sid
    PROVE  Page!Answered(s)
  <1>1. \A j \in Flows : (j \in Submits)' <=> j \in Submits /\ j # i
    BY DEF Submits, AtStep
  <1>2. s \in Pending
    BY DEF Pending, Submits
  <1>3. Pending' = {flows[j].sid : j \in Submits \ {i}}
    BY <1>1 DEF Pending, Submits
  <1>4. Pending' \in {Pending, Pending \ {s}}
    <2>1. Pending = Pending' \cup {s}
      BY <1>3, <1>2 DEF Pending, Submits
    <2> QED
      BY <2>1
  <1> QED
    BY <1>2, <1>4 DEF Page!Answered, Pending

\* The boot check stays where it is when another flow changes.
LEMMA SameChecking ==
    ASSUME NEW i \in Flows, \A j \in Flows : j # i => flows'[j] = flows[j],
           ~AtStep(i, "boot", "request"), ~AtStep(i, "boot", "request")'
    PROVE  Checking' = Checking /\ (OneCheck => OneCheck')
  BY DEF Checking, OneCheck, AtStep

\* The answer to the boot check.
LEMMA CheckAnswered ==
    ASSUME OneCheck, NEW i \in Flows, \A j \in Flows : j # i => flows'[j] = flows[j],
           AtStep(i, "boot", "request"), ~AtStep(i, "boot", "request")'
    PROVE  Checking /\ ~Checking' /\ OneCheck'
  BY DEF Checking, OneCheck, AtStep

LEMMA AnswerKeeps ==
    ASSUME ShapeInv, OneCheck, NEW i \in Flows, Answer(i)
    PROVE  OneCheck' /\ [Page!Next]_Page!vars
  <1> DEFINE Others == \A j \in Flows : j # i => flows'[j] = flows[j]
             Rests(t) == AtStep(i, t, "request")'
  <1>1. flows \in [Flows -> Flow] /\ flows[i].sid \in Settings \cup {None} /\ Sound(flows[i])
    BY DEF ShapeInv, TypeOK, Flow
  <1>2. Others /\ ~Rests("boot") /\ ~Rests("submit")
    <2>1. CASE BootOk(i) \/ SubmitOk(i)
      <3>1. PICK s : Connect(i, s)
        BY <2>1 DEF BootOk, SubmitOk
      <3>2. flows' = [flows EXCEPT ![i] = [flows[i] EXCEPT !.step = "start", !.sid = s]]
        BY <3>1 DEF Connect
      <3> QED
        BY <1>1, <3>2 DEF AtStep, Flow
    <2>2. CASE BootFails(i) \/ SubmitFails(i)
      <3>1. flows' = [flows EXCEPT ![i] = Idle]
        BY <2>2 DEF BootFails, SubmitFails
      <3> QED
        BY <1>1, <3>1 DEF AtStep, Idle
    <2>3. CASE Started(i)
      <3>1. flows' = [flows EXCEPT ![i] = [flows[i] EXCEPT !.step = "subscribe"]]
        BY <2>3 DEF Started
      <3> QED
        BY <1>1, <3>1 DEF AtStep, Flow
    <2>4. CASE Subscribed(i) \/ ConnectFails(i)
      <3>1. PICK open \in BOOLEAN : Settled(i, open)
        BY <2>4 DEF Subscribed, ConnectFails
      <3> QED
        BY <3>1, SettledShape DEF AtStep
    <2> QED
      BY <2>1, <2>2, <2>3, <2>4 DEF Answer
  <1>3. CASE BootOk(i) \/ BootFails(i)
    <2>1. AtStep(i, "boot", "request") /\ ~AtStep(i, "submit", "request")
      BY <1>3 DEF BootOk, BootFails, AtStep
    <2>2. Checking /\ ~Checking' /\ OneCheck' /\ Pending' = Pending
      BY <1>2, <2>1, CheckAnswered, SamePending
    <2>3. Page!Checked
      BY <2>2 DEF Page!Checked, Checking, Pending
    <2>4. Page!CheckOk \/ Page!CheckFails
      BY <1>3, <2>3 DEF BootOk, BootFails, Page!CheckOk, Page!CheckFails
    <2> QED
      BY <2>2, <2>4 DEF Page!Next
  <1>4. CASE SubmitOk(i) \/ SubmitFails(i)
    <2>1. AtStep(i, "submit", "request") /\ ~AtStep(i, "boot", "request")
      BY <1>4 DEF SubmitOk, SubmitFails, AtStep
    <2>2. PICK s \in Settings : s = flows[i].sid
      BY <1>1, <2>1 DEF AtStep, Sound
    <2>3. Page!Answered(s) /\ Checking' = Checking /\ OneCheck'
      BY <1>2, <2>1, <2>2, AnsweredPending, SameChecking
    <2>4. Page!SubmitOk(s) \/ Page!SubmitFails(s)
      BY <1>4, <2>2, <2>3 DEF SubmitOk, SubmitFails, Page!SubmitOk, Page!SubmitFails,
                              Checking
    <2> QED
      BY <2>3, <2>4 DEF Page!Next
  <1>5. CASE Started(i) \/ Subscribed(i) \/ ConnectFails(i)
    <2>1. ~AtStep(i, "boot", "request") /\ ~AtStep(i, "submit", "request")
      BY <1>5 DEF Started, Subscribed, ConnectFails, AtStep
    <2>2. Pending' = Pending /\ Checking' = Checking /\ OneCheck'
      BY <1>2, <2>1, SamePending, SameChecking
    <2>3. UNCHANGED <<screen, session>>
      BY <1>5 DEF Started, Subscribed, ConnectFails
    <2> QED
      BY <2>2, <2>3 DEF Page!vars, Pending, Checking
  <1> QED
    BY <1>3, <1>4, <1>5 DEF Answer

LEMMA NextKeeps ==
    ASSUME ShapeInv, OneCheck, [Next]_vars
    PROVE  OneCheck' /\ [Page!Next]_Page!vars
  <1>1. CASE UNCHANGED <<screen, session, flows>>
    BY <1>1 DEF OneCheck, AtStep, Submits, Page!vars
  <1>2. ASSUME NEW i \in Flows, NEW s \in Settings, Submit(i, s)
        PROVE  OneCheck' /\ [Page!Next]_Page!vars
    <2>1. /\ flows[i].step = "idle"
          /\ flows'[i] = [task |-> "submit", step |-> "request", sid |-> s, open |-> FALSE]
          /\ \A j \in Flows : j # i => flows'[j] = flows[j]
      BY <1>2 DEF Submit, FreeFlow, Idle, ShapeInv, TypeOK
    <2>2. Checking' = Checking /\ OneCheck'
      BY <2>1, SameChecking DEF AtStep
    <2>3. Pending' = Pending \cup {s}
      <3>1. \A j \in Flows : (j \in Submits)' <=> j \in Submits \/ j = i
        BY <2>1 DEF Submits, AtStep
      <3>2. i \notin Submits
        BY <2>1 DEF Submits, AtStep
      <3> QED
        BY <2>1, <3>1, <3>2 DEF Pending, Submits
    <2>4. Page!Submit(s)
      BY <1>2, <2>2, <2>3 DEF Submit, Page!Submit, Checking, Pending
    <2> QED
      BY <2>2, <2>4 DEF Page!Next
  <1>3. CASE Reset
    <2>1. \A j \in Flows : Stopped(flows[j]).step # "request"
                           \/ Stopped(flows[j]) = flows[j]
      BY DEF Stopped, Idle, ShapeInv, TypeOK, Flow
    <2>2. \A j \in Flows : flows[j].step = "request" => Stopped(flows[j]) = flows[j]
      BY DEF Stopped, ShapeInv, Sound
    <2>3. \A j \in Flows : flows'[j] \in {flows[j], Stopped(flows[j])}
      BY <1>3 DEF Reset
    <2>4. \A j \in Flows : \/ flows'[j] = flows[j]
                           \/ flows[j].step # "request" /\ flows'[j].step # "request"
      BY <2>1, <2>2, <2>3
    <2>5. Pending' = Pending /\ Checking' = Checking /\ OneCheck'
      BY <2>4 DEF Pending, Checking, OneCheck, Submits, AtStep
    <2>6. Page!Reset
      BY <1>3, <2>5 DEF Reset, Page!Reset, Pending, Checking
    <2> QED
      BY <2>5, <2>6 DEF Page!Next
  <1>4. CASE Load
    <2>1. \A i \in Flows : flows'[i] = Loaded[i]
      BY <1>4 DEF Load, Loaded
    <2>2. 1 \in Flows
      BY WidgetAssumption DEF Flows
    <2>3. ASSUME NEW i \in Flows
          PROVE  /\ ~AtStep(i, "submit", "request")'
                 /\ AtStep(i, "boot", "request")' <=> i = 1 /\ session # None
      <3>1. flows'[i] = IF i = 1 /\ session # None
                        THEN [task |-> "boot", step |-> "request", sid |-> session,
                              open |-> FALSE]
                        ELSE Idle
        BY <2>1 DEF Loaded
      <3> QED
        BY <3>1 DEF AtStep, Idle
    <2>4. Pending' = {} /\ OneCheck'
      BY <2>3 DEF Pending, Submits, OneCheck
    <2>5. Checking' = (session # None)
      BY <2>2, <2>3 DEF Checking
    <2>6. Page!Load
      BY <1>4, <2>4, <2>5 DEF Load, Page!Load, Pending, Checking
    <2> QED
      BY <2>4, <2>6 DEF Page!Next
  <1>5. CASE Expand \/ PickRow \/ Arrives \/ UNCHANGED vars
    BY <1>1, <1>5 DEF Expand, PickRow, Arrives, Push, PollAnswered, ExpandAnswered,
                      ListAnswered, vars
  <1> QED
    BY <1>2, <1>3, <1>4, <1>5, AnswerKeeps DEF Next, User

\* The widget implements PageSession: only an answered submit makes a session, only
\* reset and a failed check remove it, for any number of overlapping handlers.
THEOREM WidgetKeepsSession == Spec => SessionIsKept
  <1>1. Init => Page!Init
    BY DEF Init, Page!Init, Submits, AtStep, Idle
  <1>2. Init => OneCheck
    BY DEF Init, OneCheck, AtStep, Idle
  <1>3. ShapeInv /\ OneCheck /\ [Next]_vars => OneCheck' /\ [Page!Next]_Page!vars
    BY NextKeeps
  <1> QED
    BY <1>1, <1>2, <1>3, InitShape, NextShape, PTL DEF Spec, SessionIsKept, Page!Spec
===============================================================================
