-------------------------------- MODULE Widget --------------------------------
(***************************************************************************)
(* The page once it is set up (app.js): the boot check, the submit and the *)
(* connection each of them opens, the polling that replaces it, the card,  *)
(* the list of the five cheapest, and reset.                               *)
(*                                                                         *)
(* A session is named by the settings it was made with, and so are the     *)
(* station on the card and the list: what can go wrong is that they belong *)
(* to other settings.  The form is the module SetupForm; here the user may *)
(* submit any settings, and change them again while the answer is on its   *)
(* way.  sessionId and gazole_session are one variable (SetupForm shows    *)
(* that they agree).  The server is an environment: every request is       *)
(* answered or fails.  Connections that are lost once they are open, and   *)
(* the server itself, are in LivePrices.                                   *)
(***************************************************************************)
EXTENDS Naturals

CONSTANTS
    Settings,           \* a place, a fuel and a radius
    None,               \* null, nothing stored, or incomplete settings
    Loading, NoResult,  \* the two cards without a station
    MaxFlows            \* bound of the model: handlers in flight, connections open

ASSUME WidgetAssumption ==
    /\ MaxFlows \in Nat \ {0}
    /\ None \notin Settings \cup Nat
    /\ Loading \notin Settings /\ NoResult \notin Settings

VARIABLES
    screen,     \* "setup" or "widget"
    card,       \* the card, and whose station it shows
    rows,       \* whose stations the list holds
    session,    \* sessionId and gazole_session
    prefs,      \* gazole_prefs
    flows,      \* boot and submit handlers, each with its connection
    latest,     \* the flow whose connection the global `connection` holds
    polling,    \* sessions with a polling interval
    gets,       \* answers of the expand button on their way
    lists,      \* answers of GET /api/nearby on their way
    raced       \* history: something of other settings may be about (see Calm)

vars == <<screen, card, rows, session, prefs, flows, latest, polling, gets, lists, raced>>

Flows == 1..MaxFlows
Flow == [task: {"none", "boot", "submit"},
         step: {"idle", "request", "start", "subscribe", "stopped"},
         sid: Settings \cup {None},
         open: BOOLEAN]
Idle == [task |-> "none", step |-> "idle", sid |-> None, open |-> FALSE]

Busy(i) == flows[i].step # "idle"
AtStep(i, task, step) == flows[i].task = task /\ flows[i].step = step

\* The page as the browser loads it.  A stored session is checked with
\* GET /api/cheapest while the form is shown.
Loaded ==
    [i \in Flows |-> IF i = 1 /\ session # None
                     THEN [task |-> "boot", step |-> "request", sid |-> session,
                           open |-> FALSE]
                     ELSE Idle]

Init ==
    /\ screen = "setup" /\ card = Loading /\ rows = None
    /\ session = None /\ prefs = None
    /\ flows = [i \in Flows |-> Idle]
    /\ latest = None /\ polling = {} /\ gets = {} /\ lists = {}
    /\ raced = FALSE

Load ==
    /\ screen' = "setup" /\ card' = Loading /\ rows' = None
    /\ flows' = Loaded
    /\ latest' = None /\ polling' = {} /\ gets' = {} /\ lists' = {}
    /\ raced' = (session # None /\ prefs # session)
    /\ UNCHANGED <<session, prefs>>

-------------------------------------------------------------------------------
(* Boot and submit                                                         *)

\* A flow with nothing in flight and no open connection.
FreeFlow(i) ==
    /\ flows[i] = Idle
    /\ \A j \in Flows : flows[j] = Idle => i <= j

\* The submit button may be enabled again while a submit or the boot check is
\* in flight (SetupForm), so requests overlap.
Submit(i, s) ==
    /\ screen = "setup"
    /\ FreeFlow(i)
    /\ flows' = [flows EXCEPT ![i] = [task |-> "submit", step |-> "request",
                                      sid |-> s, open |-> FALSE]]
    /\ raced' = (raced \/ \E j \in Flows : Busy(j))
    /\ UNCHANGED <<screen, card, rows, session, prefs, latest, polling, gets, lists>>

\* connectSignalR(s): a new connection, which is the one reset will stop.
Connect(i, s) ==
    /\ flows' = [flows EXCEPT ![i].step = "start", ![i].sid = s]
    /\ latest' = i

\* The check succeeds: the page follows what sessionId is by now.
BootOk(i) ==
    /\ AtStep(i, "boot", "request")
    /\ screen' = "widget" /\ card' = flows[i].sid
    /\ Connect(i, session)
    /\ UNCHANGED <<rows, session, prefs, polling, gets, lists, raced>>

\* Mutant: the session stays stored, only the preferences go.
BootFailsKeepsSession(i) ==
    /\ AtStep(i, "boot", "request")
    /\ prefs' = None
    /\ screen' = "setup"
    /\ flows' = [flows EXCEPT ![i] = Idle]
    /\ UNCHANGED <<card, rows, session, latest, polling, gets, lists, raced>>

\* Any failure of the check, 404 for lack of a station included.
BootFails(i) ==
    /\ AtStep(i, "boot", "request")
    /\ session' = None /\ prefs' = None
    /\ screen' = "setup"
    /\ flows' = [flows EXCEPT ![i] = Idle]
    /\ UNCHANGED <<card, rows, latest, polling, gets, lists, raced>>

\* The form may hold other settings than the payload by now.
Disturbs(i, c) == raced' = (raced \/ c # flows[i].sid)

\* Mutant: an answer without a station leaves the card as it was.
SubmitOkKeepsCard(i) ==
    /\ AtStep(i, "submit", "request")
    /\ screen' = "widget" /\ card' \in {flows[i].sid, card}
    /\ session' = flows[i].sid
    /\ \E c \in Settings \cup {None} : prefs' = c /\ Disturbs(i, c)
    /\ Connect(i, flows[i].sid)
    /\ UNCHANGED <<rows, polling, gets, lists>>

SubmitOk(i) ==
    /\ AtStep(i, "submit", "request")
    /\ screen' = "widget" /\ card' \in {flows[i].sid, NoResult}
    /\ session' = flows[i].sid
    /\ \E c \in Settings \cup {None} : prefs' = c /\ Disturbs(i, c)
    /\ Connect(i, flows[i].sid)
    /\ UNCHANGED <<rows, polling, gets, lists>>

SubmitFails(i) ==
    /\ AtStep(i, "submit", "request")
    /\ flows' = [flows EXCEPT ![i] = Idle]
    /\ UNCHANGED <<screen, card, rows, session, prefs, latest, polling, gets, lists, raced>>

-------------------------------------------------------------------------------
(* The connection                                                          *)

Started(i) ==
    /\ flows[i].step = "start"
    /\ flows' = [flows EXCEPT ![i].step = "subscribe"]
    /\ UNCHANGED <<screen, card, rows, session, prefs, latest, polling, gets, lists, raced>>

\* Mutant: the list is asked for without preferences.
AskUnchecked(c) == lists' = lists \cup {c}

\* loadTop5Direct; a request with a null in it is refused.
Ask(c) == lists' = lists \cup ({c} \ {None})

\* connectSignalR has returned: the list is asked for with the stored
\* preferences after a boot, with what the form holds after a submit.
ThenList(i) ==
    \/ flows[i].task = "boot" /\ Ask(prefs) /\ UNCHANGED raced
    \/ flows[i].task = "submit"
       /\ \E c \in Settings \cup {None} : Ask(c) /\ Disturbs(i, c)

Settled(i, open) ==
    flows' = [flows EXCEPT ![i] = IF open THEN [Idle EXCEPT !.sid = flows[i].sid,
                                                            !.open = TRUE]
                                  ELSE Idle]

Subscribed(i) ==
    /\ flows[i].step = "subscribe"
    /\ Settled(i, TRUE)
    /\ ThenList(i)
    /\ UNCHANGED <<screen, card, rows, session, prefs, latest, polling, gets>>

\* Mutant: a failed connection is only logged.
ConnectFailsSilently(i) ==
    /\ flows[i].step \in {"start", "subscribe", "stopped"}
    /\ \/ Settled(i, FALSE)
       \/ flows[i].step = "subscribe" /\ Settled(i, TRUE)
    /\ ThenList(i)
    /\ UNCHANGED <<screen, card, rows, session, prefs, latest, polling, gets>>

\* The library is missing, start() or Subscribe fails, or reset has stopped the
\* connection under them: startPolling.  A Subscribe that throws at the server
\* leaves the connection open, in its group.
ConnectFails(i) ==
    /\ flows[i].step \in {"start", "subscribe", "stopped"}
    /\ \/ Settled(i, FALSE)
       \/ flows[i].step = "subscribe" /\ Settled(i, TRUE)
    /\ polling' = polling \cup ({flows[i].sid} \ {None})
    /\ ThenList(i)
    /\ UNCHANGED <<screen, card, rows, session, prefs, latest, gets>>

-------------------------------------------------------------------------------
(* What is drawn                                                           *)

\* PriceUpdate, while Subscribe is running or once it has returned.
Push(i) ==
    /\ flows[i].step = "subscribe" \/ flows[i].open
    /\ flows[i].sid # None
    /\ card' = flows[i].sid
    /\ Ask(prefs)
    /\ UNCHANGED <<screen, rows, session, prefs, flows, latest, polling, gets, raced>>

\* An interval is never cleared, so its answers come for ever.
PollAnswered(s) ==
    /\ s \in polling
    /\ card' = s
    /\ UNCHANGED <<screen, rows, session, prefs, flows, latest, polling, gets, lists, raced>>

\* The button of the "no result" card; without a session the request is refused.
Expand ==
    /\ screen = "widget" /\ card = NoResult
    /\ gets' = gets \cup ({session} \ {None})
    /\ UNCHANGED <<screen, card, rows, session, prefs, flows, latest, polling, lists, raced>>

ExpandAnswered(s) ==
    /\ s \in gets /\ gets' = gets \ {s}
    /\ card' \in {s, card}
    /\ UNCHANGED <<screen, rows, session, prefs, flows, latest, polling, lists, raced>>

\* Stations, none, or a failure that leaves the list as it is.
ListAnswered(s) ==
    /\ s \in lists /\ lists' = lists \ {s}
    /\ rows' \in {s, None, rows}
    /\ UNCHANGED <<screen, card, session, prefs, flows, latest, polling, gets, raced>>

\* A click on a row of the list, which is opened from the widget.
PickRow ==
    /\ screen = "widget" /\ rows # None
    /\ card' = rows
    /\ raced' = (raced \/ rows # session)
    /\ UNCHANGED <<screen, rows, session, prefs, flows, latest, polling, gets, lists>>

-------------------------------------------------------------------------------
(* Reset: only the latest connection is stopped; gazole_prefs, the         *)
(* intervals, the list and the answers on their way stay.                  *)

\* Mutant: reset only stops a connection that is being opened.
StoppedOpening(f) ==
    IF f.step \in {"start", "subscribe"} THEN [f EXCEPT !.step = "stopped"] ELSE f

Stopped(f) ==
    IF f.open THEN Idle
    ELSE IF f.step \in {"start", "subscribe"} THEN [f EXCEPT !.step = "stopped"]
    ELSE f

Reset ==
    /\ screen = "widget"
    /\ screen' = "setup"
    /\ session' = None
    /\ flows' = [i \in Flows |-> IF i = latest THEN Stopped(flows[i]) ELSE flows[i]]
    /\ raced' = (raced \/ polling \cup gets \cup lists # {}
                       \/ \E i \in Flows : Busy(i) \/ (flows[i].open /\ i # latest))
    /\ UNCHANGED <<card, rows, prefs, latest, polling, gets, lists>>

-------------------------------------------------------------------------------

Answer(i) ==
    \/ BootOk(i) \/ BootFails(i) \/ SubmitOk(i) \/ SubmitFails(i)
    \/ Started(i) \/ Subscribed(i) \/ ConnectFails(i)

User ==
    \/ \E i \in Flows, s \in Settings : Submit(i, s)
    \/ Expand \/ PickRow \/ Reset \/ Load

Arrives ==
    \/ \E i \in Flows : Push(i)
    \/ \E s \in Settings : PollAnswered(s) \/ ExpandAnswered(s) \/ ListAnswered(s)

Next == User \/ Arrives \/ \E i \in Flows : Answer(i)

Spec == Init /\ [][Next]_vars

-------------------------------------------------------------------------------
(* Properties                                                              *)

\* The state has its types; in particular nothing is polled or asked for without
\* settings.
TypeOK ==
    /\ screen \in {"setup", "widget"}
    /\ card \in Settings \cup {Loading, NoResult}
    /\ rows \in Settings \cup {None}
    /\ session \in Settings \cup {None} /\ prefs \in Settings \cup {None}
    /\ flows \in [Flows -> Flow]
    /\ latest \in Flows \cup {None}
    /\ polling \subseteq Settings /\ gets \subseteq Settings /\ lists \subseteq Settings
    /\ raced \in BOOLEAN

\* The page hears of s: on an open connection, or by polling.
Followed(s) == s \in polling \/ \E i \in Flows : flows[i].open /\ flows[i].sid = s

\* None of these since the page was loaded: a submit sent while another handler
\* was in flight; settings changed between a submit and its last request; a reset
\* with a polling interval, an answer on its way or a connection that is not
\* the latest; a row picked from the list of other settings.
Calm == ~raced

\* Whatever overlaps, and whatever fails while the page connects, a page that shows
\* the widget for a session and has no handler in flight hears of that session:
\* connectSignalR ends subscribed or polling, and only reset, which leaves the
\* widget, stops a connection.  The loss of one that is open is in LivePrices
\* (app.js connectSignalR, startPolling, reset).
OwnSessionIsFollowed ==
    screen = "widget" /\ session # None /\ (\A i \in Flows : ~Busy(i))
        => Followed(session)

\* A calm page shows the session that is stored and no other, across reloads and
\* after a reset that left nothing behind (app.js renderResult and its callers).
ShowsTheSession ==
    Calm /\ screen = "widget" => card \in {session, Loading, NoResult}

\* A calm page follows no session but its own: reset stops the one it leaves
\* (app.js connection.stop()).
OneSessionFollowed ==
    Calm => \A s \in Settings : Followed(s) => s = session

\* The widget half of the page keeps what PageSession promises about the stored
\* session, whatever overlaps: it is made by an answered submit only, and only
\* reset and a failed boot check remove it (app.js boot, submit, reset).
Submits == {i \in Flows : AtStep(i, "submit", "request")}
Page == INSTANCE PageSession
        WITH pending <- {flows[i].sid : i \in Submits},
             checking <- \E i \in Flows : AtStep(i, "boot", "request")
SessionIsKept == Page!Spec
===============================================================================
