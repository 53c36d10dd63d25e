------------------------------- MODULE SetupForm -------------------------------
(***************************************************************************)
(* The form of the page (app.js): fuel, position by GPS or by the search   *)
(* for a city with its suggestions, submit, and what localStorage keeps of *)
(* them.  The page after the form is the module Widget; here it is a       *)
(* screen that reset leaves.                                               *)
(*                                                                         *)
(* A query is named by the city it finds, a suggestion list by its query:  *)
(* the user picks the suggestion that is his city.  The radius is left     *)
(* out.  The address API, the browser's geolocation and the REST API are   *)
(* an environment: every request is answered or fails.                     *)
(***************************************************************************)
EXTENDS Naturals, FiniteSets

CONSTANTS
    Cities,     \* what the user may type and the address API finds
    Gps,        \* the position of the browser
    Fuels,
    None,       \* null, an empty field, a hidden list, nothing in flight
    NoCity,     \* the list that says "no result"
    MaxPosts    \* bound of the model: submits in flight

Places == Cities \cup {Gps}
Settings == [place: Places, fuel: Fuels]
Choice == [place: Places \cup {None}, fuel: Fuels \cup {None}]
Nothing == [place |-> None, fuel |-> None]

ASSUME SetupAssumption ==
    /\ Gps \notin Cities /\ NoCity \notin Cities
    /\ None \notin Places \cup Fuels \cup {NoCity}
    /\ None \notin Choice
    /\ MaxPosts \in Nat \ {0}

VARIABLES
    screen,     \* "setup" or "widget"
    choice,     \* userLat and userLng, selectedFuel
    ready,      \* the submit button is enabled
    gps,        \* a position has been asked for
    fallback,   \* the search for a city is shown
    named,      \* the city the status line names as the position
    asks,       \* queries of the autocomplete, in debounceTimer or on their way
    list,       \* the suggestions shown
    search,     \* query of the search button on its way; the button is disabled
    posts,      \* POST /api/setup on their way
    boot,       \* the session the boot check is about
    session,    \* sessionId
    stored,     \* gazole_session
    prefs,      \* gazole_prefs
    \* History, since the page was loaded:
    edited,     \* the choice changed while a submit was in flight
    raced       \* a submit was sent while the boot check was in flight

position == <<gps, fallback>>
finder == <<named, asks, list, search>>
storage == <<session, stored, prefs>>
history == <<edited, raced>>
vars == <<screen, choice, ready, position, finder, posts, boot, storage, history>>

Blank ==
    /\ screen' = "setup" /\ choice' = Nothing /\ ready' = FALSE
    /\ gps' = FALSE /\ fallback' = FALSE
    /\ named' = None
    /\ asks' = {} /\ list' = None /\ search' = None
    /\ posts' = {}

Init ==
    /\ screen = "setup" /\ choice = Nothing /\ ready = FALSE
    /\ gps = FALSE /\ fallback = FALSE
    /\ named = None
    /\ asks = {} /\ list = None /\ search = None
    /\ posts = {} /\ boot = None
    /\ session = None /\ stored = None /\ prefs = None
    /\ edited = FALSE /\ raced = FALSE

\* The page is loaded.  A stored session is checked while the form is shown;
\* without one showSetup throws (logToggleBtn is not initialised yet), so the
\* position is not asked for.  What the page before did to the preferences counts
\* as an edit only if it left others than those of the session.
Load ==
    /\ Blank
    /\ boot' = stored /\ session' = stored
    /\ raced' = FALSE /\ edited' = (stored # None /\ prefs # stored)
    /\ UNCHANGED <<stored, prefs>>

-------------------------------------------------------------------------------
(* What several handlers do                                                *)

\* Mutant: any fuel is enough.
checkFuelOnly == ready' = (choice'.fuel # None)

checkReady == ready' = (choice'.place # None /\ choice'.fuel # None)

\* Read after choice': the choice changes under a submit.
Watched == edited' = (edited \/ (choice' # choice /\ posts # {}))

Choose(place, fuel) ==
    /\ choice' = [place |-> place, fuel |-> fuel]
    /\ Watched

\* Without geolocation in the browser the search for a city is shown at once.
requestGeolocation(hidden) ==
    \/ gps' = TRUE /\ fallback' = hidden
    \/ fallback' = TRUE /\ UNCHANGED gps

\* A city is the position from now on.
Found(city) ==
    /\ Choose(city, choice.fuel)
    /\ named' = city /\ list' = None
    /\ checkReady

-------------------------------------------------------------------------------
(* Fuel and position                                                       *)

OnForm == screen = "setup"
CanType == OnForm /\ fallback

\* A click anywhere but on the search hides the suggestions.
ChooseFuel(f) ==
    /\ OnForm
    /\ Choose(choice.place, f)
    /\ checkReady
    /\ list' = None
    /\ UNCHANGED <<screen, position, named, asks, search, posts, boot,
                   storage, raced>>

AskPosition ==
    /\ OnForm /\ ~gps
    /\ requestGeolocation(fallback)
    /\ list' = None
    /\ UNCHANGED <<screen, choice, ready, named, asks, search, posts, boot,
                   storage, history>>

\* Mutant: the position does not check the form again.
PositionFoundQuietly ==
    /\ gps /\ gps' = FALSE
    /\ fallback' = FALSE
    /\ Choose(Gps, choice.fuel)
    /\ UNCHANGED <<screen, ready, finder, posts, boot, storage, raced>>

\* The answer comes whatever the page shows by then.
PositionFound ==
    /\ gps /\ gps' = FALSE
    /\ fallback' = FALSE
    /\ Choose(Gps, choice.fuel)
    /\ checkReady
    /\ UNCHANGED <<screen, finder, posts, boot, storage, raced>>

PositionFails ==
    /\ gps /\ gps' = FALSE
    /\ fallback' = TRUE
    /\ UNCHANGED <<screen, choice, ready, finder, posts, boot, storage, history>>

-------------------------------------------------------------------------------
(* The search for a city                                                   *)

\* 250 ms without a key after at least two characters; a query that another key
\* stops before is as good as not typed.
Type(q) ==
    /\ CanType
    /\ asks' = asks \cup {q}
    /\ UNCHANGED <<screen, choice, ready, position, named, list, search, posts, boot,
                   storage, history>>

\* The list is replaced whatever has been typed, picked or hidden since.
SuggestionsArrive(q) ==
    /\ q \in asks /\ asks' = asks \ {q}
    /\ list' \in {q, NoCity, list}
    /\ UNCHANGED <<screen, choice, ready, position, named, search, posts,
                   boot, storage, history>>

\* Mutant: the line "no result" can be picked as well.
PickAnyLine ==
    /\ CanType /\ list # None
    /\ Found(list)
    /\ UNCHANGED <<screen, position, asks, search, posts, boot, storage, raced>>

\* Only the lines with coordinates listen to clicks.
PickSuggestion ==
    /\ CanType /\ list \in Cities
    /\ Found(list)
    /\ UNCHANGED <<screen, position, asks, search, posts, boot, storage, raced>>

\* Escape, a click elsewhere, or less than two characters left in the field.
HideSuggestions ==
    /\ list # None /\ list' = None
    /\ UNCHANGED <<screen, choice, ready, position, named, asks, search,
                   posts, boot, storage, history>>

\* The button, or Enter, with q in the field.  With any position at hand it only
\* validates.
Search(q) ==
    /\ CanType /\ search = None
    /\ IF choice.place # None
       THEN /\ list' = None /\ UNCHANGED <<choice, named, search>> /\ checkReady
       ELSE /\ search' = q /\ named' = None /\ UNCHANGED <<choice, ready, list>>
    /\ UNCHANGED <<screen, position, asks, posts, boot, storage, history>>

\* Mutant: a position picked meanwhile is kept under the label of the search.
SearchFoundKeepsPlace ==
    /\ search # None /\ search' = None
    /\ Choose(IF choice.place = None THEN search ELSE choice.place, choice.fuel)
    /\ named' = search /\ list' = None
    /\ checkReady
    /\ UNCHANGED <<screen, position, asks, posts, boot, storage, raced>>

SearchFound ==
    /\ search # None /\ search' = None
    /\ Found(search)
    /\ UNCHANGED <<screen, position, asks, posts, boot, storage, raced>>

\* No result or an error, which the status line shows.
SearchFails ==
    /\ search # None /\ search' = None
    /\ named' = None
    /\ UNCHANGED <<screen, choice, ready, position, asks, list, posts, boot,
                   storage, history>>

-------------------------------------------------------------------------------
(* Submit, boot and reset                                                  *)

\* Two submits with the same payload are not told apart.
Submit ==
    /\ OnForm /\ ready
    /\ Cardinality(posts) < MaxPosts /\ choice \notin posts
    /\ ready' = FALSE
    /\ posts' = posts \cup {choice}
    /\ list' = None
    /\ raced' = (raced \/ boot # None)
    /\ UNCHANGED <<screen, choice, position, named, asks, search, boot,
                   storage, edited>>

\* Mutant: preferences that are stored already are kept.
SubmitOkFirstPrefs(p) ==
    /\ p \in posts \cap Settings /\ posts' = posts \ {p}
    /\ session' = p /\ stored' = p /\ prefs' = (IF prefs = None THEN choice ELSE prefs)
    /\ screen' = "widget"
    /\ UNCHANGED <<choice, ready, position, finder, boot, history>>

\* The session is that of the payload, the preferences are the choice by now.
SubmitOk(p) ==
    /\ p \in posts \cap Settings /\ posts' = posts \ {p}
    /\ session' = p /\ stored' = p /\ prefs' = choice
    /\ screen' = "widget"
    /\ UNCHANGED <<choice, ready, position, finder, boot, history>>

\* Mutant: the button stays disabled.
SubmitFailsLocked(p) ==
    /\ p \in posts /\ posts' = posts \ {p}
    /\ UNCHANGED <<screen, choice, ready, position, finder, boot, storage, history>>

SubmitFails(p) ==
    /\ p \in posts /\ posts' = posts \ {p}
    /\ ready' = TRUE
    /\ UNCHANGED <<screen, choice, position, finder, boot, storage, history>>

BootOk ==
    /\ boot # None /\ boot' = None
    /\ choice' = IF prefs = None THEN choice ELSE prefs
    /\ Watched
    /\ screen' = "widget"
    /\ UNCHANGED <<ready, position, finder, posts, storage, raced>>

\* Mutant: the session is forgotten but stays in localStorage.
BootFailsKeepsStored ==
    /\ boot # None /\ boot' = None
    /\ session' = None
    /\ screen' = "setup"
    /\ requestGeolocation(fallback)
    /\ UNCHANGED <<choice, ready, finder, posts, stored, prefs, history>>

\* Any failure of the check wipes what is stored by now.
BootFails ==
    /\ boot # None /\ boot' = None
    /\ session' = None /\ stored' = None /\ prefs' = None
    /\ screen' = "setup"
    /\ requestGeolocation(fallback)
    /\ UNCHANGED <<choice, ready, finder, posts, history>>

\* gazole_prefs stays, and so does what has been asked for.
Reset ==
    /\ screen = "widget" /\ screen' = "setup"
    /\ session' = None /\ stored' = None
    /\ choice' = Nothing /\ Watched
    /\ named' = None /\ list' = None
    /\ ready' = FALSE
    /\ requestGeolocation(FALSE)
    /\ UNCHANGED <<asks, search, posts, boot, prefs, raced>>

-------------------------------------------------------------------------------

PostAnswered == \E p \in Choice : SubmitOk(p) \/ SubmitFails(p)
BootAnswered == BootOk \/ BootFails
SearchAnswered == SearchFound \/ SearchFails
PositionAnswered == PositionFound \/ PositionFails
Suggestions == \E q \in Cities : SuggestionsArrive(q)

User ==
    \/ \E f \in Fuels : ChooseFuel(f)
    \/ \E q \in Cities : Type(q) \/ Search(q)
    \/ AskPosition \/ PickSuggestion \/ HideSuggestions
    \/ Submit \/ Reset \/ Load

Next ==
    \/ User \/ Suggestions
    \/ PostAnswered \/ BootAnswered \/ SearchAnswered \/ PositionAnswered

Spec == Init /\ [][Next]_vars

\* The browser ends every request, with an answer or an error; only that of the
\* submits is needed.
FairSpec == Spec /\ WF_vars(PostAnswered)

-------------------------------------------------------------------------------
(* Properties                                                              *)

Chosen == choice \in Settings

\* The state has its types; in particular a position is a city or that of the GPS,
\* never the line that says there is no result.
TypeOK ==
    /\ screen \in {"setup", "widget"}
    /\ choice \in Choice /\ ready \in BOOLEAN
    /\ gps \in BOOLEAN /\ fallback \in BOOLEAN
    /\ named \in Cities \cup {None}
    /\ asks \subseteq Cities
    /\ list \in Cities \cup {NoCity, None}
    /\ search \in Cities \cup {None}
    /\ posts \subseteq Choice
    /\ boot \in Settings \cup {None}
    /\ session \in Settings \cup {None} /\ stored \in Settings \cup {None}
    /\ prefs \in Choice \cup {None}
    /\ edited \in BOOLEAN /\ raced \in BOOLEAN

\* However late suggestions, searches and positions arrive, the form never
\* names one city and holds the position of another (app.js: the click on a
\* suggestion, locationSearch, requestGeolocation, reset).
LabelNamesPlace == OnForm /\ named # None => choice.place \in {named, Gps}

\* sessionId and gazole_session agree, and a page that shows the form has no
\* session stored unless its boot check is on its way: the next load shows what
\* this page shows (app.js boot, submit, reset).
ScreenMatchesSession ==
    /\ session = stored
    /\ OnForm /\ stored # None => boot # None

\* The preferences stored are those of the session stored, unless the choice
\* has changed while a submit was in flight, on this page or on the one that left
\* them (app.js gazole_prefs).
PrefsOfTheSession == ~edited /\ stored # None => prefs = stored

\* The button is enabled only when fuel and position are chosen, with the same
\* exception: a submit that fails enables it without looking (app.js checkReady).
ButtonMeansChosen == ~edited /\ ready => Chosen

\* With everything chosen the button is enabled or a submit is on its way, unless
\* a submit has overlapped with the boot check, whose failure shows the form
\* again as the submit left it (app.js checkReady, submit, boot).
ChosenMeansButton == ~raced /\ OnForm /\ Chosen => ready \/ posts # {}

\* A user who stays on a completed form can submit again and again, whatever
\* fails, with the same exception (app.js setupForm submit).
FormComesBack == []<>(OnForm /\ Chosen /\ ~raced => ready)

\* The form half of the page keeps what PageSession promises about gazole_session:
\* it holds settings that were complete when they were submitted, and goes with
\* reset and with a failed boot check only (app.js boot, submit, reset).
Page == INSTANCE PageSession
        WITH session <- stored, pending <- posts \cap Settings,
             checking <- boot # None
SessionIsKept == Page!Spec
===============================================================================
