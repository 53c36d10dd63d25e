--------------------------- MODULE SetupFormProofs ---------------------------
(***************************************************************************)
(* Theorems about SetupForm, for any cities, any fuels and any number of   *)
(* submits in flight, from SetupAssumption.                                *)
(***************************************************************************)
EXTENDS SetupForm, TLAPS

LEMMA Unchosen == Nothing \in Choice /\ Nothing \notin Settings
  BY SetupAssumption DEF Nothing, Choice, Settings

LEMMA InitTypes == Init => TypeOK
  BY Unchosen DEF Init, TypeOK

\* What Found does to the types, for a city.
LEMMA FoundTypes ==
    ASSUME TypeOK, NEW c \in Cities, Found(c)
    PROVE  /\ choice' \in Choice /\ named' = c /\ list' = None
           /\ ready' \in BOOLEAN /\ edited' \in BOOLEAN
           /\ choice'.place = c
  BY DEF Found, Choose, Watched, checkReady, TypeOK, Choice, Places

\* A complete choice is what settings are.
LEMMA Complete ==
    ASSUME NEW c \in Choice
    PROVE  c \in Settings <=> c.place # None /\ c.fuel # None
  BY SetupAssumption DEF Choice, Settings

LEMMA NextTypes == TypeOK /\ [Next]_vars => TypeOK'
  <1> SUFFICES ASSUME TypeOK, [Next]_vars PROVE TypeOK'
    OBVIOUS
  <1> USE DEF TypeOK, position, finder, storage, history
  <1>1. CASE UNCHANGED vars
    BY <1>1 DEF vars
  <1>2. ASSUME NEW f \in Fuels, ChooseFuel(f) PROVE TypeOK'
    <2>1. choice' \in Choice /\ edited' \in BOOLEAN /\ ready' \in BOOLEAN
      BY <1>2 DEF ChooseFuel, Choose, Watched, checkReady, Choice
    <2> QED
      BY <1>2, <2>1 DEF ChooseFuel
  <1>3. CASE AskPosition
    <2>1. gps' \in BOOLEAN /\ fallback' \in BOOLEAN
      BY <1>3 DEF AskPosition, requestGeolocation
    <2> QED
      BY <1>3, <2>1 DEF AskPosition
  <1>4. CASE PositionAnswered
    <2>1. ASSUME PositionFound
          PROVE  choice' \in Choice /\ edited' \in BOOLEAN /\ ready' \in BOOLEAN
      BY <2>1 DEF PositionFound, Choose, Watched, checkReady, Choice, Places
    <2> QED
      BY <1>4, <2>1 DEF PositionAnswered, PositionFound, PositionFails
  <1>5. ASSUME NEW q \in Cities, Type(q) PROVE TypeOK'
    BY <1>5 DEF Type
  <1>6. CASE Suggestions
    BY <1>6 DEF Suggestions, SuggestionsArrive
  <1>7. CASE PickSuggestion
    BY <1>7, FoundTypes DEF PickSuggestion
  <1>8. CASE HideSuggestions \/ \E q \in Cities : Search(q)
    BY <1>8 DEF HideSuggestions, Search, checkReady
  <1>9. CASE SearchAnswered
    <2>1. CASE SearchFound
      BY <2>1, FoundTypes DEF SearchFound
    <2> QED
      BY <1>9, <2>1 DEF SearchAnswered, SearchFails
  <1>10. CASE Submit
    BY <1>10 DEF Submit
  <1>11. CASE PostAnswered
    BY <1>11 DEF PostAnswered, SubmitOk, SubmitFails
  <1>12. CASE BootAnswered
    <2>1. choice' \in Choice /\ edited' \in BOOLEAN
      BY <1>12 DEF BootAnswered, BootOk, BootFails, Watched
    <2> QED
      BY <1>12, <2>1 DEF BootAnswered, BootOk, BootFails, requestGeolocation
  <1>13. CASE Reset
    <2>1. choice' \in Choice /\ edited' \in BOOLEAN
      BY <1>13, Unchosen DEF Reset, Watched
    <2> QED
      BY <1>13, <2>1 DEF Reset, requestGeolocation
  <1>14. CASE Load
    BY <1>14, Unchosen DEF Load, Blank
  <1> QED
    BY <1>1, <1>2, <1>3, <1>4, <1>5, <1>6, <1>7, <1>8, <1>9, <1>10, <1>11, <1>12,
       <1>13, <1>14 DEF Next, User

\* The form keeps its types: a position is a city that was found or that of the
\* GPS, and only complete settings are ever stored as a session.
THEOREM FormTypes == Spec => []TypeOK
  BY InitTypes, NextTypes, PTL DEF Spec

-------------------------------------------------------------------------------
(* Screen and session                                                      *)

LEMMA NextScreen == ScreenMatchesSession /\ [Next]_vars => ScreenMatchesSession'
  <1> SUFFICES ASSUME ScreenMatchesSession, [Next]_vars PROVE ScreenMatchesSession'
    OBVIOUS
  <1> USE DEF ScreenMatchesSession, OnForm, storage
  <1>1. CASE UNCHANGED vars
    BY <1>1 DEF vars
  <1>2. ASSUME NEW p, SubmitOk(p) PROVE ScreenMatchesSession'
    BY <1>2 DEF SubmitOk
  <1>3. CASE BootAnswered \/ Reset \/ Load
    BY <1>3 DEF BootAnswered, BootOk, BootFails, Reset, Load, Blank
  <1>4. CASE UNCHANGED <<screen, boot, storage>>
    BY <1>4
  <1> QED
    BY <1>1, <1>2, <1>3, <1>4
    DEF Next, User, Suggestions, PostAnswered, SearchAnswered, PositionAnswered,
        ChooseFuel, Type, AskPosition, PickSuggestion, HideSuggestions, Search, Submit,
        SuggestionsArrive, SubmitFails, SearchFound, SearchFails, PositionFound,
        PositionFails

\* However the boot check, the submits and reset overlap, sessionId and
\* gazole_session agree, and the form is shown with a session stored only while the
\* check of that session is on its way.
THEOREM ScreenAndSession == Spec => []ScreenMatchesSession
  <1>1. Init => ScreenMatchesSession
    BY DEF Init, ScreenMatchesSession
  <1> QED
    BY <1>1, NextScreen, PTL DEF Spec

-------------------------------------------------------------------------------
(* The city that is named                                                  *)

\* Also on the widget, as long as a boot check may bring the form back.
LabelInv ==
    (OnForm \/ boot # None) /\ named # None => choice.place \in {named, Gps}

LEMMA NextLabel == TypeOK /\ LabelInv /\ [Next]_vars => LabelInv'
  <1> SUFFICES ASSUME TypeOK, LabelInv, [Next]_vars PROVE LabelInv'
    OBVIOUS
  <1> USE DEF LabelInv, OnForm, finder
  <1>1. CASE UNCHANGED vars
    BY <1>1 DEF vars
  <1>2. ASSUME NEW f \in Fuels, ChooseFuel(f) PROVE LabelInv'
    <2>1. choice'.place = choice.place
      BY <1>2 DEF ChooseFuel, Choose
    <2> QED
      BY <1>2, <2>1 DEF ChooseFuel
  <1>3. CASE PositionFound
    <2>1. choice'.place = Gps
      BY <1>3 DEF PositionFound, Choose
    <2> QED
      BY <2>1
  <1>4. CASE PickSuggestion
    BY <1>4, FoundTypes DEF PickSuggestion
  <1>5. CASE SearchFound
    <2>1. search \in Cities /\ Found(search)
      BY <1>5 DEF SearchFound, TypeOK
    <2> QED
      BY <2>1, FoundTypes
  <1>6. CASE SearchFails \/ \E q \in Cities : Search(q)
    BY <1>6 DEF Search, SearchFails
  <1>7. CASE PostAnswered
    BY <1>7 DEF PostAnswered, SubmitOk, SubmitFails
  <1>8. CASE BootAnswered \/ Reset \/ Load
    BY <1>8 DEF BootAnswered, BootOk, BootFails, Reset, Load, Blank
  <1>9. CASE UNCHANGED <<screen, choice, named, boot>>
    BY <1>9
  <1> QED
    BY <1>1, <1>2, <1>3, <1>4, <1>5, <1>6, <1>7, <1>8, <1>9
    DEF Next, User, Suggestions, SearchAnswered, PositionAnswered,
        Type, AskPosition, HideSuggestions, Submit, SuggestionsArrive, PositionFails

\* Answers of the search, of the suggestions and of the GPS may come in any order:
\* the form never names one city and holds the position of another.
THEOREM LabelsNamePlaces == Spec => []LabelNamesPlace
  <1>1. Init => LabelInv
    BY DEF Init, LabelInv
  <1>2. LabelInv => LabelNamesPlace
    BY DEF LabelInv, LabelNamesPlace
  <1> QED
    BY <1>1, <1>2, InitTypes, NextTypes, NextLabel, PTL DEF Spec

-------------------------------------------------------------------------------
(* A choice that nobody changes under a submit                             *)

\* What is on its way is what the form holds, and it is complete; so are the
\* preferences that a boot check restores.
SteadyInv ==
    ~edited =>
        /\ \A p \in posts : p = choice /\ p \in Settings
        /\ ready => Chosen
        /\ boot # None /\ prefs # None => prefs \in Settings
        /\ stored # None => prefs = stored

\* A step that writes the choice and checks the form.
LEMMA CheckedSteady ==
    ASSUME TypeOK, SteadyInv, choice' \in Choice, Watched, checkReady,
           UNCHANGED <<posts, boot, storage>>
    PROVE  SteadyInv'
  <1>1. ready' => Chosen'
    BY Complete DEF checkReady, Chosen
  <1>2. ~edited' => ~edited /\ (posts = {} \/ choice' = choice)
    BY DEF Watched
  <1> QED
    BY <1>1, <1>2 DEF SteadyInv, storage

LEMMA NextSteady == TypeOK /\ SteadyInv /\ [Next]_vars => SteadyInv'
  <1> SUFFICES ASSUME TypeOK, SteadyInv, [Next]_vars PROVE SteadyInv'
    OBVIOUS
  <1>1. CASE UNCHANGED vars
    BY <1>1 DEF vars, storage, history, SteadyInv, Chosen
  <1>2. ASSUME NEW f \in Fuels, ChooseFuel(f) PROVE SteadyInv'
    <2>1. choice' \in Choice
      BY <1>2, NextTypes DEF Next, User, TypeOK
    <2> QED
      BY <1>2, <2>1, CheckedSteady DEF ChooseFuel, Choose
  <1>3. CASE PositionFound \/ PickSuggestion \/ SearchFound
    <2>1. choice' \in Choice
      BY <1>3, NextTypes DEF Next, User, PositionAnswered, SearchAnswered, TypeOK
    <2> QED
      BY <1>3, <2>1, CheckedSteady DEF PositionFound, PickSuggestion, SearchFound, Found,
                                       Choose
  <1>4. ASSUME NEW q \in Cities, Search(q) PROVE SteadyInv'
    <2>1. CASE choice.place # None
      <3>1. /\ choice' = choice /\ checkReady /\ UNCHANGED <<posts, boot, storage, edited>>
        BY <1>4, <2>1 DEF Search, history
      <3> QED
        BY <3>1, CheckedSteady DEF Watched, TypeOK
    <2>2. CASE choice.place = None
      BY <1>4, <2>2 DEF Search, storage, history, SteadyInv, Chosen
    <2> QED
      BY <2>1, <2>2
  <1>5. CASE Submit
    BY <1>5 DEF Submit, storage, SteadyInv, Chosen
  <1>6. ASSUME NEW p \in Choice, SubmitOk(p) \/ SubmitFails(p) PROVE SteadyInv'
    BY <1>6 DEF SubmitOk, SubmitFails, storage, history, SteadyInv, Chosen
  <1>7. CASE BootOk
    <2>1. ~edited' => ~edited /\ (posts = {} \/ choice' = choice)
      BY <1>7 DEF BootOk, Watched
    <2> QED
      BY <1>7, <2>1 DEF BootOk, storage, SteadyInv, Chosen
  <1>8. CASE BootFails
    BY <1>8 DEF BootFails, history, SteadyInv, Chosen
  <1>9. CASE Reset
    <2>1. ~edited' => ~edited /\ (posts = {} \/ choice' = choice)
      BY <1>9 DEF Reset, Watched
    <2> QED
      BY <1>9, <2>1 DEF Reset, SteadyInv
  <1>10. CASE Load
    BY <1>10 DEF Load, Blank, SteadyInv, TypeOK
  <1>11. CASE UNCHANGED <<choice, ready, posts, boot, storage, history>>
    BY <1>11 DEF storage, history, SteadyInv, Chosen
  <1> QED
    BY <1>1, <1>2, <1>3, <1>4, <1>5, <1>6, <1>7, <1>8, <1>9, <1>10, <1>11
    DEF Next, User, Suggestions, PostAnswered, BootAnswered, SearchAnswered,
        PositionAnswered, Type, AskPosition, HideSuggestions,
        SuggestionsArrive, SearchFails, PositionFails

LEMMA InitSteady == Init => SteadyInv
  BY DEF Init, SteadyInv

\* Unless the choice was changed under a submit, the preferences that are stored
\* are those of the stored session, across resets, reloads and failures.
THEOREM PrefsFollowTheSession == Spec => []PrefsOfTheSession
  <1>1. SteadyInv => PrefsOfTheSession
    BY DEF SteadyInv, PrefsOfTheSession
  <1> QED
    BY <1>1, InitTypes, NextTypes, InitSteady, NextSteady, PTL DEF Spec

\* Unless the choice was changed under a submit, an enabled button means that the
\* form is complete, also after a submit that failed.
THEOREM EnabledMeansChosen == Spec => []ButtonMeansChosen
  <1>1. SteadyInv => ButtonMeansChosen
    BY DEF SteadyInv, ButtonMeansChosen
  <1> QED
    BY <1>1, InitTypes, NextTypes, InitSteady, NextSteady, PTL DEF Spec

-------------------------------------------------------------------------------
(* A completed form can be submitted                                       *)

\* Without a submit during the boot check, that check finds the form as the page
\* was loaded: on screen, with nothing on its way.
RaceInv ==
    ~raced =>
        /\ boot # None => OnForm /\ posts = {}
        /\ OnForm /\ Chosen => ready \/ posts # {}

LEMMA NextRace == TypeOK /\ RaceInv /\ [Next]_vars => RaceInv'
  <1> SUFFICES ASSUME TypeOK, RaceInv, [Next]_vars PROVE RaceInv'
    OBVIOUS
  <1> USE DEF RaceInv, OnForm
  <1>1. CASE UNCHANGED vars
    BY <1>1 DEF vars, history, Chosen
  <1>2. ASSUME checkReady, choice' \in Choice, UNCHANGED <<screen, posts, boot, raced>>
        PROVE  RaceInv'
    <2>1. Chosen' => ready'
      BY <1>2, Complete DEF checkReady, Chosen
    <2> QED
      BY <1>2, <2>1
  <1>3. choice' \in Choice
    BY NextTypes DEF TypeOK
  <1>4. ASSUME NEW f \in Fuels, ChooseFuel(f) PROVE RaceInv'
    BY <1>2, <1>3, <1>4 DEF ChooseFuel
  <1>5. CASE PositionFound \/ PickSuggestion \/ SearchFound
    BY <1>2, <1>3, <1>5 DEF PositionFound, PickSuggestion, SearchFound, Found
  <1>6. ASSUME NEW q \in Cities, Search(q) PROVE RaceInv'
    <2>1. CASE choice.place # None
      BY <1>2, <1>3, <1>6, <2>1 DEF Search, history
    <2>2. CASE choice.place = None
      BY <1>6, <2>2 DEF Search, history, Chosen
    <2> QED
      BY <2>1, <2>2
  <1>7. CASE Submit
    BY <1>7 DEF Submit
  <1>8. ASSUME NEW p \in Choice, SubmitOk(p) \/ SubmitFails(p) PROVE RaceInv'
    BY <1>8 DEF SubmitOk, SubmitFails, history
  <1>9. CASE BootAnswered
    BY <1>9 DEF BootAnswered, BootOk, BootFails, history, Chosen
  <1>10. CASE Reset \/ Load
    <2>1. choice' = Nothing /\ ~Chosen'
      BY <1>10, Unchosen DEF Reset, Load, Blank, Chosen
    <2> QED
      BY <1>10, <2>1 DEF Reset, Load, Blank
  <1>11. CASE UNCHANGED <<screen, choice, ready, posts, boot, history>>
    BY <1>11 DEF history, Chosen
  <1> QED
    BY <1>1, <1>4, <1>5, <1>6, <1>7, <1>8, <1>9, <1>10, <1>11
    DEF Next, User, Suggestions, PostAnswered, SearchAnswered, PositionAnswered, Type,
        AskPosition, HideSuggestions, SuggestionsArrive, SearchFails, PositionFails

\* Unless a submit overlapped with the boot check, a completed form has its button
\* enabled or a submit on its way: nobody is ever left with a dead form.
THEOREM ChosenMeansEnabled == Spec => []ChosenMeansButton
  <1>1. Init => RaceInv
    BY Unchosen DEF Init, RaceInv, Chosen
  <1>2. RaceInv => ChosenMeansButton
    BY DEF RaceInv, ChosenMeansButton
  <1> QED
    BY <1>1, <1>2, InitTypes, NextTypes, NextRace, PTL DEF Spec

-------------------------------------------------------------------------------
(* The form keeps the promises of PageSession                              *)

LEMMA NextKeeps == TypeOK /\ [Next]_vars => [Page!Next]_Page!vars
  <1> SUFFICES ASSUME TypeOK, [Next]_vars PROVE [Page!Next]_Page!vars
    OBVIOUS
  <1>1. CASE UNCHANGED <<screen, stored, posts, boot>>
    BY <1>1 DEF Page!vars
  <1>2. CASE Submit
    <2>1. CASE choice \in Settings
      <3>1. Page!Submit(choice)
        BY <1>2, <2>1 DEF Submit, OnForm, storage, Page!Submit
      <3> QED
        BY <2>1, <3>1 DEF Page!Next
    <2>2. CASE choice \notin Settings
      <3>1. posts' \cap Settings = posts \cap Settings
        BY <1>2, <2>2 DEF Submit
      <3> QED
        BY <1>2, <3>1 DEF Submit, storage, Page!vars
    <2> QED
      BY <2>1, <2>2
  <1>3. ASSUME NEW p \in Choice, SubmitOk(p) PROVE [Page!Next]_Page!vars
    <2>1. p \in Settings /\ Page!SubmitOk(p)
      BY <1>3 DEF SubmitOk, Page!SubmitOk, Page!Answered
    <2> QED
      BY <2>1 DEF Page!Next
  <1>4. ASSUME NEW p \in Choice, SubmitFails(p) PROVE [Page!Next]_Page!vars
    <2>1. CASE p \in Settings
      <3>1. Page!SubmitFails(p)
        BY <1>4, <2>1 DEF SubmitFails, storage, Page!SubmitFails, Page!Answered
      <3> QED
        BY <2>1, <3>1 DEF Page!Next
    <2>2. CASE p \notin Settings
      <3>1. posts' \cap Settings = posts \cap Settings
        BY <1>4, <2>2 DEF SubmitFails
      <3> QED
        BY <1>4, <3>1 DEF SubmitFails, storage, Page!vars
    <2> QED
      BY <2>1, <2>2
  <1>5. CASE BootOk
    <2>1. Page!CheckOk
      BY <1>5 DEF BootOk, storage, Page!CheckOk, Page!Checked
    <2> QED
      BY <2>1 DEF Page!Next
  <1>6. CASE BootFails
    <2>1. Page!CheckFails
      BY <1>6 DEF BootFails, Page!CheckFails, Page!Checked
    <2> QED
      BY <2>1 DEF Page!Next
  <1>7. CASE Reset
    <2>1. Page!Reset
      BY <1>7 DEF Reset, Page!Reset
    <2> QED
      BY <2>1 DEF Page!Next
  <1>8. CASE Load
    <2>1. Page!Load
      BY <1>8 DEF Load, Blank, Page!Load
    <2> QED
      BY <2>1 DEF Page!Next
  <1>9. CASE UNCHANGED vars
    BY <1>1, <1>9 DEF vars, storage
  <1> QED
    BY <1>1, <1>2, <1>3, <1>4, <1>5, <1>6, <1>7, <1>8, <1>9
    DEF Next, User, Suggestions, PostAnswered, BootAnswered, SearchAnswered,
        PositionAnswered, ChooseFuel, Type, AskPosition, PickSuggestion,
        HideSuggestions, Search, SuggestionsArrive, SearchFound,
        SearchFails, PositionFound, PositionFails, storage

\* The form implements PageSession: what is stored was complete when it was
\* submitted, and goes with reset and with a failed boot check only.
THEOREM FormKeepsSession == Spec => SessionIsKept
  <1>1. Init => Page!Init
    BY DEF Init, Page!Init
  <1> QED
    BY <1>1, InitTypes, NextTypes, NextKeeps, PTL DEF Spec, SessionIsKept, Page!Spec
===============================================================================
