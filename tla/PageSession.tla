----------------------------- MODULE PageSession -----------------------------
(***************************************************************************)
(* What both halves of the page, the form and the widget, promise about    *)
(* the session in localStorage: it comes from a submit the user has sent   *)
(* and that was answered, the widget comes up with it, it goes away by     *)
(* reset or by a boot check that fails, with the form, and never else.     *)
(* How the form is filled, how the widget is fed and what else is on its   *)
(* way is not visible here.                                                *)
(***************************************************************************)

CONSTANTS Settings, None

VARIABLES
    screen,     \* "setup" or "widget"
    session,    \* the session stored, named by its settings
    pending,    \* settings submitted since the page was loaded, not answered yet
    checking    \* the boot check is on its way

vars == <<screen, session, pending, checking>>

Init ==
    /\ screen = "setup" /\ session = None
    /\ pending = {} /\ checking = FALSE

\* A session that is stored is checked at once.
Load ==
    /\ screen' = "setup"
    /\ pending' = {} /\ checking' = (session # None)
    /\ UNCHANGED session

Submit(s) ==
    /\ screen = "setup"
    /\ pending' = pending \cup {s}
    /\ UNCHANGED <<screen, session, checking>>

\* The same settings may have been submitted twice.
Answered(s) == s \in pending /\ pending' \in {pending, pending \ {s}}

SubmitOk(s) ==
    /\ Answered(s)
    /\ screen' = "widget" /\ session' = s
    /\ UNCHANGED checking

SubmitFails(s) ==
    /\ Answered(s)
    /\ UNCHANGED <<screen, session, checking>>

Checked == checking /\ checking' = FALSE /\ UNCHANGED pending

CheckOk ==
    /\ Checked
    /\ screen' = "widget"
    /\ UNCHANGED session

CheckFails ==
    /\ Checked
    /\ screen' = "setup" /\ session' = None

Reset ==
    /\ screen = "widget" /\ screen' = "setup"
    /\ session' = None
    /\ UNCHANGED <<pending, checking>>

Next ==
    \/ Load \/ CheckOk \/ CheckFails \/ Reset
    \/ \E s \in Settings : Submit(s) \/ SubmitOk(s) \/ SubmitFails(s)

Spec == Init /\ [][Next]_vars
===============================================================================
