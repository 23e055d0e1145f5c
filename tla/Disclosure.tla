----------------------------- MODULE Disclosure -----------------------------
(***************************************************************************)
(* What the UI panels are told about the credentials, with no goroutine,   *)
(* socket or counter in sight.  A visit is active from the moment it is    *)
(* counted until it is un-counted.  The panels are told to hide the        *)
(* credentials for a visit that is active or because the link to the       *)
(* server is dialled; a visit that ends owes them a second look: it tells  *)
(* them to show the credentials again, unless another visit is active when *)
(* it looks.  A link that comes up shows them, visit or not.               *)
(***************************************************************************)
CONSTANT Visits

VARIABLES
  active,    \* the visits that are counted
  owed,      \* the visits that ended and have not yet settled with the panels
  dialling,  \* the link to the server is down
  panel      \* the last TMessLocalInfoHide the panels were told

dvars == <<active, owed, dialling, panel>>

DTypeOK ==
  /\ active \subseteq Visits
  /\ owed \subseteq Visits
  /\ dialling \in BOOLEAN
  /\ panel \in {"shown", "hidden"}

Init ==
  /\ active = {}
  /\ owed = {}
  /\ dialling = FALSE
  /\ panel = "shown"

Begin(s) ==
  /\ s \notin active \cup owed
  /\ active' = active \cup {s}
  /\ UNCHANGED <<owed, dialling, panel>>

Hide ==
  /\ active # {}
  /\ panel' = "hidden"
  /\ UNCHANGED <<active, owed, dialling>>

End(s) ==
  /\ s \in active
  /\ active' = active \ {s}
  /\ owed' = owed \cup {s}
  /\ UNCHANGED <<dialling, panel>>

(* The visit that ended leaves the notice to one that is still active.     *)
Defer(s) ==
  /\ s \in owed
  /\ active # {}
  /\ owed' = owed \ {s}
  /\ UNCHANGED <<active, dialling, panel>>

(* The notice may be late: another visit may have begun since s looked.    *)
Show(s) ==
  /\ s \in owed
  /\ panel' = "shown"
  /\ owed' = owed \ {s}
  /\ UNCHANGED <<active, dialling>>

Dial ==
  /\ dialling' = TRUE
  /\ panel' = "hidden"
  /\ UNCHANGED <<active, owed>>

Connected ==
  /\ dialling
  /\ dialling' = FALSE
  /\ panel' = "shown"
  /\ UNCHANGED <<active, owed>>

Next ==
  \/ Hide \/ Dial \/ Connected
  \/ \E s \in Visits : Begin(s) \/ End(s) \/ Defer(s) \/ Show(s)

Spec == Init /\ [][Next]_dvars

(* The credentials are never left hidden with nobody to uncover them.      *)
Accounted == panel = "hidden" => dialling \/ active \cup owed # {}
=============================================================================
