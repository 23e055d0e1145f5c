------------------------------- MODULE Window -------------------------------
(***************************************************************************)
(* The standalone communicator and its window.  The page polls /alert,     *)
(* the handler notes the time, and a goroutine of web.Thread terminates    *)
(* the process when the last poll is too old.  Time goes in ticks: the     *)
(* page's timer, the goroutine's Sleep, the age of the last poll and of    *)
(* each unanswered one are clocks that advance together; the steps of one  *)
(* tick come in any order.  A poll is answered with the text a handler of  *)
(* the server's alerts hands over, or with nothing after a second.         *)
(***************************************************************************)
EXTENDS Integers

CONSTANTS
  Alerts,   \* bound: alerts of the server that arrive in one tick
  Second,   \* ticks in a second
  Late,     \* bound: the longest time between two polls of an open page
  MaxAge    \* bound of the ages: one above what any guard tells apart

ASSUME SecondAssumption == Second \in Nat \ {0}
ASSUME LateAssumption == Late \in Nat /\ Late >= Second
ASSUME AgeAssumption == MaxAge \in Nat /\ MaxAge > 3 * Second

VARIABLES
  window,      \* the window: being opened, its page loaded, closed
  pageClock,   \* since the page's last poll, or since it was loaded
  lastPing,    \* age of the last poll the handler noted; -1 is the zero time
  dogClock,    \* since the goroutine began to sleep
  terminating, \* TerminateMe was called
  up,          \* the process has not left
  waiting,     \* ages of the polls that wait in GetAlert
  arrived,     \* alerts that came in this tick
  sending,     \* alerts whose handler is in the loop of SetAlert
  heard,       \* history: the alerts that were given to a poll
  excused      \* history: the alerts that no poll waited for, or not to the end

pollVars == <<window, pageClock, lastPing>>
alertVars == <<waiting, arrived, sending, heard, excused>>
vars == <<window, pageClock, lastPing, dogClock, terminating, up, waiting, arrived, sending, heard, excused>>

Zero == -1
Period == Second      \* setInterval of the page
Nap == 2 * Second     \* Sleep of the goroutine

TypeOK ==
  /\ window \in {"opening", "open", "closed"}
  /\ pageClock \in 0 .. Late
  /\ lastPing \in Zero .. MaxAge
  /\ dogClock \in 0 .. Nap
  /\ terminating \in BOOLEAN /\ up \in BOOLEAN
  /\ waiting \subseteq 0 .. Second
  /\ sending \subseteq arrived /\ arrived \subseteq Alerts
  /\ heard \subseteq Alerts /\ excused \subseteq Alerts

Init ==
  /\ window = "opening"
  /\ pageClock = 0
  /\ lastPing = Zero
  /\ dogClock = 0
  /\ terminating = FALSE
  /\ up = TRUE
  /\ waiting = {} /\ arrived = {} /\ sending = {}
  /\ heard = {} /\ excused = Alerts

-----------------------------------------------------------------------------
PageDue == window = "open" /\ pageClock = Late
DogNeverDue == FALSE                                     \* mutant: no check
DogDue == ~terminating /\ dogClock = Nap

Older(age) == IF age < MaxAge THEN age + 1 ELSE age
Aged(polls) == {age + 1 : age \in polls}

(* No tick passes over what is due: a poll, a check, an answer, or a round *)
(* of SetAlert, whose loop does not wait.                                  *)
Tick ==
  /\ up
  /\ ~PageDue /\ ~DogDue /\ Second \notin waiting /\ sending = {}
  /\ pageClock' = IF window = "open" THEN pageClock + 1 ELSE 0
  /\ lastPing' = IF lastPing = Zero THEN Zero ELSE Older(lastPing)
  /\ dogClock' = IF terminating THEN dogClock ELSE dogClock + 1
  /\ waiting' = Aged(waiting)
  /\ arrived' = {}
  /\ UNCHANGED <<window, terminating, up, sending, heard, excused>>

openWindow ==
  /\ up
  /\ window = "opening"
  /\ window' = "open"
  /\ pageClock' = 0
  /\ UNCHANGED <<lastPing, dogClock, terminating, up>> /\ UNCHANGED alertVars

(* The timer of the page fires, sooner or later; the handler of /alert     *)
(* stores the time under the mutex and waits for a text.                   *)
handleAlert ==
  /\ up
  /\ window = "open"
  /\ pageClock >= Period
  /\ pageClock' = 0
  /\ lastPing' = 0
  /\ waiting' = waiting \union {0}
  /\ UNCHANGED <<window, dogClock, terminating, up, arrived, sending, heard, excused>>

(* A page that an earlier process opened goes on polling the same port,    *)
(* with the token of that process.                                         *)
AdmittedAll(token) == TRUE                               \* mutant: no token
Admitted(token) == token = "own"
handleDigest ==
  /\ up
  /\ lastPing' = IF Admitted("old") THEN 0 ELSE lastPing
  /\ UNCHANGED <<window, pageClock, dogClock, terminating, up>> /\ UNCHANGED alertVars

Close ==
  /\ window = "open"
  /\ window' = "closed"
  /\ pageClock' = 0
  /\ UNCHANGED <<lastPing, dogClock, terminating, up>> /\ UNCHANGED alertVars

TooOldEarly == lastPing > Second                         \* mutant: one second
TooOld == lastPing # Zero /\ lastPing > 3 * Second
Check ==
  /\ up /\ DogDue
  /\ dogClock' = 0
  /\ terminating' = TooOld
  /\ UNCHANGED <<up>> /\ UNCHANGED pollVars /\ UNCHANGED alertVars

(* TerminateMe(true): the panels are told, the server of VNC is closed.    *)
Exit ==
  /\ up /\ terminating
  /\ up' = FALSE
  /\ UNCHANGED <<dogClock, terminating>> /\ UNCHANGED pollVars /\ UNCHANGED alertVars

-----------------------------------------------------------------------------
(* The server reports a state it has a text for (another number is         *)
(* ignored), and the handler enters SetAlert.                              *)
processStandardAlert(a) ==
  /\ up
  /\ a \notin arrived
  /\ arrived' = arrived \union {a}
  /\ sending' = sending \union {a}
  /\ heard' = heard \ {a}
  /\ excused' = IF waiting = {} THEN excused \union {a} ELSE excused \ {a}
  /\ UNCHANGED <<dogClock, terminating, up, waiting>> /\ UNCHANGED pollVars

(* One round of SetAlert: a poll that waits takes the text, else the loop  *)
(* ends.  The poll is answered; the page shows what it got.                *)
SetAlert(a) ==
  /\ up
  /\ a \in sending
  /\ \E age \in waiting :
       waiting' = waiting \ {age}
  /\ heard' = heard \union {a}
  /\ excused' = excused \union (sending \ {a})
  /\ UNCHANGED <<dogClock, terminating, up, arrived, sending>> /\ UNCHANGED pollVars

LeavesAtOnce(a) == TRUE                                  \* mutant: one try
LeavesSetAlert(a) == waiting = {}
SetAlertEnds(a) ==
  /\ up
  /\ a \in sending
  /\ LeavesSetAlert(a)
  /\ sending' = sending \ {a}
  /\ UNCHANGED <<dogClock, terminating, up, waiting, arrived, heard, excused>> /\ UNCHANGED pollVars

(* GetAlert gives up after a second and the poll is answered with nothing. *)
GetAlertTimesOut ==
  /\ up
  /\ Second \in waiting
  /\ waiting' = waiting \ {Second}
  /\ excused' = excused \union sending
  /\ UNCHANGED <<dogClock, terminating, up, arrived, sending, heard>> /\ UNCHANGED pollVars

AlertNext == \E a \in Alerts : processStandardAlert(a) \/ SetAlert(a) \/ SetAlertEnds(a)

Next ==
  \/ Tick \/ openWindow \/ handleAlert \/ handleDigest \/ Close \/ Check \/ Exit
  \/ GetAlertTimesOut \/ AlertNext

Spec == Init /\ [][Next]_vars

(* Time passes, what is due is done, TerminateMe comes to its end and  *)
(* loops go on.  Nothing makes anybody close the window or load the page.  *)
FairSpec ==
  /\ Spec
  /\ WF_vars(Tick) /\ WF_vars(Check) /\ WF_vars(handleAlert) /\ WF_vars(Exit)
  /\ WF_vars(GetAlertTimesOut)
  /\ \A a \in Alerts : WF_vars(SetAlert(a) \/ SetAlertEnds(a))

-----------------------------------------------------------------------------
(* A page that polls at least every three seconds is never taken for a     *)
(* closed window, wherever its polls fall between the checks, and neither  *)
(* is a page that has not come to its first poll (web/main.go:34-39).      *)
OpenStaysUp == window \in {"opening", "open"} => ~terminating

(* A window that was closed is noticed: the last poll grows too old, and a *)
(* page of an earlier process cannot keep it young (web/main.go:107).      *)
ClosedIsNoticed == window = "closed" /\ lastPing # Zero ~> ~up

(* An alert that arrives while the page waits in a poll reaches the page,  *)
(* unless that poll's second ends meanwhile or another alert, handled at   *)
(* the same time, takes the poll (utils.go:438-455).                       *)
Heard == \A a \in Alerts : a \in sending \/ a \in heard \/ a \in excused
=============================================================================
