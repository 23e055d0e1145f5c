---------------------------- MODULE WindowProofs ----------------------------
(***************************************************************************)
(* Theorems about Window, for every set of alerts, every length of a       *)
(* second in ticks and every bound of the ages.                            *)
(***************************************************************************)
EXTENDS Window, TLAPS

(* An alert whose handler is in the loop of SetAlert was handed over or    *)
(* excused, or a poll still waits for it.                                  *)
Served ==
  \A a \in sending : a \in heard \/ a \in excused \/ waiting # {}

WInv == TypeOK /\ Served /\ Heard

(* The page's polls are at most three seconds apart.                       *)
Punctual == Late <= 3 * Second

(* Until the window is closed the last poll is the page's own: as old as   *)
(* the page's clock says, or there was none.                               *)
Young ==
  /\ window = "opening" => lastPing = Zero
  /\ window = "open" => lastPing \in {Zero, pageClock}

YInv == WInv /\ Young /\ OpenStaysUp

LEMMA InitYInv == Init => YInv
<1> SUFFICES ASSUME Init PROVE YInv
  OBVIOUS
<1>1. pageClock \in 0 .. Late /\ lastPing \in Zero .. MaxAge /\ dogClock \in 0 .. Nap
  BY SecondAssumption, LateAssumption, AgeAssumption DEF Init, Zero, Nap
<1>2. TypeOK
  BY <1>1 DEF Init, TypeOK
<1>3. Served /\ Heard /\ Young /\ OpenStaysUp
  BY DEF Init, Served, Heard, Young, OpenStaysUp
<1> QED
  BY <1>2, <1>3 DEF YInv, WInv

(* The clocks stay in their bounds, for no tick passes over what is due.   *)
LEMMA TickTypeOK ==
  ASSUME TypeOK, Tick
  PROVE  TypeOK'
<1>1. pageClock' \in 0 .. Late
  BY LateAssumption DEF TypeOK, Tick, PageDue
<1>2. lastPing' \in Zero .. MaxAge
  BY AgeAssumption DEF TypeOK, Tick, Older, Zero
<1>3. dogClock' \in 0 .. Nap
  BY SecondAssumption DEF TypeOK, Tick, DogDue, Nap
<1>4. waiting' \subseteq 0 .. Second
  BY SecondAssumption DEF TypeOK, Tick, Aged
<1> QED
  BY <1>1, <1>2, <1>3, <1>4 DEF TypeOK, Tick

LEMMA NextTypeOK == TypeOK /\ [Next]_vars => TypeOK'
<1> SUFFICES ASSUME TypeOK, [Next]_vars
             PROVE  TypeOK'
  OBVIOUS
<1> USE SecondAssumption, LateAssumption, AgeAssumption
<1>1. CASE openWindow
  BY <1>1 DEF openWindow, TypeOK, alertVars
<1>2. CASE handleAlert
  <2>1. 0 \in 0 .. Late /\ 0 \in Zero .. MaxAge /\ 0 \in 0 .. Second
    BY DEF Zero
  <2> QED
    BY <1>2, <2>1 DEF handleAlert, TypeOK
<1>3. CASE handleDigest
  BY <1>3 DEF handleDigest, Admitted, TypeOK, alertVars
<1>4. CASE Close
  BY <1>4 DEF Close, TypeOK, alertVars
<1>5. CASE Check
  <2>1. 0 \in 0 .. Nap /\ TooOld \in BOOLEAN
    BY DEF Nap, TooOld
  <2> QED
    BY <1>5, <2>1 DEF Check, TypeOK, pollVars, alertVars
<1>6. CASE Exit
  BY <1>6 DEF Exit, TypeOK, pollVars, alertVars
<1>7. CASE GetAlertTimesOut
  BY <1>7 DEF GetAlertTimesOut, TypeOK, pollVars
<1>8. ASSUME NEW a \in Alerts, processStandardAlert(a) \/ SetAlert(a) \/ SetAlertEnds(a)
      PROVE  TypeOK'
  BY <1>8 DEF processStandardAlert, SetAlert, SetAlertEnds, TypeOK, pollVars
<1>9. CASE UNCHANGED vars
  BY <1>9 DEF vars, TypeOK
<1> QED
  BY <1>1, <1>2, <1>3, <1>4, <1>5, <1>6, <1>7, <1>8, <1>9, TickTypeOK DEF Next, AlertNext

(* A round of SetAlert that takes the last poll excuses the other alerts.  *)
LEMMA NextWInv == WInv /\ [Next]_vars => WInv'
<1> SUFFICES ASSUME WInv, [Next]_vars
             PROVE  Served' /\ Heard'
  BY NextTypeOK DEF WInv
<1>1. CASE Tick
  BY <1>1 DEF Tick, WInv, Served, Heard
<1>2. CASE openWindow \/ handleDigest \/ Close
  BY <1>2 DEF openWindow, handleDigest, Close, WInv, Served, Heard, alertVars
<1>3. CASE Check \/ Exit
  BY <1>3 DEF Check, Exit, WInv, Served, Heard, alertVars
<1>4. CASE handleAlert
  BY <1>4 DEF handleAlert, WInv, Served, Heard
<1>5. CASE GetAlertTimesOut
  BY <1>5 DEF GetAlertTimesOut, WInv, Served, Heard
<1>6. ASSUME NEW a \in Alerts, processStandardAlert(a)
      PROVE  Served' /\ Heard'
  BY <1>6 DEF processStandardAlert, WInv, Served, Heard
<1>7. ASSUME NEW a \in Alerts, SetAlert(a)
      PROVE  Served' /\ Heard'
  BY <1>7 DEF SetAlert, WInv, Served, Heard
<1>8. ASSUME NEW a \in Alerts, SetAlertEnds(a)
      PROVE  Served' /\ Heard'
  BY <1>8 DEF SetAlertEnds, LeavesSetAlert, WInv, Served, Heard
<1>9. CASE UNCHANGED vars
  BY <1>9 DEF vars, WInv, Served, Heard
<1> QED
  BY <1>1, <1>2, <1>3, <1>4, <1>5, <1>6, <1>7, <1>8, <1>9 DEF Next, AlertNext

(* The two clocks run together, up to an age beyond three seconds.         *)
LEMMA NextYInv ==
  ASSUME Punctual
  PROVE  YInv /\ [Next]_vars => YInv'
<1> SUFFICES ASSUME YInv, [Next]_vars
             PROVE  Young' /\ OpenStaysUp'
  BY NextWInv DEF YInv
<1>0. TypeOK
  BY DEF YInv, WInv
<1>1. CASE Tick
  <2>1. window = "open" /\ lastPing = pageClock => lastPing < MaxAge
    BY <1>0, SecondAssumption, LateAssumption, AgeAssumption DEF Punctual, TypeOK
  <2>2. lastPing = Zero => lastPing' = Zero
    BY <1>1 DEF Tick
  <2>3. window = "open" /\ lastPing = pageClock => lastPing' = pageClock'
    BY <1>0, <1>1, <2>1 DEF Tick, Older, TypeOK, Zero
  <2>4. UNCHANGED <<window, terminating>>
    BY <1>1 DEF Tick
  <2> QED
    BY <2>2, <2>3, <2>4 DEF YInv, Young, OpenStaysUp
<1>2. CASE openWindow \/ handleDigest \/ Close \/ handleAlert
  BY <1>2 DEF openWindow, handleDigest, Admitted, Close, handleAlert, YInv, Young, OpenStaysUp
<1>3. CASE Check
  <2>1. window \in {"opening", "open"} => ~TooOld
    BY <1>0, SecondAssumption, LateAssumption DEF YInv, Young, TypeOK, TooOld, Punctual, Zero
  <2> QED
    BY <1>3, <2>1 DEF Check, pollVars, YInv, Young, OpenStaysUp
<1>4. CASE Exit \/ GetAlertTimesOut \/ AlertNext
  BY <1>4 DEF Exit, GetAlertTimesOut, AlertNext, processStandardAlert, SetAlert, SetAlertEnds,
              pollVars, YInv, Young, OpenStaysUp
<1>5. CASE UNCHANGED vars
  BY <1>5 DEF vars, YInv, Young, OpenStaysUp
<1> QED
  BY <1>1, <1>2, <1>3, <1>4, <1>5 DEF Next

(* The clocks and the sets of polls and alerts stay within their bounds.   *)
THEOREM TypeCorrect == Spec => []TypeOK
<1>1. YInv => TypeOK
  BY DEF YInv, WInv
<1> QED
  BY <1>1, InitYInv, NextTypeOK, PTL DEF Spec

(* An alert that finds a poll waiting is given to it, unless that poll's   *)
(* second ends first or an alert handled at the same time takes it, for    *)
(* any number of alerts at once (utils.go:438-455).                        *)
THEOREM AlertsHeard == Spec => []Heard
<1>1. (YInv => WInv) /\ (WInv => Heard)
  BY DEF YInv, WInv
<1> QED
  BY <1>1, InitYInv, NextWInv, PTL DEF Spec

(* A page that polls at least every three seconds keeps the communicator   *)
(* running, wherever its polls fall between the checks (web/main.go:34).   *)
THEOREM PunctualStaysUp ==
  ASSUME Punctual
  PROVE  Spec => []OpenStaysUp
<1>1. YInv => OpenStaysUp
  BY DEF YInv
<1>2. YInv /\ [Next]_vars => YInv'
  BY NextYInv
<1> QED
  BY <1>1, <1>2, InitYInv, PTL DEF Spec
=============================================================================
