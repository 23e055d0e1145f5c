-------------------------- MODULE VncManagerProofs --------------------------
(***************************************************************************)
(* Theorems about VncManager, for lists of any length, any request and any *)
(* number of requests and starts, on both platforms; the type invariant    *)
(* for any number of callers.                                              *)
(***************************************************************************)
EXTENDS VncManager, TLAPS

(* One goroutine at a time asks for ProcessVNC.  Nothing in the code keeps *)
(* a second one from asking (run VncTwice shows what may follow).          *)
OneCaller == \E c : Callers = {c}

TInv == TypeOK /\ savedActive >= -1

LEMMA InitTInv == Init => TInv
<1> SUFFICES ASSUME Init PROVE TInv
  OBVIOUS
<1>1. /\ pc \in [Callers -> Labels] /\ arg \in [Callers -> Int]
      /\ then \in [Callers -> {"handle", "check", "exit"}]
  BY DEF Init, Labels
<1>2. requests \in 0 .. MaxRequests /\ boots \in 0 .. MaxBoots
  BY BoundsAssumption DEF Init
<1>3. /\ life \in {"down", "up", "crashed"} /\ reinstall \in BOOLEAN
      /\ running \subseteq Nat /\ platform \in {"windows", "linux"}
  BY DEF Init
<1>4. active = -1 /\ listed = 0 /\ savedActive = -1 /\ savedList = -1 /\ launching = 0
  BY DEF Init, Absent
<1> QED
  BY <1>1, <1>2, <1>3, <1>4 DEF TInv, TypeOK

(* What a step of ProcessVNC leaves in the list, the options and the set   *)
(* of servers has their types, whoever takes it.                           *)
LEMMA ProcessTInv ==
  ASSUME TInv, NEW c \in Callers, ProcessVNC(c)
  PROVE  TInv'
<1>0. /\ arg[c] \in Int /\ then[c] \in {"handle", "check", "exit"}
      /\ {"handle", "check", "exit"} \subseteq Labels
  BY DEF TInv, TypeOK, Labels
<1> USE <1>0 DEF TInv, TypeOK, files, servers, bounds
<1>1. CASE SetDefaultOptions(c)
  BY <1>1 DEF SetDefaultOptions, Absent, Step, Labels
<1>2. CASE CheckFlag(c)
  BY <1>2 DEF CheckFlag, Step, Labels
<1>3. CASE RaiseFlag(c)
  BY <1>3 DEF RaiseFlag, Step, Labels
<1>4. CASE CloseNothing(c)
  BY <1>4 DEF CloseNothing, Step, Labels, AfterClose
<1>5. CASE CloseSomething(c)
  BY <1>5 DEF CloseSomething, Step, Labels
<1>6. CASE CloseVNC(c)
  BY <1>6 DEF CloseVNC, Step, Labels, AfterClose, ActiveListed
<1>7. CASE FillList(c)
  BY <1>7 DEF FillList, Step, Labels
<1>8. CASE Activate(c)
  BY <1>8 DEF Activate, Step, Labels, Activated
<1>9. CASE NotInstalled(c)
  BY <1>9 DEF NotInstalled, Step, Labels, Activated
<1>10. CASE LoadList(c)
  BY <1>10 DEF LoadList, Step, Labels, FirstIfNone
<1>11. CASE LoadFails(c)
  BY <1>11 DEF LoadFails, Step, Labels, Absent
<1>12. CASE getListFails(c)
  BY <1>12 DEF getListFails, Step, Labels
<1>13. CASE ExtractFails(c)
  BY <1>13 DEF ExtractFails, Step, Labels
<1>14. CASE ExtractOk(c)
  BY <1>14 DEF ExtractOk, Step, Labels, Index
<1>15. CASE SaveOptions(c)
  BY <1>15 DEF SaveOptions, OptionsAfterSave, Absent, Step, Labels
<1>16. CASE saveListVNC(c)
  BY <1>16 DEF saveListVNC, ListAfterSave, Torn, Step, Labels
<1>17. CASE StartVNC(c)
  BY <1>17 DEF StartVNC, Step, Labels
<1>18. CASE Configure(c)
  BY <1>18 DEF Configure, Step, Labels
<1>19. CASE LowerFlag(c)
  BY <1>19 DEF LowerFlag, Step, Labels
<1>20. CASE SendInfo(c)
  BY <1>20 DEF SendInfo, Step, Labels
<1>21. CASE ExtractPanics(c)
  BY <1>21 DEF ExtractPanics, Step, Labels, Panic
<1>22. CASE Exit(c)
  BY <1>22 DEF Exit, Step, Labels
<1>23. ASSUME NEW n \in Offers, getListVNC(c, n)
      PROVE  TInv'
  BY <1>23, OffersAssumption DEF getListVNC, FirstIfNone, Step, Labels
<1> QED
  BY <1>1, <1>2, <1>3, <1>4, <1>5, <1>6, <1>7, <1>8, <1>9, <1>10, <1>11, <1>12, <1>13, <1>14, <1>15, <1>16, <1>17, <1>18, <1>19, <1>20, <1>21, <1>22, <1>23 DEF ProcessVNC

LEMMA NextTInv == TInv /\ [Next]_vars => TInv'
<1> SUFFICES ASSUME TInv, [Next]_vars
             PROVE  TInv'
  OBVIOUS
<1> USE DEF TInv, TypeOK, files, servers, bounds
<1>1. ASSUME NEW c \in Callers, Requests(c)
      PROVE  TInv'
  <2>1. PICK label \in {"check", "clear", "close"} : Request(c, label)
    BY <1>1 DEF Requests, Revnc, OptionClear, ReloadMe, TerminateMe
  <2>2. arg' \in [Callers -> Int] /\ then' \in [Callers -> {"handle", "check", "exit"}]
    BY <1>1, AskedAssumption DEF Requests, Revnc, OptionClear, ReloadMe, TerminateMe
  <2>3. pc' \in [Callers -> Labels]
    BY <2>1 DEF Request, Step, Labels
  <2>4. requests' \in 0 .. MaxRequests
    BY <2>1, BoundsAssumption DEF Request
  <2> QED
    BY <2>1, <2>2, <2>3, <2>4 DEF Request
<1>2. ASSUME NEW c \in Callers, Boot(c)
      PROVE  TInv'
  <2>1. pc' \in [Callers -> Labels]
    BY <1>2 DEF Boot, Labels
  <2>2. boots' \in 0 .. MaxBoots /\ requests' \in 0 .. MaxRequests
    BY <1>2, BoundsAssumption DEF Boot
  <2> QED
    BY <1>2, <2>1, <2>2 DEF Boot
<1>3. ASSUME NEW ok \in BOOLEAN, runVNCServer(ok)
      PROVE  TInv'
  BY <1>3 DEF runVNCServer, ActiveListed
<1>4. ASSUME NEW id \in running, ServerEnds(id)
      PROVE  TInv'
  BY <1>4 DEF ServerEnds
<1>5. CASE IndexPanic
  BY <1>5 DEF IndexPanic, Panic
<1>6. CASE processLocalSave
  BY <1>6 DEF processLocalSave, OptionsAfterSave, Absent
<1>7. CASE Kill
  BY <1>7 DEF Kill, Torn
<1>8. CASE UNCHANGED vars
  BY <1>8 DEF vars
<1> QED
  BY <1>1, <1>2, <1>3, <1>4, <1>5, <1>6, <1>7, <1>8, ProcessTInv DEF Next

-----------------------------------------------------------------------------
(* The active package, if there is one and a list, is in the list.         *)
Settled == listed > 0 /\ active # -1 => ActiveListed

(* While a caller reinstalls the flag is up, for the list and the active   *)
(* package change one after the other; they fit each other again when the  *)
(* server is started, and whenever the flag is down.                       *)
Fits ==
  life = "up" =>
    /\ ~reinstall => Settled
    /\ \A c \in Callers :
         /\ Reinstalling(c) => reinstall
         /\ pc[c] = "activate" => listed > 0
         /\ pc[c] \in {"saveOptions", "saveList"} => ActiveListed
         /\ pc[c] \in {"start", "config", "unset"} => Settled

VInv == TInv /\ Fits

(* A step of the one caller from label l to label m.                       *)
LEMMA Goes ==
  ASSUME OneCaller, VInv, TInv', NEW c \in Callers, NEW l, NEW m, Step(c, l, m),
         ~reinstall' => Settled',
         m \in {"handle", "activate", "fetch", "extract", "saveOptions", "saveList", "start",
                "config", "unset"} => reinstall',
         m \in {"close", "closeAct"} /\ then'[c] = "handle" => reinstall',
         m = "activate" => listed' > 0,
         m \in {"saveOptions", "saveList"} => ActiveListed',
         m \in {"start", "config", "unset"} => Settled'
  PROVE  VInv'
<1>1. pc'[c] = m
  BY DEF Step, VInv, TInv, TypeOK
<1>2. \A d \in Callers : d = c
  BY DEF OneCaller
<1> QED
  BY <1>1, <1>2 DEF VInv, Fits, Reinstalling

(* Every step of ProcessVNC keeps the list and the active package fitting. *)
LEMMA ProcessVInv ==
  ASSUME OneCaller, VInv, TInv', NEW c \in Callers, ProcessVNC(c)
  PROVE  VInv'
<1>0. /\ active \in Int /\ active >= -1 /\ listed \in Nat /\ reinstall \in BOOLEAN
      /\ arg[c] \in Int /\ then[c] \in {"handle", "check", "exit"}
  BY DEF VInv, TInv, TypeOK
<1>1. life = "up" =>
        /\ ~reinstall => Settled
        /\ Reinstalling(c) => reinstall
        /\ pc[c] = "activate" => listed > 0
        /\ pc[c] \in {"saveOptions", "saveList"} => ActiveListed
        /\ pc[c] \in {"start", "config", "unset"} => Settled
  BY DEF VInv, Fits
<1> USE DEF Step, Reinstalling, files, servers, bounds
<1>2. CASE SetDefaultOptions(c)
  BY <1>0, <1>1, <1>2, Goes DEF SetDefaultOptions, Settled, ActiveListed
<1>3. CASE CheckFlag(c)
  BY <1>0, <1>1, <1>3, Goes DEF CheckFlag, Settled, ActiveListed
<1>4. CASE RaiseFlag(c)
  BY <1>0, <1>1, <1>4, Goes DEF RaiseFlag, Settled, ActiveListed, VInv, TInv, TypeOK
<1>5. CASE CloseNothing(c)
  <2>1. /\ Step(c, "close", then[c])
        /\ UNCHANGED <<life, reinstall, active, listed, then>>
    BY <1>5 DEF CloseNothing
  <2>2. pc[c] = "close" /\ life = "up"
    BY <2>1
  <2>3. then[c] = "handle" => reinstall
    BY <1>1, <2>2
  <2> QED
    BY <1>0, <1>1, <2>1, <2>2, <2>3, Goes DEF Settled, ActiveListed
<1>6. CASE CloseSomething(c)
  <2>1. /\ Step(c, "close", "closeAct")
        /\ UNCHANGED <<life, reinstall, active, listed, then>>
    BY <1>6 DEF CloseSomething
  <2>2. pc[c] = "close" /\ life = "up"
    BY <2>1
  <2>3. then[c] = "handle" => reinstall
    BY <1>1, <2>2
  <2> QED
    BY <1>0, <1>1, <2>1, <2>2, <2>3, Goes DEF Settled, ActiveListed
<1>7. CASE CloseVNC(c)
  <2>1. /\ Step(c, "closeAct", then[c])
        /\ UNCHANGED <<life, reinstall, active, listed, then>>
    BY <1>7 DEF CloseVNC
  <2>2. pc[c] = "closeAct" /\ life = "up"
    BY <2>1
  <2>3. then[c] = "handle" => reinstall
    BY <1>1, <2>2
  <2> QED
    BY <1>0, <1>1, <2>1, <2>2, <2>3, Goes DEF Settled, ActiveListed
<1>8. CASE FillList(c)
  <2>1. Step(c, "handle", "activate") /\ listed' = 1 /\ UNCHANGED reinstall
    BY <1>8 DEF FillList
  <2>2. reinstall' /\ listed' > 0
    BY <1>1, <2>1
  <2> QED
    BY <2>1, <2>2, Goes
<1>9. CASE Activate(c)
  <2>1. Step(c, "activate", "start") /\ active' = 0 /\ UNCHANGED <<reinstall, listed>>
    BY <1>9 DEF Activate, Activated
  <2>2. reinstall' /\ listed' > 0
    BY <1>1, <2>1
  <2>3. Settled'
    BY <1>0, <2>1, <2>2 DEF Settled, ActiveListed
  <2> QED
    BY <2>1, <2>2, <2>3, Goes
<1>10. CASE LoadList(c)
  <2>1. /\ pc[c] = "handle" /\ life = "up"
        /\ listed' = savedList /\ active' = FirstIfNone(savedList)
        /\ UNCHANGED <<life, reinstall, then>>
    BY <1>10 DEF LoadList
  <2>2. reinstall'
    BY <1>1, <2>1
  <2>3. CASE LoadedIs(c, FirstIfNone(savedList), savedList)
    <3>1. FirstIfNone(savedList) <= savedList - 1
      BY <2>3 DEF LoadedIs
    <3>2. Settled'
      BY <1>0, <2>1, <3>1, TInv' DEF Settled, ActiveListed, TInv, TypeOK
    <3>3. Step(c, "handle", "start")
      BY <1>10, <2>3 DEF LoadList
    <3> QED
      BY <2>2, <3>2, <3>3, Goes
  <2>4. CASE ~LoadedIs(c, FirstIfNone(savedList), savedList)
    <3>1. Step(c, "handle", "fetch")
      BY <1>10, <2>4 DEF LoadList
    <3> QED
      BY <2>2, <3>1, Goes
  <2> QED
    BY <2>3, <2>4
<1>11. CASE LoadFails(c)
  BY <1>0, <1>1, <1>11, Goes DEF LoadFails, Settled, ActiveListed
<1>12. CASE getListFails(c)
  BY <1>0, <1>1, <1>12, Goes DEF getListFails, Settled, ActiveListed
<1>13. CASE ExtractFails(c)
  BY <1>0, <1>1, <1>13, Goes DEF ExtractFails, Settled, ActiveListed
<1>14. CASE ExtractOk(c)
  <2>1. /\ Step(c, "extract", "saveOptions") /\ Index(c) < listed
        /\ active' = Index(c) /\ UNCHANGED <<reinstall, listed>>
    BY <1>14 DEF ExtractOk
  <2>2. reinstall'
    BY <1>1, <2>1
  <2>3. ActiveListed'
    BY <1>0, <2>1 DEF ActiveListed, Index
  <2> QED
    BY <2>1, <2>2, <2>3, Goes
<1>15. CASE SaveOptions(c)
  BY <1>0, <1>1, <1>15, Goes DEF SaveOptions, Settled, ActiveListed
<1>16. CASE saveListVNC(c)
  BY <1>0, <1>1, <1>16, Goes DEF saveListVNC, Settled, ActiveListed
<1>17. CASE StartVNC(c)
  BY <1>0, <1>1, <1>17, Goes DEF StartVNC, Settled, ActiveListed
<1>18. CASE Configure(c)
  BY <1>0, <1>1, <1>18, Goes DEF Configure, Settled, ActiveListed
<1>19. CASE LowerFlag(c)
  BY <1>0, <1>1, <1>19, Goes DEF LowerFlag, Settled, ActiveListed
<1>20. CASE SendInfo(c)
  BY <1>0, <1>1, <1>20, Goes DEF SendInfo, Settled, ActiveListed
<1>21. ASSUME NEW n \in Offers, getListVNC(c, n)
      PROVE  VInv'
  BY <1>0, <1>1, <1>21, Goes DEF getListVNC
<1>22. CASE NotInstalled(c) \/ ExtractPanics(c) \/ Exit(c)
  <2>1. life' # "up"
    BY <1>22 DEF NotInstalled, ExtractPanics, Exit, Panic
  <2> QED
    BY <2>1 DEF VInv, Fits
<1> QED
  BY <1>2, <1>3, <1>4, <1>5, <1>6, <1>7, <1>8, <1>9, <1>10, <1>11, <1>12, <1>13, <1>14, <1>15, <1>16, <1>17, <1>18, <1>19, <1>20, <1>21, <1>22 DEF ProcessVNC

LEMMA NextVInv ==
  ASSUME OneCaller
  PROVE  VInv /\ [Next]_vars => VInv'
<1> SUFFICES ASSUME VInv, [Next]_vars
             PROVE  VInv'
  OBVIOUS
<1>0. TInv /\ TInv'
  BY NextTInv DEF VInv
<1>1. ASSUME NEW c \in Callers, Requests(c)
      PROVE  VInv'
  <2>1. PICK label \in {"check", "clear", "close"} :
          Request(c, label) /\ (label = "close" => then'[c] # "handle")
    BY <1>0, <1>1
       DEF Requests, Revnc, OptionClear, ReloadMe, TerminateMe, TInv, TypeOK
  <2>2. UNCHANGED <<life, reinstall, active, listed>> /\ Step(c, "idle", label) /\ life = "up"
    BY <2>1 DEF Request, Step
  <2> QED
    BY <1>0, <2>1, <2>2, Goes DEF VInv, Fits, Settled, ActiveListed
<1>2. ASSUME NEW c \in Callers, Boot(c)
      PROVE  VInv'
  <2>1. listed' = 0 /\ \A d \in Callers : pc'[d] \in {"idle", "check"}
    BY <1>0, <1>2 DEF Boot, TInv, TypeOK
  <2> QED
    BY <1>0, <2>1 DEF VInv, Fits, Settled, Reinstalling
<1>3. ASSUME UNCHANGED <<reinstall, active, listed, pc, then>>, life' = life \/ life' # "up"
      PROVE  VInv'
  BY <1>0, <1>3 DEF VInv, Fits, Settled, ActiveListed, Reinstalling
<1>4. CASE IndexPanic \/ processLocalSave \/ Kill \/ UNCHANGED vars
  BY <1>3, <1>4 DEF IndexPanic, Panic, processLocalSave, Kill, vars, bounds
<1>5. ASSUME NEW ok \in BOOLEAN, runVNCServer(ok)
      PROVE  VInv'
  BY <1>3, <1>5 DEF runVNCServer
<1>6. ASSUME NEW id \in running, ServerEnds(id)
      PROVE  VInv'
  BY <1>3, <1>6 DEF ServerEnds
<1> QED
  BY <1>0, <1>1, <1>2, <1>4, <1>5, <1>6, ProcessVInv DEF Next

-----------------------------------------------------------------------------
(* The list, the options and the servers stay of their types, and no file  *)
(* of options holds an index below -1.                                     *)
THEOREM TypeCorrect == Spec => []TypeOK
<1>1. TInv => TypeOK
  BY DEF TInv
<1> QED
  BY <1>1, InitTInv, NextTInv, PTL DEF Spec

(* When a visit is accepted, for no reinstallation is under way and a      *)
(* package is active, that package is in the list, whatever lists the      *)
(* server offers, whatever indexes are asked for and wherever the process  *)
(* died before (handlers.go:105, vnc/main.go:258-300).                     *)
THEOREM VisitsServable ==
  ASSUME OneCaller
  PROVE  Spec => []ReadyIsServable
<1>1. Init => VInv
  BY InitTInv DEF Init, VInv, Fits
<1>2. VInv => ReadyIsServable
  BY DEF VInv, Fits, Settled, ReadyIsServable
<1>3. VInv /\ [Next]_vars => VInv'
  BY NextVInv
<1> QED
  BY <1>1, <1>2, <1>3, PTL DEF Spec
=============================================================================
