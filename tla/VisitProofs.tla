----------------------------- MODULE VisitProofs -----------------------------
(***************************************************************************)
(* Theorems about Visit, for every set of visits and viewers and every     *)
(* length of the wait.                                                     *)
(***************************************************************************)
EXTENDS Visit, FiniteSetTheorems, TLAPS

(* The threads by kind, and where their names come from.                   *)
LEMMA Names ==
  /\ Clients \subseteq Slots
  /\ Slots \subseteq Threads
  /\ Viewers \subseteq Threads
  /\ \A s \in Sessions : <<s, 1>> \in Slots /\ <<s, 2>> \in Slots
  /\ \A c \in Slots : c[1] \in Sessions
  /\ Hosts \subseteq Sessions /\ Guests \subseteq Sessions
  BY DEF Clients, Slots, Threads, Sessions

(* The initial state has the types.                                        *)
LEMMA InitTypeOK == Init => TypeOK
<1> SUFFICES ASSUME Init
             PROVE  TypeOK
  OBVIOUS
<1>1. pc \in [Threads -> Labels] /\ outcome \in [Threads -> Outcomes]
  BY DEF Init, Labels, Outcomes
<1>2. cWait \in [Threads -> 0 .. WaitCount]
  BY WaitAssumption DEF Init
<1>3. conn \in [Threads -> {"none", "open", "eof", "closed"}] /\ told \in [Sessions -> Nat]
  BY DEF Init
<1>4. /\ slot \in [Slots -> Threads \cup {Nil}]
      /\ peer1 \in [Viewers -> Slots \cup {Nil}] /\ peer2 \in [Viewers -> Slots \cup {Nil}]
  BY DEF Init
<1>5. /\ life \in {"up", "terminating", "exited", "crashed"}
      /\ peerBuff1 \in Slots \cup {Nil} /\ peerBuff2 \in Slots \cup {Nil}
      /\ dialling \in BOOLEAN /\ panel \in {"shown", "hidden"}
  BY Zenon DEF Init
<1>6. count \in Int
  BY DEF Init
<1> QED
  BY <1>1, <1>2, <1>3, <1>4, <1>5, <1>6 DEF TypeOK

(* A step of connectClient, named by its thread, keeps the types.          *)
LEMMA ClientTypeOK ==
  ASSUME TypeOK, NEW c \in Clients, connectClient(c)
  PROVE  TypeOK'
<1>0. c \in Slots /\ c \in Threads /\ c[1] \in Sessions
  BY Names
<1>1. CASE DialOk(c)
  BY <1>0, <1>1 DEF DialOk, Step, TypeOK, Labels, buffs, locals, notice, history
<1>2. CASE DialFail(c)
  BY <1>0, <1>2 DEF DialFail, Step, DisconnectIfCoded, TypeOK, Labels, Outcomes,
                    buffs, locals, notice
<1>3. CASE WriteCode(c)
  BY <1>0, <1>3 DEF WriteCode, Step, TypeOK, Labels, buffs, locals, notice, history
<1>4. CASE HideCount(c)
  BY <1>0, <1>4 DEF HideCount, Step, TypeOK, Labels, buffs, locals, history
<1>5. CASE HideSend(c)
  BY <1>0, <1>5 DEF HideSend, Step, TypeOK, Labels, buffs, locals, history
<1>6. CASE ShowCount(c)
  BY <1>0, <1>6 DEF ShowCount, Step, TypeOK, Labels, buffs, locals, history
<1>7. CASE ShowRead(c)
  BY <1>0, <1>7 DEF ShowRead, Step, TypeOK, Labels, buffs, locals, notice, history
<1>8. CASE ShowSend(c)
  BY <1>0, <1>8 DEF ShowSend, Step, TypeOK, Labels, buffs, locals, history
<1> QED
  BY <1>1, <1>2, <1>3, <1>4, <1>5, <1>6, <1>7, <1>8 DEF connectClient

(* A step of localDataHandler keeps the types.                             *)
LEMMA HandlerTypeOK ==
  ASSUME TypeOK, NEW v \in Viewers, localDataHandler(v)
  PROVE  TypeOK'
<1>0. v \in Threads
  BY Names
<1>1. CASE SeekTick(v)
  BY <1>0, <1>1, WaitAssumption
     DEF SeekTick, Patience, TypeOK, buffs, locals, notice, history
<1>2. CASE SeekEnd(v)
  BY <1>0, <1>2, WaitAssumption
     DEF SeekEnd, EndWait, Step, TypeOK, Labels, buffs, locals, notice, history
<1>3. CASE Check(v)
  BY <1>0, <1>3 DEF Check, Step, TypeOK, Labels, Outcomes, buffs, locals, notice
<1>4. CASE Take1(v)
  BY <1>0, <1>4 DEF Take1, Step, TypeOK, Labels, buffs, notice, history
<1>5. CASE Take2(v)
  BY <1>0, <1>5 DEF Take2, Step, TypeOK, Labels, buffs, notice, history
<1>6. CASE Clear1(v)
  BY <1>0, <1>6 DEF Clear1, Step, TypeOK, Labels, locals, notice, history
<1>7. CASE Clear2(v)
  BY <1>0, <1>7 DEF Clear2, Step, TypeOK, Labels, locals, notice, history
<1>8. CASE Bind(v)
  BY <1>0, <1>8 DEF Bind, Step, TypeOK, Labels, buffs, locals, notice, history
<1> QED
  BY <1>1, <1>2, <1>3, <1>4, <1>5, <1>6, <1>7, <1>8 DEF localDataHandler

(* A step of the wait and of the copy loop keeps the types.                *)
LEMMA RelayTypeOK ==
  ASSUME TypeOK, NEW t \in Threads, relay(t) \/ RelayBroken(t)
  PROVE  TypeOK'
<1>0. Coded(t) => t[1] \in Sessions
  BY DEF Coded
<1>1. CASE WaitTick(t)
  BY <1>1, WaitAssumption
     DEF WaitTick, Patience, TypeOK, buffs, locals, notice, history
<1>2. CASE WaitFound(t)
  BY <1>2, WaitAssumption
     DEF WaitFound, EndWait, Step, TypeOK, Labels, Outcomes, buffs, locals, notice
<1>3. CASE WaitTimeout(t)
  BY <1>0, <1>3, WaitAssumption
     DEF WaitTimeout, EndWait, Step, Leave, DisconnectIfCoded, TypeOK, Labels,
         Outcomes, buffs, locals, notice
<1>4. CASE StopRelay(t)
  BY <1>4 DEF StopRelay, Step, Leave, TypeOK, Labels, buffs, locals, notice, history
<1>5. CASE Close(t)
  BY <1>5 DEF Close, Step, TypeOK, Labels, buffs, locals, notice, history
<1> QED
  BY <1>1, <1>2, <1>3, <1>4, <1>5 DEF relay, RelayEof, RelayBroken

(* A step of anything else keeps the types.                                *)
LEMMA OtherTypeOK ==
  ASSUME TypeOK,
         \/ Environment
         \/ \E c \in Clients : DialPanic(c)
         \/ \E v \in Viewers : NilPeerPanic(v)
         \/ \E s \in Guests : connectServer1(s) \/ connectServer2(s)
  PROVE  TypeOK'
<1>1. ASSUME NEW s \in Sessions, NEW ready \in BOOLEAN, processConnect(s, ready)
      PROVE  TypeOK'
  <2>0. <<s, 1>> \in Threads /\ <<s, 2>> \in Threads
    BY Names
  <2>1. pc' \in [Threads -> Labels]
    <3>1. CASE ready
      BY <1>1, <2>0, <3>1 DEF processConnect, TypeOK, Labels
    <3>2. CASE ~ready
      BY <1>1, <2>0, <3>2 DEF processConnect, TypeOK, Labels
    <3> QED
      BY <3>1, <3>2
  <2>2. outcome' \in [Threads -> Outcomes] /\ told' \in [Sessions -> Nat]
    BY <1>1, <2>0 DEF processConnect, SendDisconnect, TypeOK, Outcomes
  <2> QED
    BY <1>1, <2>1, <2>2 DEF processConnect, TypeOK, buffs, locals, notice
<1>2. ASSUME NEW v \in Viewers, Accept(v)
      PROVE  TypeOK'
  BY <1>2, Names DEF Accept, Step, TypeOK, Labels, buffs, locals, notice, history
<1>3. ASSUME NEW t \in Threads, RemoteClose(t)
      PROVE  TypeOK'
  BY <1>3 DEF RemoteClose, TypeOK, buffs, locals, notice, history
<1>4. CASE Dial \/ Connected \/ TerminateMe \/ Exit \/ Panic
  BY <1>4 DEF Dial, Connected, TerminateMe, Exit, Panic, TypeOK, buffs, locals, notice, history
<1>5. ASSUME NEW s \in Guests, connectServer1(s) \/ connectServer2(s)
      PROVE  TypeOK'
  <2>1. s \in Sessions /\ <<s, 1>> \in Slots /\ <<s, 2>> \in Slots /\ <<s, 2>> \in Threads
    BY Names
  <2>2. CASE connectServer1(s)
    BY <2>1, <2>2 DEF connectServer1, Step, TypeOK, Labels, locals, notice, history
  <2>3. CASE connectServer2(s)
    BY <2>1, <2>3 DEF connectServer2, Step, TypeOK, Labels, locals, notice, history
  <2> QED
    BY <1>5, <2>2, <2>3
<1> QED
  BY <1>1, <1>2, <1>3, <1>4, <1>5 DEF Environment, DialPanic, NilPeerPanic, Ready

(* Every step keeps the types.                                             *)
LEMMA NextTypeOK == TypeOK /\ [Next]_vars => TypeOK'
<1> SUFFICES ASSUME TypeOK, [Next]_vars
             PROVE  TypeOK'
  OBVIOUS
<1>1. CASE UNCHANGED vars
  BY <1>1 DEF vars, TypeOK, buffs, locals, notice, history
<1>2. CASE Next
  BY <1>2, ClientTypeOK, HandlerTypeOK, RelayTypeOK, OtherTypeOK DEF Next
<1> QED
  BY <1>1, <1>2

(* The variables keep their types for every number of visits and viewers.  *)
THEOREM TypeCorrect == Spec => []TypeOK
  BY InitTypeOK, NextTypeOK, PTL DEF Spec
-----------------------------------------------------------------------------
(***************************************************************************)
(* The counter and the panels.  CountsVisits is inductive with the types;  *)
(* PanelsRecover needs it, since a thread that finds the counter above     *)
(* zero leaves the panels to a visit that must then be counted.  CodedOnly *)
(* keeps the threads toward the VNC program away from the counter.         *)
(* PanelsRecover is Accounted of Disclosure in the words of Visit.         *)
(***************************************************************************)
PanelsRecover == panel = "hidden" => dialling \/ Counted \cup Settling # {}
CodedAt == {"code", "hide", "hideSend", "show", "showRead", "showSend"}
CodedOnly == \A t \in Threads : pc[t] \in CodedAt => Coded(t)
CInv == TypeOK /\ CodedOnly /\ CountsVisits /\ PanelsRecover

LEMMA CountedFinite == IsFiniteSet(Counted) /\ IsFiniteSet(Counted')
  BY FiniteAssumption, FS_Subset DEF Counted

LEMMA InitCInv == Init => CInv
<1> SUFFICES ASSUME Init
             PROVE  CInv
  OBVIOUS
<1>1. Counted = {}
  BY Names DEF Init, Counted, CountedAt
<1> QED
  BY <1>1, InitTypeOK, FS_EmptySet
     DEF CInv, CodedOnly, CodedAt, CountsVisits, PanelsRecover, Init

(* Two visits never share a thread.                                        *)
LEMMA Coded1 == \A s \in Sessions : Coded(<<s, 1>>)
  BY DEF Coded

(* A step that leaves the counted part alone: no visit enters or leaves    *)
(* the two sets, and counter and panels stay as they are.                  *)
Aside == CodedOnly' /\ UNCHANGED <<Counted, Settling, count, dialling, panel>>

LEMMA AsideCInv ==
  ASSUME CInv, TypeOK', Aside
  PROVE  CInv'
  BY DEF Aside, CInv, CountsVisits, PanelsRecover

LEMMA CFrame ==
  ASSUME CInv, CodedOnly', UNCHANGED notice,
         \A s \in Sessions :
           /\ pc'[<<s, 1>>] \in CountedAt <=> pc[<<s, 1>>] \in CountedAt
           /\ pc'[<<s, 1>>] \in SettlingAt <=> pc[<<s, 1>>] \in SettlingAt
  PROVE  Aside
  BY DEF Aside, Counted, Settling, notice

(* A step of one thread between labels of the same kind is of that sort.   *)
LEMMA CStep ==
  ASSUME CInv, UNCHANGED notice,
         NEW t \in Threads, NEW l, NEW m, Step(t, l, m),
         m \in CodedAt => Coded(t),
         \/ ~Coded(t)
         \/ /\ l \in CountedAt <=> m \in CountedAt
            /\ l \in SettlingAt <=> m \in SettlingAt
  PROVE  Aside
<1> SUFFICES ASSUME NEW s \in Sessions
             PROVE  /\ pc'[<<s, 1>>] \in CountedAt <=> pc[<<s, 1>>] \in CountedAt
                    /\ pc'[<<s, 1>>] \in SettlingAt <=> pc[<<s, 1>>] \in SettlingAt
  <2>1. CodedOnly'
    BY DEF Step, CInv, CodedOnly, TypeOK
  <2> QED
    BY <2>1, CFrame
<1>1. <<s, 1>> \in Threads
  BY Names
<1>2. CASE <<s, 1>> = t
  BY <1>1, <1>2, Coded1 DEF Step, CInv, TypeOK
<1>3. CASE <<s, 1>> # t
  BY <1>1, <1>3 DEF Step, CInv, TypeOK
<1> QED
  BY <1>2, <1>3

(* hideInfo adds its visit to the counted ones, and one to the counter.    *)
LEMMA CHideCount ==
  ASSUME CInv, TypeOK', NEW c \in Clients, HideCount(c)
  PROVE  CInv' /\ Panels!Begin(c[1])
<1>1. c \in Threads /\ Coded(c) /\ c[1] \in Sessions /\ c = <<c[1], 1>>
  BY Names DEF HideCount, Step, CInv, CodedOnly, CodedAt, Coded
<1>2. /\ c[1] \notin Counted \cup Settling
      /\ Settling' = Settling
      /\ Counted' = Counted \cup {c[1]}
  <2>1. \A s \in Sessions : <<s, 1>> = c <=> s = c[1]
    BY <1>1
  <2>2. \A s \in Sessions : <<s, 1>> \in Threads
    BY Names
  <2> QED
    BY <1>1, <2>1, <2>2
       DEF HideCount, Step, CInv, TypeOK, Counted, CountedAt, Settling, SettlingAt
<1>3. CountsVisits'
  BY <1>1, <1>2, CountedFinite, FS_AddElement DEF HideCount, CInv, CountsVisits
<1>4. CodedOnly'
  BY <1>1 DEF HideCount, Step, CInv, CodedOnly, TypeOK
<1>5. PanelsRecover'
  BY <1>2 DEF PanelsRecover
<1> QED
  BY <1>2, <1>3, <1>4, <1>5 DEF CInv, HideCount, Panels!Begin

(* showInfo takes its visit from the counted ones to those that settle,    *)
(* and one from the counter.                                               *)
LEMMA CShowCount ==
  ASSUME CInv, TypeOK', NEW c \in Clients, ShowCount(c)
  PROVE  CInv' /\ Panels!End(c[1])
<1>1. c \in Threads /\ Coded(c) /\ c[1] \in Sessions /\ c = <<c[1], 1>>
  BY Names DEF ShowCount, Step, CInv, CodedOnly, CodedAt, Coded
<1>2. /\ c[1] \in Counted
      /\ Settling' = Settling \cup {c[1]}
      /\ Counted' = Counted \ {c[1]}
  <2>1. \A s \in Sessions : <<s, 1>> = c <=> s = c[1]
    BY <1>1
  <2>2. \A s \in Sessions : <<s, 1>> \in Threads
    BY Names
  <2> QED
    BY <1>1, <2>1, <2>2
       DEF ShowCount, Step, CInv, TypeOK, Counted, CountedAt, Settling, SettlingAt
<1>3. CountsVisits'
  BY <1>1, <1>2, CountedFinite, FS_RemoveElement DEF ShowCount, CInv, CountsVisits
<1>4. CodedOnly'
  BY <1>1 DEF ShowCount, Step, CInv, CodedOnly, CodedAt, TypeOK
<1>5. PanelsRecover'
  BY <1>2 DEF PanelsRecover
<1> QED
  BY <1>2, <1>3, <1>4, <1>5 DEF CInv, ShowCount, Panels!End

(* The last three steps touch the panels only: Counted stays as it is.     *)
LEMMA CPanels ==
  ASSUME CInv, TypeOK', NEW c \in Clients, HideSend(c) \/ ShowRead(c) \/ ShowSend(c)
  PROVE  CInv' /\ [Panels!Next]_(Panels!dvars)
<1>1. c \in Threads /\ Coded(c) /\ c[1] \in Sessions /\ c = <<c[1], 1>>
  BY Names DEF HideSend, ShowRead, ShowSend, Step, CInv, CodedOnly, CodedAt, Coded
<1>2. \A s \in Sessions : <<s, 1>> \in Threads /\ (<<s, 1>> = c <=> s = c[1])
  <2>1. \A s \in Sessions : <<s, 1>> = c <=> s = c[1]
    BY <1>1
  <2>2. \A s \in Sessions : <<s, 1>> \in Threads
    BY Names
  <2> QED
    BY <2>1, <2>2
<1>3. Counted' = Counted
  BY <1>1, <1>2 DEF HideSend, ShowRead, ShowSend, Step, CInv, TypeOK, Counted, CountedAt
<1>4. CountsVisits' /\ CodedOnly'
  <2>1. CountsVisits'
    BY <1>3 DEF HideSend, ShowRead, ShowSend, CInv, CountsVisits, notice
  <2>2. ASSUME NEW t \in Threads, pc'[t] \in CodedAt
        PROVE  Coded(t)
    BY <1>1, <2>2 DEF HideSend, ShowRead, ShowSend, Step, CInv, CodedOnly, TypeOK
  <2> QED
    BY <2>1, <2>2 DEF CodedOnly
<1>5. CASE HideSend(c)
  <2>1. Settling' = Settling
    BY <1>1, <1>2, <1>5 DEF HideSend, Step, CInv, TypeOK, Settling, SettlingAt
  <2>2. c[1] \in Counted
    BY <1>1, <1>5 DEF HideSend, Step, Counted, CountedAt
  <2>3. count > 0
    BY <2>2, CountedFinite, FS_EmptySet, FS_CardinalityType DEF CInv, CountsVisits
  <2>4. Panels!Hide
    BY <1>3, <1>5, <2>1, <2>2, <2>3 DEF HideSend, Panels!Hide
  <2>5. PanelsRecover'
    BY <1>3, <2>2 DEF PanelsRecover
  <2> QED
    BY <1>4, <2>4, <2>5 DEF CInv, Panels!Next
<1>6. CASE ShowSend(c)
  <2>1. c[1] \in Settling /\ Settling' = Settling \ {c[1]}
    BY <1>1, <1>2, <1>6 DEF ShowSend, Step, CInv, TypeOK, Settling, SettlingAt
  <2>2. Panels!Show(c[1])
    BY <1>3, <1>6, <2>1 DEF ShowSend, Panels!Show
  <2>3. PanelsRecover'
    BY <1>6 DEF ShowSend, PanelsRecover
  <2> QED
    BY <1>1, <1>4, <2>2, <2>3 DEF CInv, Panels!Next
<1>7. CASE ShowRead(c) /\ LastOut
  <2>1. c[1] \in Settling /\ Settling' = Settling
    BY <1>1, <1>2, <1>7 DEF ShowRead, Step, CInv, TypeOK, Settling, SettlingAt
  <2>2. UNCHANGED Panels!dvars
    BY <1>3, <1>7, <2>1 DEF ShowRead, Panels!dvars, notice
  <2>3. PanelsRecover'
    BY <2>1 DEF PanelsRecover
  <2> QED
    BY <1>4, <2>2, <2>3 DEF CInv
<1>8. CASE ShowRead(c) /\ ~LastOut
  <2>1. c[1] \in Settling /\ Settling' = Settling \ {c[1]}
    BY <1>1, <1>2, <1>8 DEF ShowRead, Step, CInv, TypeOK, Settling, SettlingAt
  <2>2. Counted # {}
    BY <1>8, FS_EmptySet DEF LastOut, CInv, CountsVisits
  <2>3. Panels!Defer(c[1])
    BY <1>3, <1>8, <2>1, <2>2 DEF ShowRead, Panels!Defer, notice
  <2>4. PanelsRecover'
    BY <1>3, <2>2 DEF PanelsRecover
  <2> QED
    BY <1>1, <1>4, <2>3, <2>4 DEF CInv, Panels!Next
<1> QED
  BY <1>5, <1>6, <1>7, <1>8

(* processConnect starts or refuses a visit that was not counted.          *)
LEMMA CConnect ==
  ASSUME CInv, NEW s \in Sessions, NEW ready \in BOOLEAN,
         processConnect(s, ready)
  PROVE  Aside
<1>1. <<s, 1>> \in Threads /\ <<s, 2>> \in Threads /\ Coded(<<s, 1>>)
  BY Names, Coded1
<1>2. /\ pc[<<s, 1>>] = "idle" /\ pc'[<<s, 1>>] \in {"dial", "done"}
      /\ pc'[<<s, 2>>] \in {"dial", "set1", "done"}
      /\ \A t \in Threads : t # <<s, 1>> /\ t # <<s, 2>> => pc'[t] = pc[t]
  <2>1. pc \in [Threads -> Labels] /\ <<s, 1>> # <<s, 2>>
    BY DEF CInv, TypeOK
  <2>2. CASE ready
    BY <1>1, <2>1, <2>2 DEF processConnect
  <2>3. CASE ~ready
    BY <1>1, <2>1, <2>3 DEF processConnect
  <2> QED
    BY <2>2, <2>3
<1>3. pc'[<<s, 2>>] \notin CodedAt
  BY <1>2 DEF CodedAt
<1>4. \A t \in Threads : t # <<s, 1>> /\ t # <<s, 2>> => pc'[t] = pc[t]
  BY <1>2
<1>5. CodedOnly'
  BY <1>1, <1>3, <1>4 DEF CInv, CodedOnly
<1>6. ASSUME NEW z \in Sessions
      PROVE  /\ pc'[<<z, 1>>] \in CountedAt <=> pc[<<z, 1>>] \in CountedAt
             /\ pc'[<<z, 1>>] \in SettlingAt <=> pc[<<z, 1>>] \in SettlingAt
  <2>1. <<z, 1>> \in Threads
    BY Names
  <2>2. <<z, 1>> # <<s, 2>>
    OBVIOUS
  <2> QED
    BY <1>2, <1>4, <2>1, <2>2 DEF CountedAt, SettlingAt
<1>7. UNCHANGED notice
  BY DEF processConnect
<1> QED
  BY <1>5, <1>6, <1>7, CFrame

(* A step that moves no thread.                                            *)
LEMMA CStill ==
  ASSUME CInv, UNCHANGED <<pc, notice>>
  PROVE  Aside
<1>1. CodedOnly'
  BY DEF CInv, CodedOnly
<1> QED
  BY <1>1, CFrame

(* MainClient's messages leave the visits alone.                           *)
LEMMA CLink ==
  ASSUME CInv, TypeOK', Dial \/ Connected
  PROVE  CInv' /\ Panels!Next
<1>1. UNCHANGED <<pc, count>>
  BY DEF Dial, Connected
<1>2. Counted' = Counted /\ Settling' = Settling
  BY <1>1 DEF Counted, Settling
<1>3. CodedOnly' /\ CountsVisits'
  BY <1>1, <1>2 DEF CInv, CodedOnly, CountsVisits
<1>4. CASE Dial
  BY <1>2, <1>3, <1>4 DEF Dial, CInv, PanelsRecover, Panels!Next, Panels!Dial
<1>5. CASE Connected
  BY <1>2, <1>3, <1>5 DEF Connected, CInv, PanelsRecover, Panels!Next, Panels!Connected
<1> QED
  BY <1>4, <1>5

(* Every step but those five and MainClient's leaves the counted part      *)
(* alone.                                                                  *)
Notifies(c) ==
  HideCount(c) \/ HideSend(c) \/ ShowCount(c) \/ ShowRead(c) \/ ShowSend(c)

LEMMA NextAside ==
  ASSUME CInv, [Next]_vars, \A c \in Clients : ~Notifies(c), ~Dial, ~Connected
  PROVE  Aside
<1>1. CASE UNCHANGED vars
  BY <1>1, CStill DEF vars
<1>2. ASSUME NEW c \in Clients, connectClient(c) \/ DialPanic(c)
      PROVE  Aside
  <2>0. c \in Threads
    BY Names
  <2>1. CASE DialOk(c)
    BY <2>0, <2>1, CStep DEF DialOk, CodedAt, CountedAt, SettlingAt
  <2>2. CASE DialFail(c)
    BY <2>0, <2>2, CStep DEF DialFail, CodedAt, CountedAt, SettlingAt
  <2>3. CASE WriteCode(c)
    <3>1. Coded(c)
      BY <2>0, <2>3 DEF WriteCode, Step, CInv, CodedOnly, CodedAt
    <3> QED
      BY <2>0, <2>3, <3>1, CStep DEF WriteCode, CountedAt, SettlingAt
  <2>4. CASE DialPanic(c)
    BY <2>4, CStill DEF DialPanic, Panic
  <2> QED
    BY <1>2, <2>1, <2>2, <2>3, <2>4 DEF connectClient, Notifies
<1>3. ASSUME NEW s \in Guests, connectServer1(s) \/ connectServer2(s)
      PROVE  Aside
  <2>1. <<s, 2>> \in Threads
    BY Names
  <2> QED
    BY <1>3, <2>1, CStep
       DEF connectServer1, connectServer2, CodedAt, CountedAt, SettlingAt
<1>4. ASSUME NEW v \in Viewers, localDataHandler(v) \/ NilPeerPanic(v) \/ Accept(v)
      PROVE  Aside
  <2>1. v \in Threads /\ ~Coded(v)
    BY Names, NamesAssumption DEF Coded, Slots
  <2>2. CASE SeekTick(v) \/ NilPeerPanic(v)
    BY <2>2, CStill DEF SeekTick, NilPeerPanic, Panic
  <2>3. CASE SeekEnd(v) \/ Check(v) \/ Take1(v) \/ Take2(v)
    <3>1. ASSUME NEW l, NEW m, Step(v, l, m), m \notin CodedAt, UNCHANGED notice
          PROVE  Aside
      BY <2>1, <3>1, CStep
    <3>2. CASE Check(v)
      BY <3>1, <3>2 DEF Check, CodedAt
    <3>3. CASE SeekEnd(v) \/ Take1(v) \/ Take2(v)
      BY <3>1, <3>3 DEF SeekEnd, Take1, Take2, CodedAt
    <3> QED
      BY <2>3, <3>2, <3>3
  <2>4. CASE Clear1(v) \/ Clear2(v) \/ Bind(v) \/ Accept(v)
    BY <2>1, <2>4, CStep DEF Clear1, Clear2, Bind, Accept, CodedAt
  <2> QED
    BY <1>4, <2>2, <2>3, <2>4 DEF localDataHandler
<1>5. ASSUME NEW t \in Threads, relay(t) \/ RelayBroken(t)
      PROVE  Aside
  <2>1. CASE WaitTick(t)
    BY <2>1, CStill DEF WaitTick
  <2>2. CASE WaitFound(t)
    BY <2>2, CStep DEF WaitFound, CodedAt, CountedAt, SettlingAt
  <2>3. CASE WaitTimeout(t)
    BY <2>3, CStep DEF WaitTimeout, Leave, CodedAt, CountedAt, SettlingAt
  <2>4. CASE StopRelay(t)
    BY <2>4, CStep DEF StopRelay, Leave, CodedAt, CountedAt, SettlingAt
  <2>5. CASE Close(t)
    BY <2>5, CStep DEF Close, CodedAt, CountedAt, SettlingAt
  <2> QED
    BY <1>5, <2>1, <2>2, <2>3, <2>4, <2>5 DEF relay, RelayEof, RelayBroken
<1>6. CASE Environment
  <2>1. ASSUME NEW s \in Sessions, NEW ready \in BOOLEAN, processConnect(s, ready)
        PROVE  Aside
    BY <2>1, CConnect
  <2>2. ASSUME NEW t \in Threads, RemoteClose(t)
        PROVE  Aside
    BY <2>2, CStill DEF RemoteClose
  <2>3. CASE TerminateMe \/ Exit
    BY <2>3, CStill DEF Dial, Connected, TerminateMe, Exit
  <2> QED
    BY <1>4, <1>6, <2>1, <2>2, <2>3 DEF Environment, Ready
<1> QED
  BY <1>1, <1>2, <1>3, <1>4, <1>5, <1>6 DEF Next

(* Every step keeps the counter and the panels in order, and is one that   *)
(* Disclosure allows.                                                      *)
LEMMA NextCInv == CInv /\ [Next]_vars => CInv' /\ [Panels!Next]_(Panels!dvars)
<1> SUFFICES ASSUME CInv, [Next]_vars
             PROVE  CInv' /\ [Panels!Next]_(Panels!dvars)
  OBVIOUS
<1>0. TypeOK'
  BY NextTypeOK DEF CInv
<1>1. ASSUME NEW c \in Clients, HideCount(c)
      PROVE  CInv' /\ Panels!Next
  <2>1. c[1] \in Sessions
    BY Names
  <2> QED
    BY <1>0, <1>1, <2>1, CHideCount DEF Panels!Next
<1>2. ASSUME NEW c \in Clients, ShowCount(c)
      PROVE  CInv' /\ Panels!Next
  <2>1. c[1] \in Sessions
    BY Names
  <2> QED
    BY <1>0, <1>2, <2>1, CShowCount DEF Panels!Next
<1>3. CASE (\A c \in Clients : ~Notifies(c)) /\ ~Dial /\ ~Connected
  <2>1. Aside
    BY <1>3, NextAside
  <2>2. UNCHANGED Panels!dvars
    BY <2>1 DEF Aside, Panels!dvars
  <2> QED
    BY <1>0, <2>1, <2>2, AsideCInv
<1>4. CASE Dial \/ Connected
  BY <1>0, <1>4, CLink
<1> QED
  BY <1>0, <1>1, <1>2, <1>3, <1>4, CPanels DEF Notifies

(* The counter is the number of visits between hideInfo and showInfo, for  *)
(* any number of visits and whatever way connectClient leaves.             *)
THEOREM CounterCorrect == Spec => []CountsVisits
<1>1. CInv => CountsVisits
  BY DEF CInv
<1> QED
  BY <1>1, InitCInv, NextCInv, PTL DEF Spec

(* Panels that hide the credentials do so for a visit that is counted or   *)
(* has yet to look at the counter, or because the server is dialled.       *)
THEOREM PanelsRecovered == Spec => []Panels!Accounted
<1>1. CInv => Panels!Accounted
  BY DEF CInv, PanelsRecover, Panels!Accounted
<1> QED
  BY <1>1, InitCInv, NextCInv, PTL DEF Spec

(* Visit implements Disclosure: what the panels are told about the         *)
(* credentials, seen with the visits that are counted and those that owe   *)
(* them a second look, follows the abstract specification.                 *)
THEOREM PanelsRefined == Spec => PanelsSpec
<1>1. Init => Panels!Init
  <2>1. ASSUME Init
        PROVE  Counted = {} /\ Settling = {}
    BY <2>1, Names DEF Init, Counted, CountedAt, Settling, SettlingAt
  <2> QED
    BY <2>1 DEF Init, Panels!Init
<1> QED
  BY <1>1, InitCInv, NextCInv, PTL DEF Spec, PanelsSpec, Panels!Spec
-----------------------------------------------------------------------------
(***************************************************************************)
(* The reports of failure.  OneReason alone is not inductive: a visit that *)
(* is still on its way must not have an outcome yet, or a second failure   *)
(* of it would be reported again (Untried).                                *)
(***************************************************************************)
UntriedAt == {"idle", "dial", "code", "hide", "hideSend", "wait"}
Untried == \A s \in Sessions : pc[<<s, 1>>] \in UntriedAt => outcome[<<s, 1>>] = "none"
OInv == TypeOK /\ Untried /\ OneReason

LEMMA InitOInv == Init => OInv
  BY InitTypeOK, Names DEF Init, OInv, Untried, OneReason

(* A thread that moves on without an outcome.                              *)
LEMMA OMove ==
  ASSUME OInv, TypeOK', UNCHANGED history,
         NEW t \in Threads, NEW l, NEW m, Step(t, l, m),
         m \in UntriedAt => l \in UntriedAt \/ ~Coded(t)
  PROVE  OInv'
<1>1. ASSUME NEW s \in Sessions, pc'[<<s, 1>>] \in UntriedAt
      PROVE  pc[<<s, 1>>] \in UntriedAt
  <2>1. <<s, 1>> \in Threads /\ Coded(<<s, 1>>)
    BY Names, Coded1
  <2> QED
    BY <1>1, <2>1 DEF Step, OInv, TypeOK
<1> QED
  BY <1>1 DEF OInv, Untried, OneReason, history

(* A thread that was untried gets its outcome, and the server is told of a *)
(* failure of a visit's first slot.                                        *)
LEMMA OOutcome ==
  ASSUME OInv, TypeOK',
         NEW t \in Threads, NEW l \in UntriedAt, NEW m, Step(t, l, m),
         m \notin UntriedAt,
         NEW o \in {"failed", "timeout", "relay"}, outcome' = [outcome EXCEPT ![t] = o],
         IF o = "relay" THEN told' = told ELSE DisconnectIfCoded(t)
  PROVE  OInv'
<1> SUFFICES ASSUME NEW s \in Sessions
             PROVE  /\ pc'[<<s, 1>>] \in UntriedAt => outcome'[<<s, 1>>] = "none"
                    /\ told'[s] = IF outcome'[<<s, 1>>] \in {"refused", "failed", "timeout"}
                                    THEN 1 ELSE 0
  BY DEF OInv, Untried, OneReason
<1>1. <<s, 1>> \in Threads /\ Coded(<<s, 1>>)
  BY Names, Coded1
<1>2. CASE t = <<s, 1>>
  <2>1. outcome[t] = "none" /\ told[s] = 0
    BY <1>1, <1>2 DEF Step, OInv, Untried, OneReason
  <2>2. outcome'[t] = o /\ pc'[t] \notin UntriedAt
    BY <1>1, <1>2 DEF Step, OInv, TypeOK
  <2>3. told'[s] = IF o = "relay" THEN 0 ELSE 1
    BY <1>1, <1>2, <2>1 DEF DisconnectIfCoded, OInv, TypeOK
  <2> QED
    BY <1>1, <1>2, <2>2, <2>3
<1>3. CASE t # <<s, 1>>
  <2>1. outcome'[<<s, 1>>] = outcome[<<s, 1>>] /\ pc'[<<s, 1>>] = pc[<<s, 1>>]
    BY <1>1, <1>3 DEF Step, OInv, TypeOK
  <2>2. told'[s] = told[s]
    <3>1. Coded(t) => t = <<t[1], 1>> /\ t[1] # s
      BY <1>3 DEF Coded
    <3> QED
      BY <3>1 DEF DisconnectIfCoded, OInv, TypeOK
  <2> QED
    BY <2>1, <2>2 DEF OInv, Untried, OneReason
<1> QED
  BY <1>2, <1>3

(* processConnect refuses a visit and says so, or starts it.               *)
LEMMA OConnect ==
  ASSUME OInv, TypeOK', NEW s \in Sessions, NEW ready \in BOOLEAN,
         processConnect(s, ready)
  PROVE  OInv'
<1> SUFFICES ASSUME NEW z \in Sessions
             PROVE  /\ pc'[<<z, 1>>] \in UntriedAt => outcome'[<<z, 1>>] = "none"
                    /\ told'[z] = IF outcome'[<<z, 1>>] \in {"refused", "failed", "timeout"}
                                    THEN 1 ELSE 0
  BY DEF OInv, Untried, OneReason
<1>1. <<z, 1>> \in Threads /\ <<s, 1>> \in Threads /\ <<z, 1>> # <<s, 2>>
  <2>1. <<z, 1>> # <<s, 2>>
    OBVIOUS
  <2> QED
    BY <2>1, Names
<1>2. outcome[<<s, 1>>] = "none" /\ told[s] = 0
  BY DEF processConnect, UntriedAt, OInv, Untried, OneReason
<1>3. CASE ready
  <2>1. z # s => pc'[<<z, 1>>] = pc[<<z, 1>>]
    BY <1>1, <1>3 DEF processConnect, OInv, TypeOK
  <2> QED
    BY <1>2, <1>3, <2>1 DEF processConnect, OInv, Untried, OneReason
<1>4. CASE ~ready /\ z = s
  BY <1>1, <1>2, <1>4
     DEF processConnect, SendDisconnect, UntriedAt, OInv, TypeOK
<1>5. CASE ~ready /\ z # s
  <2>1. /\ outcome'[<<z, 1>>] = outcome[<<z, 1>>] /\ pc'[<<z, 1>>] = pc[<<z, 1>>]
        /\ told'[z] = told[z]
    BY <1>1, <1>5 DEF processConnect, SendDisconnect, OInv, TypeOK
  <2> QED
    BY <2>1 DEF OInv, Untried, OneReason
<1> QED
  BY <1>3, <1>4, <1>5

(* Every step keeps the reports in order.                                  *)
LEMMA NextOInv == OInv /\ [Next]_vars => OInv'
<1> SUFFICES ASSUME OInv, [Next]_vars
             PROVE  OInv'
  OBVIOUS
<1>0. TypeOK'
  BY NextTypeOK DEF OInv
<1>1. ASSUME UNCHANGED <<pc, history>>
      PROVE  OInv'
  BY <1>0, <1>1 DEF OInv, Untried, OneReason, history
<1>2. ASSUME NEW c \in Clients, connectClient(c) \/ DialPanic(c)
      PROVE  OInv'
  <2>0. c \in Threads
    BY Names
  <2>1. CASE DialOk(c)
    BY <1>0, <2>0, <2>1, OMove DEF DialOk, UntriedAt
  <2>2. CASE DialFail(c)
    BY <1>0, <2>0, <2>2, OOutcome DEF DialFail, UntriedAt
  <2>3. CASE WriteCode(c) \/ HideCount(c) \/ HideSend(c)
    BY <1>0, <2>0, <2>3, OMove DEF WriteCode, HideCount, HideSend, UntriedAt
  <2>4. CASE ShowCount(c) \/ ShowSend(c)
    BY <1>0, <2>0, <2>4, OMove DEF ShowCount, ShowSend, UntriedAt
  <2>5. CASE ShowRead(c)
    BY <1>0, <2>0, <2>5, OMove DEF ShowRead, UntriedAt
  <2>6. CASE DialPanic(c)
    BY <1>1, <2>6 DEF DialPanic, Panic
  <2> QED
    BY <1>2, <2>1, <2>2, <2>3, <2>4, <2>5, <2>6 DEF connectClient
<1>3. ASSUME NEW s \in Guests, connectServer1(s) \/ connectServer2(s)
      PROVE  OInv'
  <2>1. <<s, 2>> \in Threads
    BY Names
  <2> QED
    BY <1>0, <1>3, <2>1, OMove DEF connectServer1, connectServer2, UntriedAt
<1>4. ASSUME NEW v \in Viewers, localDataHandler(v) \/ NilPeerPanic(v) \/ Accept(v)
      PROVE  OInv'
  <2>0. v \in Threads /\ ~Coded(v)
    BY Names, NamesAssumption DEF Coded, Slots
  <2>1. CASE SeekTick(v) \/ NilPeerPanic(v)
    BY <1>1, <2>1 DEF SeekTick, NilPeerPanic, Panic
  <2>2. CASE SeekEnd(v) \/ Take1(v) \/ Take2(v)
    BY <1>0, <2>0, <2>2, OMove DEF SeekEnd, Take1, Take2
  <2>3. CASE Clear1(v) \/ Clear2(v) \/ Bind(v) \/ Accept(v)
    BY <1>0, <2>0, <2>3, OMove DEF Clear1, Clear2, Bind, Accept
  <2>4. CASE Check(v)
    <3>1. ASSUME NEW z \in Sessions
          PROVE  /\ pc'[<<z, 1>>] = pc[<<z, 1>>]
                 /\ outcome'[<<z, 1>>] = outcome[<<z, 1>>]
      BY <2>0, <2>4, Names, Coded1 DEF Check, Step, OInv, TypeOK
    <3> QED
      BY <1>0, <2>4, <3>1 DEF Check, OInv, Untried, OneReason
  <2> QED
    BY <1>4, <2>1, <2>2, <2>3, <2>4 DEF localDataHandler
<1>5. ASSUME NEW t \in Threads, relay(t) \/ RelayBroken(t)
      PROVE  OInv'
  <2>1. CASE WaitTick(t)
    BY <1>1, <2>1 DEF WaitTick
  <2>2. CASE WaitFound(t)
    BY <1>0, <2>2, OOutcome DEF WaitFound, UntriedAt
  <2>3. CASE WaitTimeout(t)
    BY <1>0, <2>3, OOutcome DEF WaitTimeout, Leave, UntriedAt
  <2>4. CASE StopRelay(t)
    BY <1>0, <2>4, OMove DEF StopRelay, Leave, UntriedAt
  <2>5. CASE Close(t)
    BY <1>0, <2>5, OMove DEF Close, UntriedAt
  <2> QED
    BY <1>5, <2>1, <2>2, <2>3, <2>4, <2>5 DEF relay, RelayEof, RelayBroken
<1>6. CASE Environment
  <2>1. ASSUME NEW s \in Sessions, NEW ready \in BOOLEAN, processConnect(s, ready)
        PROVE  OInv'
    BY <1>0, <2>1, OConnect
  <2>2. ASSUME NEW t \in Threads, RemoteClose(t)
        PROVE  OInv'
    BY <1>1, <2>2 DEF RemoteClose
  <2>3. CASE Dial \/ Connected \/ TerminateMe \/ Exit
    BY <1>1, <2>3 DEF Dial, Connected, TerminateMe, Exit
  <2> QED
    BY <1>4, <1>6, <2>1, <2>2, <2>3 DEF Environment, Ready
<1>7. CASE UNCHANGED vars
  BY <1>1, <1>7 DEF vars
<1> QED
  BY <1>2, <1>3, <1>4, <1>5, <1>6, <1>7 DEF Next

(* The server hears once of a visit that failed before it relayed, and not *)
(* of another, for any number of visits.                                   *)
THEOREM ReportedOnce == Spec => []OneReason
<1>1. OInv => OneReason
  BY DEF OInv
<1> QED
  BY <1>1, InitOInv, NextOInv, PTL DEF Spec
-----------------------------------------------------------------------------
(***************************************************************************)
(* One viewer.  What localDataHandler takes is then what connectServer     *)
(* published, and what it binds nobody binds again.                        *)
(***************************************************************************)
OneViewer == \A v, w \in Viewers : v = w

Published2 == Guests \X {2}

(* The pair in the globals, and in the viewer's hands, has no hole, and    *)
(* its first slot is a guest's second.                                     *)
PairWhole ==
  /\ peerBuff1 \in Published2 \cup {Nil}
  /\ \A v \in Viewers :
       /\ peer1[v] \in Published2 \cup {Nil}
       /\ pc[v] = "take1" => Published
       /\ pc[v] = "take2" => peer1[v] # Nil /\ peerBuff2 # Nil
       /\ pc[v] \in {"clear1", "clear2", "bind", "wait"} => peer1[v] # Nil /\ peer2[v] # Nil

NInv == TypeOK /\ PairWhole

LEMMA InitNInv == Init => NInv
  BY InitTypeOK, Names DEF Init, NInv, PairWhole

(* Viewers are not slots; a guest's second slot is no client.              *)
LEMMA Kinds ==
  /\ \A v \in Viewers : v \notin Slots /\ v \in Threads /\ ~Coded(v) /\ v \notin Clients
  /\ \A p \in Published2 : p \in Slots /\ p \notin Clients /\ p # Nil
  /\ \A p \in Slots : p \in Threads /\ p # Nil
  BY NamesAssumption DEF Coded, Clients, Slots, Sessions, Published2, Threads

(* What leaves the viewer, the globals and its copies alone.               *)
LEMMA NFrame ==
  ASSUME NInv, TypeOK', UNCHANGED <<buffs, locals>>,
         \A v \in Viewers : pc'[v] = pc[v] \/ pc'[v] \notin {"take1", "take2", "clear1", "clear2", "bind", "wait"}
  PROVE  NInv'
  BY DEF NInv, PairWhole, Published, buffs, locals

LEMMA NextNInv ==
  ASSUME OneViewer
  PROVE  NInv /\ [Next]_vars => NInv'
<1> SUFFICES ASSUME NInv, [Next]_vars
             PROVE  NInv'
  OBVIOUS
<1>0. TypeOK'
  BY NextTypeOK DEF NInv
<1>1. ASSUME UNCHANGED <<pc, buffs, locals>>
      PROVE  NInv'
  BY <1>0, <1>1, NFrame
<1>2. ASSUME NEW t \in Threads \ Viewers, NEW l, NEW m, Step(t, l, m), UNCHANGED <<buffs, locals>>
      PROVE  NInv'
  <2>1. \A v \in Viewers : pc'[v] = pc[v]
    BY <1>2, Kinds DEF Step, NInv, TypeOK
  <2> QED
    BY <1>0, <1>2, <2>1, NFrame
<1>3. ASSUME NEW c \in Clients, connectClient(c) \/ DialPanic(c)
      PROVE  NInv'
  <2>1. c \in Threads \ Viewers
    BY Names, Kinds
  <2>2. CASE DialPanic(c)
    BY <1>1, <2>2 DEF DialPanic, Panic
  <2>3. CASE DialOk(c) \/ DialFail(c) \/ WriteCode(c) \/ HideCount(c)
    BY <1>2, <2>1, <2>3 DEF DialOk, DialFail, WriteCode, HideCount
  <2>4. CASE HideSend(c) \/ ShowCount(c) \/ ShowRead(c) \/ ShowSend(c)
    BY <1>2, <2>1, <2>4 DEF HideSend, ShowCount, ShowRead, ShowSend
  <2> QED
    BY <1>3, <2>2, <2>3, <2>4 DEF connectClient
<1>4. ASSUME NEW s \in Guests, connectServer1(s) \/ connectServer2(s)
      PROVE  NInv'
  <2>1. /\ <<s, 2>> \in Threads /\ <<s, 2>> \in Published2 /\ <<s, 2>> # Nil
        /\ <<s, 1>> # Nil
    BY Names, Kinds DEF Published2
  <2>2. \A v \in Viewers : pc'[v] = pc[v]
    BY <1>4, <2>1, Kinds DEF connectServer1, connectServer2, Step, NInv, TypeOK
  <2>3. CASE connectServer1(s)
    BY <1>0, <2>1, <2>2, <2>3 DEF connectServer1, NInv, PairWhole, Published, locals
  <2>4. CASE connectServer2(s)
    BY <1>0, <2>1, <2>2, <2>4 DEF connectServer2, NInv, PairWhole, Published, locals
  <2> QED
    BY <1>4, <2>3, <2>4
<1>5. ASSUME NEW v \in Viewers, localDataHandler(v) \/ NilPeerPanic(v) \/ Accept(v)
      PROVE  NInv'
  <2>0. v \in Threads /\ \A w \in Viewers : w = v
    BY Kinds DEF OneViewer
  <2>1. CASE SeekTick(v) \/ NilPeerPanic(v)
    BY <1>1, <2>1 DEF SeekTick, NilPeerPanic, Panic
  <2>2. CASE SeekEnd(v) \/ Accept(v)
    BY <1>0, <2>0, <2>2, NFrame DEF SeekEnd, Accept, Step, NInv, TypeOK
  <2>3. CASE Check(v)
    BY <1>0, <2>0, <2>3 DEF Check, Step, NInv, TypeOK, PairWhole, Published, buffs, locals
  <2>4. CASE Take1(v)
    BY <1>0, <2>0, <2>4 DEF Take1, Step, NInv, TypeOK, PairWhole, Published, buffs
  <2>5. CASE Take2(v)
    BY <1>0, <2>0, <2>5 DEF Take2, Step, NInv, TypeOK, PairWhole, Published, buffs
  <2>6. CASE Clear1(v)
    BY <1>0, <2>0, <2>6 DEF Clear1, Step, NInv, TypeOK, PairWhole, Published, locals
  <2>7. CASE Clear2(v)
    BY <1>0, <2>0, <2>7 DEF Clear2, Step, NInv, TypeOK, PairWhole, Published, locals
  <2>8. CASE Bind(v)
    BY <1>0, <2>0, <2>8 DEF Bind, Step, NInv, TypeOK, PairWhole, Published, buffs, locals
  <2> QED
    BY <1>5, <2>1, <2>2, <2>3, <2>4, <2>5, <2>6, <2>7, <2>8 DEF localDataHandler
<1>6. ASSUME NEW t \in Threads, relay(t) \/ RelayBroken(t)
      PROVE  NInv'
  <2>0. ASSUME NEW l, NEW m \in {"relay", "show", "close", "done"}, Step(t, l, m),
               UNCHANGED <<buffs, locals>>
        PROVE  NInv'
    <3>1. \A v \in Viewers : pc'[v] = pc[v] \/ pc'[v] = m
      BY <2>0, Kinds DEF Step, NInv, TypeOK
    <3> QED
      BY <1>0, <2>0, <3>1, NFrame
  <2>1. CASE WaitTick(t)
    BY <1>1, <2>1 DEF WaitTick
  <2>2. CASE WaitFound(t)
    BY <2>0, <2>2 DEF WaitFound
  <2>3. CASE WaitTimeout(t)
    BY <2>0, <2>3 DEF WaitTimeout, Leave
  <2>4. CASE StopRelay(t)
    BY <2>0, <2>4 DEF StopRelay, Leave
  <2>5. CASE Close(t)
    BY <2>0, <2>5 DEF Close
  <2> QED
    BY <1>6, <2>1, <2>2, <2>3, <2>4, <2>5 DEF relay, RelayEof, RelayBroken
<1>7. CASE Environment
  <2>1. ASSUME NEW s \in Sessions, NEW ready \in BOOLEAN, processConnect(s, ready)
        PROVE  NInv'
    <3>1. \A v \in Viewers : v # <<s, 1>> /\ v # <<s, 2>>
      BY Names, Kinds
    <3>2. \A v \in Viewers : pc'[v] = pc[v]
      BY <2>1, <3>1, Kinds DEF processConnect, NInv, TypeOK
    <3> QED
      BY <1>0, <2>1, <3>2, NFrame DEF processConnect
  <2>2. ASSUME NEW t \in Threads, RemoteClose(t)
        PROVE  NInv'
    BY <1>1, <2>2 DEF RemoteClose
  <2>3. CASE Dial \/ Connected \/ TerminateMe \/ Exit
    BY <1>1, <2>3 DEF Dial, Connected, TerminateMe, Exit
  <2> QED
    BY <1>5, <1>7, <2>1, <2>2, <2>3 DEF Environment, Ready
<1>8. CASE UNCHANGED vars
  BY <1>1, <1>8 DEF vars
<1> QED
  BY <1>3, <1>4, <1>5, <1>6, <1>7, <1>8 DEF Next

(* While a single viewer connects, and no proxy hangs up, no goroutine of  *)
(* a visit panics: localDataHandler never dereferences a nil peer, for any *)
(* number of visits served and watched.                                    *)
THEOREM NoNilPeer ==
  ASSUME OneViewer, ~Proxy
  PROVE  Spec => []NoPanic
<1>1. Init => NInv /\ NoPanic
  BY InitNInv DEF Init, NoPanic
<1>2. NInv /\ NoPanic /\ [Next]_vars => NInv' /\ NoPanic'
  <2> SUFFICES ASSUME NInv, NoPanic, [Next]_vars
               PROVE  NInv' /\ NoPanic'
    OBVIOUS
  <2>1. \A c \in Clients : ~DialPanic(c)
    BY DEF DialPanic
  <2>2. \A v \in Viewers : ~NilPeerPanic(v)
    BY DEF NilPeerPanic, NInv, PairWhole
  <2>3. life' = life \/ life' \in {"terminating", "exited"}
    BY <2>1, <2>2
       DEF Next, connectClient, DialOk, DialFail, WriteCode, HideCount, HideSend,
           ShowCount, ShowRead, ShowSend, connectServer1, connectServer2,
           localDataHandler, SeekTick, SeekEnd, Check, Take1, Take2, Clear1, Clear2,
           Bind, relay, WaitTick, WaitFound, WaitTimeout, RelayEof, RelayBroken,
           StopRelay, Close, Environment, processConnect, Accept, RemoteClose,
           Dial, Connected, TerminateMe, Exit, vars
  <2> QED
    BY <2>3, NextNInv DEF NoPanic
<1> QED
  BY <1>1, <1>2, PTL DEF Spec
-----------------------------------------------------------------------------
(***************************************************************************)
(* The sockets a goroutine leaves.  A slot names a goroutine that has      *)
(* opened its connection, and with one viewer it keeps that name; so what  *)
(* a relay closed is what its slot still names when it has ended.          *)
(***************************************************************************)
Early == {"idle", "dial", "set1", "set2"}
Ended == {"show", "showRead", "showSend", "close", "done"}
BeforeBind == {"idle", "seek", "check", "take1", "take2", "clear1", "clear2", "bind"}

(* A connection is opened after the early labels and closed at the end.    *)
SocketsFollow ==
  \A t \in Threads :
    /\ pc[t] \in Early => conn[t] = "none"
    /\ pc[t] = "done" => conn[t] \in {"none", "closed"}

(* A slot holds a goroutine that is past its dial, a client's only the     *)
(* client; the viewer has bound nothing before it binds; the two           *)
(* goroutines of a visit start together.                                   *)
SlotsFilled ==
  /\ \A p \in Slots : slot[p] # Nil => pc[slot[p]] \notin Early
  /\ \A c \in Clients : slot[c] \in {Nil, c}
  /\ \A v \in Viewers : pc[v] \in BeforeBind => \A p \in Published2 : slot[p] = Nil
  /\ \A s \in Sessions : pc[<<s, 1>>] = "idle" => pc[<<s, 2>>] = "idle"

(* One that relays has a target, and has closed it when it goes on.        *)
RelayEnds ==
  \A t \in Threads :
    /\ pc[t] = "relay" => outcome[t] = "relay"
    /\ outcome[t] = "relay" =>
         /\ pc[t] \in Ended \cup {"relay"}
         /\ Far(t) # Nil /\ Target(t) # Nil
         /\ pc[t] # "relay" => conn[Target(t)] = "closed"

TInv == NInv /\ SocketsFollow /\ SlotsFilled /\ RelayEnds

(* The slot a goroutine writes to is a slot, unless a viewer has none yet. *)
LEMMA FarSlot ==
  ASSUME TypeOK, NEW t \in Threads
  PROVE  Far(t) \in Slots \cup {Nil} /\ (t \notin Viewers => Far(t) = Other(t))
<1>1. CASE t \in Viewers
  BY <1>1 DEF Far, TypeOK
<1>2. CASE t \notin Viewers
  <2>1. t \in Slots
    BY <1>2 DEF Threads
  <2>2. Other(t) \in Slots
    BY <2>1 DEF Other, Slots
  <2> QED
    BY <1>2, <2>2 DEF Far
<1> QED
  BY <1>1, <1>2

LEMMA InitTInv == Init => TInv
  BY InitNInv, Names, Kinds
     DEF Init, TInv, SocketsFollow, SlotsFilled, RelayEnds, Early, Slots, Threads

(* What a step leaves alone keeps its target.                              *)
LEMMA SameFar ==
  ASSUME NEW t \in Threads, peer2'[t] = peer2[t]
  PROVE  Far(t)' = Far(t)
  BY DEF Far

(* What a goroutine that relays writes to stays what it was, as long as no *)
(* filled slot is refilled, and what was closed stays closed.              *)
LEMMA RelayKept ==
  ASSUME TInv, NEW u \in Threads, outcome[u] = "relay", peer2'[u] = peer2[u],
         \A p \in Slots : slot[p] # Nil => slot'[p] = slot[p]
  PROVE  /\ Far(u)' = Far(u) /\ Far(u) # Nil
         /\ Target(u)' = Target(u) /\ Target(u) \in Threads /\ Target(u) # Nil
         /\ pc[Target(u)] \notin Early
         /\ pc[u] \in Ended \cup {"relay"}
         /\ pc[u] # "relay" => conn[Target(u)] = "closed"
<1>1. /\ pc[u] \in Ended \cup {"relay"} /\ Far(u) # Nil /\ Target(u) # Nil
      /\ pc[u] # "relay" => conn[Target(u)] = "closed"
  BY DEF TInv, RelayEnds
<1>2. Far(u) \in Slots
  BY <1>1, FarSlot DEF TInv, NInv
<1>3. Target(u) \in Threads /\ pc[Target(u)] \notin Early
  BY <1>1, <1>2 DEF Target, TInv, NInv, TypeOK, SlotsFilled
<1>4. Far(u)' = Far(u)
  BY SameFar
<1>5. Target(u)' = Target(u)
  BY <1>1, <1>2, <1>4 DEF Target
<1> QED
  BY <1>1, <1>3, <1>4, <1>5

(* A goroutine goes on: it may fill an empty slot with itself, and others  *)
(* only see their connection closed.  What is left to show is its own      *)
(* part.                                                                   *)
LEMMA TStep ==
  ASSUME TInv, NInv', NEW t \in Threads, NEW l, NEW m \in Labels \ Early, Step(t, l, m),
         t \in Slots => l # "idle",
         \A p \in Slots : slot[p] # Nil => slot'[p] = slot[p],
         \A p \in Slots : slot'[p] \in {slot[p], t},
         \A c \in Clients : slot'[c] \in {slot[c], c},
         \A v \in Viewers : pc'[v] \in BeforeBind =>
           pc[v] \in BeforeBind /\ \A p \in Published2 : slot'[p] = slot[p],
         \A w \in Threads : w # t =>
           conn'[w] = conn[w] \/ (pc[w] \notin Early /\ conn'[w] = "closed"),
         conn[t] = "closed" => conn'[t] = "closed",
         m = "done" => conn'[t] \in {"none", "closed"},
         \A u \in Threads : u # t => outcome'[u] = outcome[u] /\ peer2'[u] = peer2[u],
         m = "relay" => outcome'[t] = "relay",
         outcome'[t] = "relay" =>
           /\ m \in Ended \cup {"relay"}
           /\ Far(t)' # Nil /\ Target(t)' # Nil
           /\ m # "relay" => conn'[Target(t)'] = "closed"
  PROVE  TInv'
<1>0. TypeOK /\ TypeOK'
  BY DEF TInv, NInv
<1>1. pc[t] = l /\ pc'[t] = m /\ \A u \in Threads : u # t => pc'[u] = pc[u]
  BY <1>0 DEF Step, TypeOK
<1>2. SocketsFollow'
  BY <1>1 DEF TInv, SocketsFollow, Early
<1>3. SlotsFilled'
  <2>1. \A p \in Slots : slot[p] # Nil => slot[p] \in Threads
    BY <1>0 DEF TypeOK
  <2>2. \A p \in Slots : slot'[p] # Nil => pc'[slot'[p]] \notin Early
    BY <1>1, <2>1 DEF TInv, SlotsFilled
  <2>3. \A s \in Sessions : <<s, 1>> \in Slots /\ <<s, 2>> \in Slots
    BY Names
  <2>4. \A s \in Sessions : pc'[<<s, 1>>] = "idle" => pc[<<s, 1>>] = "idle"
    BY <1>1, <2>3, Kinds DEF Early
  <2>5. \A s \in Sessions : pc[<<s, 2>>] = "idle" => pc'[<<s, 2>>] = "idle"
    BY <1>1, <2>3, Kinds
  <2>6. \A c \in Clients : slot'[c] \in {Nil, c}
    BY DEF TInv, SlotsFilled
  <2> QED
    BY <2>2, <2>4, <2>5, <2>6 DEF TInv, SlotsFilled
<1>4. RelayEnds'
  <2> SUFFICES ASSUME NEW u \in Threads, u # t
               PROVE  /\ pc'[u] = "relay" => outcome'[u] = "relay"
                      /\ outcome'[u] = "relay" =>
                           /\ pc'[u] \in Ended \cup {"relay"}
                           /\ Far(u)' # Nil /\ Target(u)' # Nil
                           /\ pc'[u] # "relay" => conn'[Target(u)'] = "closed"
    BY <1>1 DEF RelayEnds
  <2>1. pc'[u] = "relay" => outcome'[u] = "relay"
    BY <1>1 DEF TInv, RelayEnds
  <2>2. ASSUME outcome'[u] = "relay"
        PROVE  /\ pc'[u] \in Ended \cup {"relay"}
               /\ Far(u)' # Nil /\ Target(u)' # Nil
               /\ pc'[u] # "relay" => conn'[Target(u)'] = "closed"
    <3>1. /\ Far(u)' = Far(u) /\ Far(u) # Nil
          /\ Target(u)' = Target(u) /\ Target(u) \in Threads /\ Target(u) # Nil
          /\ pc[u] \in Ended \cup {"relay"}
          /\ pc[u] # "relay" => conn[Target(u)] = "closed"
      BY <2>2, RelayKept
    <3>2. conn[Target(u)] = "closed" => conn'[Target(u)] = "closed"
      BY <3>1
    <3> QED
      BY <1>1, <3>1, <3>2
  <2> QED
    BY <2>1, <2>2
<1> QED
  BY <1>2, <1>3, <1>4 DEF TInv

(* ... without opening or closing anything.                                *)
LEMMA TPass ==
  ASSUME TInv, NInv', NEW t \in Threads,
         NEW l \in Labels \ {"idle", "relay"}, NEW m \in Labels \ (Early \cup {"relay"}),
         Step(t, l, m), UNCHANGED <<conn, slot>>,
         m \in BeforeBind => l \in BeforeBind,
         l \in Ended => m \in Ended,
         m = "done" => l \in Early,
         \A u \in Threads : u # t => outcome'[u] = outcome[u] /\ peer2'[u] = peer2[u],
         outcome'[t] = "relay" => outcome[t] = "relay",
         l \in Ended => peer2'[t] = peer2[t]
  PROVE  TInv'
<1>0. TypeOK /\ TypeOK'
  BY DEF TInv, NInv
<1>1. pc[t] = l /\ pc'[t] = m /\ \A u \in Threads : u # t => pc'[u] = pc[u]
  BY <1>0 DEF Step, TypeOK
<1>2. \A v \in Viewers : pc'[v] \in BeforeBind => pc[v] \in BeforeBind
  BY <1>1, Names
<1>3. \A c \in Clients : slot[c] \in {slot[c], c}
  OBVIOUS
<1>4. m = "done" => conn'[t] \in {"none", "closed"}
  BY <1>1 DEF TInv, SocketsFollow
<1>5. ASSUME outcome'[t] = "relay"
      PROVE  /\ m \in Ended
             /\ Far(t)' # Nil /\ Target(t)' # Nil
             /\ conn'[Target(t)'] = "closed"
  <2>1. l \in Ended
    BY <1>1, <1>5 DEF TInv, RelayEnds
  <2> QED
    BY <1>1, <1>5, <2>1, RelayKept
<1> QED
  BY <1>2, <1>3, <1>4, <1>5, TStep

LEMMA TClient ==
  ASSUME TInv, NInv', NEW c \in Clients, connectClient(c)
  PROVE  TInv'
<1>0. c \in Slots /\ c \in Threads /\ c \notin Viewers /\ TypeOK /\ Far(c) = Other(c)
  BY Names, Kinds, FarSlot DEF TInv, NInv
<1>1. CASE DialOk(c)
  <2> DEFINE m == IF Coded(c) THEN "code" ELSE "wait"
  <2>1. Step(c, "dial", m) /\ m \in Labels \ Early
    BY <1>1 DEF DialOk, Labels, Early
  <2>2. pc[c] = "dial" /\ conn[c] = "none" /\ outcome[c] # "relay"
    BY <1>0, <1>1 DEF DialOk, Step, TInv, SocketsFollow, RelayEnds, Early, Ended
  <2>3. /\ \A w \in Threads : conn'[w] = IF w = c THEN "open" ELSE conn[w]
        /\ \A p \in Slots : slot'[p] = IF p = c THEN c ELSE slot[p]
        /\ outcome' = outcome /\ peer2' = peer2
    BY <1>0, <1>1 DEF DialOk, TypeOK, locals, history
  <2>4. \A v \in Viewers : pc'[v] = pc[v]
    BY <1>0, <1>1, Kinds DEF DialOk, Step, TypeOK
  <2>5. \A p \in Published2 : slot'[p] = slot[p]
    BY <2>3, Kinds
  <2>6. slot[c] # Nil => slot'[c] = slot[c]
    BY <2>3, <1>0 DEF TInv, SlotsFilled
  <2>7. Clients \subseteq Slots
    BY Names
  <2> HIDE DEF m
  <2>8. m \notin {"done", "relay"}
    BY DEF m
  <2> QED
    BY <1>0, <2>1, <2>2, <2>3, <2>4, <2>5, <2>6, <2>7, <2>8, TStep
<1>2. CASE DialFail(c)
  BY <1>0, <1>2, TPass DEF DialFail, Labels, Early, Ended, BeforeBind, locals, TypeOK
<1>3. CASE WriteCode(c) \/ HideCount(c) \/ HideSend(c)
  BY <1>0, <1>3, TPass
     DEF WriteCode, HideCount, HideSend, Labels, Early, Ended, BeforeBind, locals, history
<1>4. CASE ShowCount(c) \/ ShowRead(c) \/ ShowSend(c)
  BY <1>0, <1>4, TPass
     DEF ShowCount, ShowRead, ShowSend, Labels, Early, Ended, BeforeBind, locals, history
<1> QED
  BY <1>1, <1>2, <1>3, <1>4 DEF connectClient

LEMMA THandler ==
  ASSUME OneViewer, TInv, NInv', NEW v \in Viewers, localDataHandler(v) \/ Accept(v)
  PROVE  TInv'
<1>0. v \in Threads /\ v \notin Slots /\ TypeOK /\ \A w \in Viewers : w = v
  BY Kinds DEF OneViewer, TInv, NInv
<1>1. CASE SeekTick(v)
  BY <1>1 DEF SeekTick, TInv, SocketsFollow, SlotsFilled, RelayEnds, Far, Target, locals, history
<1>2. CASE SeekEnd(v) \/ Take1(v) \/ Clear1(v) \/ Clear2(v)
  BY <1>0, <1>2, TPass
     DEF SeekEnd, Take1, Clear1, Clear2, Labels, Early, Ended, BeforeBind, locals, history
<1>3. CASE Check(v)
  BY <1>0, <1>3, TPass DEF Check, Labels, Early, Ended, BeforeBind, locals, TypeOK
<1>4. CASE Take2(v)
  BY <1>0, <1>4, TPass DEF Take2, Labels, Early, Ended, BeforeBind, history, TypeOK
<1>5. CASE Bind(v)
  <2>1. Step(v, "bind", "wait") /\ pc[v] = "bind" /\ "wait" \in Labels \ Early
    BY <1>5 DEF Bind, Step, Labels, Early
  <2>2. peer1[v] \in Published2 /\ peer1[v] \in Slots /\ peer1[v] \notin Clients
    BY <1>5, Kinds DEF Bind, TInv, NInv, PairWhole
  <2>3. \A p \in Slots : slot'[p] = IF p = peer1[v] THEN v ELSE slot[p]
    BY <1>0, <1>5 DEF Bind, TypeOK
  <2>4. slot[peer1[v]] = Nil
    BY <2>1, <2>2 DEF TInv, SlotsFilled, BeforeBind
  <2>5. conn' = conn /\ outcome' = outcome /\ peer2' = peer2
    BY <1>5 DEF Bind, locals, history
  <2>6. pc'[v] = "wait"
    BY <1>0, <1>5 DEF Bind, Step, TypeOK
  <2>7. outcome[v] # "relay"
    BY <1>0, <2>1 DEF TInv, RelayEnds, Ended
  <2>8. \A w \in Viewers : pc'[w] \notin BeforeBind
    BY <1>0, <2>6 DEF BeforeBind
  <2>9. Clients \subseteq Slots
    BY Names
  <2> QED
    BY <1>0, <2>1, <2>2, <2>3, <2>4, <2>5, <2>7, <2>8, <2>9, TStep
<1>6. CASE Accept(v)
  <2>1. Step(v, "idle", "seek") /\ pc[v] = "idle" /\ "seek" \in Labels \ Early
    BY <1>6 DEF Accept, Step, Labels, Early
  <2>2. \A w \in Threads : conn'[w] = IF w = v THEN "open" ELSE conn[w]
    BY <1>0, <1>6 DEF Accept, TypeOK
  <2>3. slot' = slot /\ outcome' = outcome /\ peer2' = peer2
    BY <1>6 DEF Accept, locals, history
  <2>4. conn[v] = "none" /\ outcome[v] # "relay"
    BY <1>0, <2>1 DEF TInv, SocketsFollow, RelayEnds, Early, Ended
  <2>5. \A w \in Viewers : pc[w] \in BeforeBind
    BY <1>0, <2>1 DEF BeforeBind
  <2> QED
    BY <1>0, <2>1, <2>2, <2>3, <2>4, <2>5, TStep
<1> QED
  BY <1>1, <1>2, <1>3, <1>4, <1>5, <1>6 DEF localDataHandler

(* The goroutine closes what is in its slot, which is open or closed.      *)
LEMMA TStopRelay ==
  ASSUME TInv, NInv', NEW t \in Threads, StopRelay(t)
  PROVE  TInv'
<1>0. TypeOK /\ pc[t] = "relay" /\ outcome[t] = "relay"
  BY DEF StopRelay, Step, TInv, NInv, RelayEnds
<1>1. slot' = slot /\ peer2' = peer2 /\ outcome' = outcome
  BY DEF StopRelay, locals, history
<1>2. /\ Far(t)' = Far(t) /\ Far(t) # Nil
      /\ Target(t)' = Target(t) /\ Target(t) \in Threads /\ Target(t) # Nil
      /\ pc[Target(t)] \notin Early
  BY <1>0, <1>1, RelayKept
<1>3. \A w \in Threads : conn'[w] = IF w = Target(t) THEN "closed" ELSE conn[w]
  BY <1>0, <1>2 DEF StopRelay, TypeOK
<1>4. Step(t, "relay", Leave(t)) /\ Leave(t) \in {"show", "close"}
  BY DEF StopRelay, Leave
<1>5. \A v \in Viewers : pc'[v] \in BeforeBind => pc[v] \in BeforeBind
  BY <1>0, <1>4, Names DEF Step, TypeOK, BeforeBind
<1>6. Leave(t) \in (Labels \ Early) \cap Ended /\ Leave(t) \notin {"done", "relay"}
  BY <1>4 DEF Labels, Early, Ended
<1> QED
  BY <1>1, <1>2, <1>3, <1>4, <1>5, <1>6, TStep

LEMMA TRelay ==
  ASSUME TInv, NInv', NEW t \in Threads, relay(t) \/ RelayBroken(t)
  PROVE  TInv'
<1>0. TypeOK
  BY DEF TInv, NInv
<1>1. CASE WaitTick(t)
  BY <1>1 DEF WaitTick, TInv, SocketsFollow, SlotsFilled, RelayEnds, Far, Target, locals, history
<1>2. CASE WaitFound(t)
  <2>1. /\ Step(t, "wait", "relay") /\ pc[t] = "wait" /\ Far(t) # Nil /\ Target(t) # Nil
        /\ conn' = conn /\ slot' = slot /\ peer2' = peer2
    BY <1>2 DEF WaitFound, Waiting, locals
  <2>2. \A u \in Threads : outcome'[u] = IF u = t THEN "relay" ELSE outcome[u]
    BY <1>0, <1>2 DEF WaitFound, TypeOK
  <2>3. Far(t)' # Nil /\ Target(t)' # Nil
    BY <2>1 DEF Far, Target
  <2>4. \A v \in Viewers : pc'[v] \in BeforeBind => pc[v] \in BeforeBind
    BY <1>0, <2>1, Names DEF Step, TypeOK, BeforeBind
  <2>5. "relay" \in Labels \ Early
    BY DEF Labels, Early
  <2> QED
    BY <2>1, <2>2, <2>3, <2>4, <2>5, TStep
<1>3. CASE WaitTimeout(t)
  BY <1>0, <1>3, TPass
     DEF WaitTimeout, Leave, Labels, Early, Ended, BeforeBind, locals, TypeOK
<1>4. CASE StopRelay(t)
  BY <1>4, TStopRelay
<1>5. CASE Close(t)
  <2>1. Step(t, "close", "done") /\ pc[t] = "close" /\ "done" \in Labels \ Early
    BY <1>5 DEF Close, Step, Labels, Early
  <2>2. \A w \in Threads : conn'[w] = IF w = t THEN "closed" ELSE conn[w]
    BY <1>0, <1>5 DEF Close, TypeOK
  <2>3. slot' = slot /\ outcome' = outcome /\ peer2' = peer2
    BY <1>5 DEF Close, locals, history
  <2>4. \A v \in Viewers : pc'[v] \in BeforeBind => pc[v] \in BeforeBind
    BY <1>0, <2>1, Names DEF Step, TypeOK, BeforeBind
  <2>5. ASSUME outcome'[t] = "relay"
        PROVE  Far(t)' # Nil /\ Target(t)' # Nil /\ conn'[Target(t)'] = "closed"
    BY <2>1, <2>2, <2>3, <2>5, RelayKept
  <2> QED
    BY <2>1, <2>2, <2>3, <2>4, <2>5, TStep DEF Ended
<1> QED
  BY <1>1, <1>2, <1>3, <1>4, <1>5 DEF relay, RelayEof, RelayBroken

(* Goroutines that start, or publish a slot, have opened nothing.          *)
LEMMA TStart ==
  ASSUME TInv, NInv', NEW s \in Sessions, NEW ready \in BOOLEAN,
         processConnect(s, ready) \/ (s \in Guests /\ connectServer1(s))
  PROVE  TInv'
<1>0. /\ TypeOK /\ <<s, 1>> \in Slots /\ <<s, 2>> \in Slots
      /\ <<s, 1>> \in Threads /\ <<s, 2>> \in Threads
  BY Names, Kinds DEF TInv, NInv
<1>1. conn' = conn /\ slot' = slot /\ peer2' = peer2
  BY DEF processConnect, connectServer1, locals
<1>2. \A u \in Threads : u \notin {<<s, 1>>, <<s, 2>>} => pc'[u] = pc[u] /\ outcome'[u] = outcome[u]
  BY <1>0 DEF processConnect, connectServer1, Step, TypeOK, history
<1>3. \A i \in {1, 2} : pc[<<s, i>>] \in Early \/ (pc'[<<s, i>>] = pc[<<s, i>>] /\ outcome'[<<s, i>>] = outcome[<<s, i>>])
  BY <1>0 DEF processConnect, connectServer1, Step, TypeOK, TInv, SlotsFilled, Early, history
<1>4. \A i \in {1, 2} : pc[<<s, i>>] \in Early =>
        pc'[<<s, i>>] \in Early \cup {"done"} /\ outcome'[<<s, i>>] # "relay"
  <2>1. \A i \in {1, 2} : pc[<<s, i>>] \in Early => outcome[<<s, i>>] # "relay"
    BY <1>0 DEF TInv, RelayEnds, Early, Ended
  <2>2. CASE processConnect(s, ready)
    BY <1>0, <2>1, <2>2 DEF processConnect, TypeOK, Early
  <2>3. CASE s \in Guests /\ connectServer1(s)
    BY <1>0, <2>1, <2>3 DEF connectServer1, Step, TypeOK, Early, history
  <2> QED
    BY <2>2, <2>3
<1>5. /\ pc'[<<s, 1>>] = "idle" => pc'[<<s, 2>>] = "idle"
      /\ \A z \in Sessions : z # s => pc'[<<z, 1>>] = pc[<<z, 1>>] /\ pc'[<<z, 2>>] = pc[<<z, 2>>]
  <2>1. \A z \in Sessions : <<z, 1>> \in Threads /\ <<z, 2>> \in Threads
    BY Names
  <2>2. CASE processConnect(s, ready)
    BY <1>0, <2>1, <2>2 DEF processConnect, TypeOK
  <2>3. CASE s \in Guests /\ connectServer1(s)
    BY <1>0, <2>1, <2>3 DEF connectServer1, Step, TypeOK, TInv, SlotsFilled
  <2> QED
    BY <2>2, <2>3
<1>6. \A u \in Threads :
        \/ pc'[u] = pc[u] /\ outcome'[u] = outcome[u]
        \/ pc[u] \in Early /\ pc'[u] \in Early \cup {"done"} /\ outcome'[u] # "relay"
  BY <1>2, <1>3, <1>4
<1>7. SocketsFollow'
  BY <1>1, <1>6 DEF TInv, SocketsFollow, Early
<1>8. SlotsFilled'
  <2>1. \A p \in Slots : slot[p] # Nil => slot[p] \in Threads
    BY <1>0 DEF TypeOK
  <2>2. \A p \in Slots : slot'[p] # Nil => pc'[slot'[p]] \notin Early
    BY <1>1, <1>6, <2>1 DEF TInv, SlotsFilled
  <2>3. \A v \in Viewers : pc'[v] = pc[v]
    BY <1>0, <1>2, Kinds
  <2>4. \A z \in Sessions : pc'[<<z, 1>>] = "idle" => pc'[<<z, 2>>] = "idle"
    BY <1>5 DEF TInv, SlotsFilled
  <2> QED
    BY <1>1, <2>2, <2>3, <2>4 DEF TInv, SlotsFilled
<1>9. RelayEnds'
  BY <1>1, <1>6 DEF TInv, RelayEnds, Far, Target, Early
<1> QED
  BY <1>7, <1>8, <1>9 DEF TInv

(* Nothing but connections that were open changes.                         *)
LEMMA TRemote ==
  ASSUME TInv, NInv', UNCHANGED <<pc, slot, peer2, outcome>>,
         \A w \in Threads : conn'[w] = conn[w] \/ conn[w] = "open"
  PROVE  TInv'
<1>1. SocketsFollow'
  BY DEF TInv, SocketsFollow, Early
<1>2. SlotsFilled'
  BY DEF TInv, SlotsFilled
<1>3. RelayEnds'
  <2> SUFFICES ASSUME NEW u \in Threads, outcome[u] = "relay"
               PROVE  Far(u)' # Nil /\ Target(u)' # Nil
                      /\ (pc[u] # "relay" => conn'[Target(u)'] = "closed")
    BY DEF TInv, RelayEnds
  <2> QED
    BY RelayKept
<1> QED
  BY <1>1, <1>2, <1>3 DEF TInv

LEMMA NextTInv ==
  ASSUME OneViewer
  PROVE  TInv /\ [Next]_vars => TInv'
<1> SUFFICES ASSUME TInv, [Next]_vars
             PROVE  TInv'
  OBVIOUS
<1>0. NInv' /\ TypeOK
  BY NextNInv DEF TInv, NInv
<1>1. ASSUME UNCHANGED <<pc, conn, slot, peer2, outcome>>
      PROVE  TInv'
  BY <1>0, <1>1, TRemote
<1>2. ASSUME NEW c \in Clients, connectClient(c) \/ DialPanic(c)
      PROVE  TInv'
  BY <1>0, <1>1, <1>2, TClient DEF DialPanic, Panic, locals, history
<1>3. ASSUME NEW s \in Guests, connectServer1(s) \/ connectServer2(s)
      PROVE  TInv'
  <2>1. CASE connectServer1(s)
    BY <1>0, <2>1, Names, TStart
  <2>2. CASE connectServer2(s)
    <3>1. <<s, 2>> \in Threads
      BY Names
    <3> QED
      BY <1>0, <2>2, <3>1, TPass
         DEF connectServer2, Labels, Early, Ended, BeforeBind, locals, history
  <2> QED
    BY <1>3, <2>1, <2>2
<1>4. ASSUME NEW v \in Viewers, localDataHandler(v) \/ NilPeerPanic(v) \/ Accept(v)
      PROVE  TInv'
  BY <1>0, <1>1, <1>4, THandler DEF NilPeerPanic, Panic, locals, history
<1>5. ASSUME NEW t \in Threads, relay(t) \/ RelayBroken(t)
      PROVE  TInv'
  BY <1>0, <1>5, TRelay
<1>6. CASE Environment
  <2>1. ASSUME NEW s \in Sessions, NEW ready \in BOOLEAN, processConnect(s, ready)
        PROVE  TInv'
    BY <1>0, <2>1, TStart
  <2>2. ASSUME NEW t \in Threads, RemoteClose(t)
        PROVE  TInv'
    BY <1>0, <2>2, TRemote DEF RemoteClose, TypeOK, locals, history
  <2>3. CASE Dial \/ Connected \/ TerminateMe \/ Exit
    BY <1>1, <2>3 DEF Dial, Connected, TerminateMe, Exit, locals, history
  <2> QED
    BY <1>4, <1>6, <2>1, <2>2, <2>3 DEF Environment, Ready
<1>7. CASE UNCHANGED vars
  BY <1>1, <1>7 DEF vars, locals, history
<1> QED
  BY <1>2, <1>3, <1>4, <1>5, <1>6, <1>7 DEF Next

(* While a single viewer connects, a goroutine that ended left no socket   *)
(* open, and one that relayed took the connection it wrote to down with    *)
(* it, for any number of visits served and watched, proxy or not.          *)
THEOREM TornDownAlone ==
  ASSUME OneViewer
  PROVE  Spec => []TornDown
<1>1. TInv => TornDown
  BY DEF TInv, SocketsFollow, RelayEnds, TornDown
<1>2. TInv /\ [Next]_vars => TInv'
  BY NextTInv
<1> QED
  BY <1>1, <1>2, InitTInv, PTL DEF Spec
=============================================================================
