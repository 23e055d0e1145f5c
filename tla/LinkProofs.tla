----------------------------- MODULE LinkProofs -----------------------------
(***************************************************************************)
(* Theorems about Link, for every set of goroutines that handle messages,  *)
(* every message, proxy and error, every queue and number of tries.        *)
(***************************************************************************)
EXTENDS Link, FiniteSetTheorems, TLAPS

(* Where MainClient is says which sockets are open: none before the dial,  *)
(* the one that waits for CONNECT, or myClient.Conn as long as nobody has  *)
(* closed it.  The one that a proxy left behind stays.                     *)
Opened ==
  /\ mc \in {"check", "dial", "gone"} => conn = 0 /\ fds = {}
  /\ mc \in {"connect", "hungUp"} => conn = 0 /\ \E s \in Sockets : fds = {s}
  /\ mc \in {"read", "close"} => conn \in Sockets /\ fds \subseteq {conn}
  /\ mc = "forget" => conn \in Sockets /\ fds = {}

(* A listener that goes on has tries left; one that has left its loop ran  *)
(* out of them or saw a reload.                                            *)
Counted ==
  \A l \in Listeners :
    /\ lpc[l] \in {"listen", "publish", "accept", "close"} => tries[l] < MaxTries
    /\ lpc[l] = "end" => reload \/ failed \/ tries[l] = MaxTries

LInv == TypeOK /\ Opened /\ Counted /\ GivesUpLate

LEMMA InitLInv == Init => LInv
<1> SUFFICES ASSUME Init PROVE LInv
  OBVIOUS
<1>1. TypeOK
  <2>1. 0 \in 0 .. MaxTries
    BY LimitsAssumption
  <2>2. /\ pc \in [Handlers -> {"idle", "look", "close", "Thread", "DataThread", "start", "exit"}]
        /\ then \in [Handlers -> {"idle", "Thread"}]
        /\ lpc \in [Listeners ->
             {"check", "listen", "publish", "accept", "close", "end", "stopped"}]
        /\ tries \in [Listeners -> 0 .. MaxTries]
        /\ published \in [Listeners -> BOOLEAN]
    BY <2>1 DEF Init
  <2> QED
    BY <2>2 DEF Init, TypeOK, Ports
<1>2. Opened /\ Counted /\ GivesUpLate
  BY DEF Init, Opened, Counted, GivesUpLate
<1> QED
  BY <1>1, <1>2 DEF LInv

(* MainClient and its peers touch its connection only.                     *)
LEMMA MainClientKeeps ==
  ASSUME LInv, MainClientStep \/ PeerActs
  PROVE  LInv'
<1>1. UNCHANGED <<process, reload, proxy, handler, listener, held, instance>>
  BY DEF MainClientStep, PeerActs
<1>2. Counted' /\ GivesUpLate'
  BY <1>1 DEF LInv, Counted, GivesUpLate, listener, instance
<1>3. /\ mc' \in {"check", "dial", "connect", "read", "close", "forget", "gone", "hungUp"}
      /\ conn' \in {0} \cup Sockets /\ fds' \subseteq Sockets /\ Opened'
  BY DEF MainClientStep, PeerActs, LInv, TypeOK, Opened, Sockets, At, AfterLoss, KeepsSocket,
         LeaveLoop, Round, ProxyPanics, DialFails, Connects, ProxyDial, ReadClosed, Closes,
         Forgets, PeerDrops, Established, Refused, ProxyHangsUp
<1> QED
  BY <1>1, <1>2, <1>3 DEF LInv, TypeOK, handler, listener, instance

(* A listener counts its tries and gives up when none is left.             *)
LEMMA ListenerKeeps ==
  ASSUME LInv, NEW l \in Listeners, Thread(l) \/ AcceptFails(l)
  PROVE  LInv'
<1>1. UNCHANGED <<reload, proxy, client, handler, instance>>
  BY DEF Thread, AcceptFails
<1>2. Opened'
  BY <1>1 DEF LInv, Opened, client
<1>3. CASE LCheck(l)
  BY <1>1, <1>2, <1>3, LimitsAssumption
     DEF LInv, TypeOK, Counted, GivesUpLate, LCheck, LAt, Tries, client, handler, instance
<1>4. CASE Listen(l)
  BY <1>1, <1>2, <1>4
     DEF LInv, TypeOK, Counted, GivesUpLate, Listen, LAt, Ports, client, handler, instance
<1>5. CASE PortTaken(l)
  BY <1>1, <1>2, <1>5
     DEF LInv, TypeOK, Counted, GivesUpLate, PortTaken, client, handler, instance, listener
<1>6. CASE Publish(l)
  BY <1>1, <1>2, <1>6
     DEF LInv, TypeOK, Counted, GivesUpLate, Publish, LAt, client, handler, instance
<1>7. CASE AcceptEnds(l) \/ AcceptFails(l)
  BY <1>1, <1>2, <1>7
     DEF LInv, TypeOK, Counted, GivesUpLate, AcceptEnds, AcceptFails, LAt,
         client, handler, instance
<1>8. CASE LClose(l)
  BY <1>1, <1>2, <1>8, LimitsAssumption
     DEF LInv, TypeOK, Counted, GivesUpLate, LClose, LAt, client, handler, instance
<1>9. CASE GiveUp(l)
  BY <1>1, <1>2, <1>9
     DEF LInv, TypeOK, Counted, GivesUpLate, GiveUp, MayGiveUp, client, handler, instance, listener
<1>10. CASE Stop(l)
  BY <1>1, <1>2, <1>10
     DEF LInv, TypeOK, Counted, GivesUpLate, Stop, LAt, client, handler, instance
<1> QED
  BY <1>3, <1>4, <1>5, <1>6, <1>7, <1>8, <1>9, <1>10 DEF Thread

(* A message starts a handler; a reload is all it may say to the others.   *)
LEMMA ReceiveKeeps ==
  ASSUME LInv, NEW h \in Handlers, Receive(h)
  PROVE  LInv'
<1>1. \E next \in {"idle", "Thread"} : takeQ(h, next)
  BY DEF Receive, processDeauth, processLocalProxy, ReloadMe
<1>2. /\ reload' \in {TRUE, reload} /\ proxy' \in Proxies \cup {"none"}
      /\ reload => reload'
  BY DEF Receive, processDeauth, processLocalProxy, ReloadMe, LInv, TypeOK
<1>3. UNCHANGED <<process, client, listener, held, instance>>
  BY <1>1 DEF takeQ
<1>4. TypeOK'
  <2>1. /\ pc' \in [Handlers -> {"idle", "look", "close", "Thread", "DataThread", "start", "exit"}]
        /\ then' \in [Handlers -> {"idle", "Thread"}]
    BY <1>1 DEF LInv, TypeOK, takeQ
  <2> QED
    BY <1>2, <1>3, <2>1 DEF LInv, TypeOK, client, listener, instance
<1>5. Opened' /\ Counted' /\ GivesUpLate'
  BY <1>2, <1>3 DEF LInv, TypeOK, Opened, Counted, GivesUpLate, client, listener, instance
<1> QED
  BY <1>4, <1>5 DEF LInv

(* A handler may close the socket under MainClient and take a reload back. *)
LEMMA HandleKeeps ==
  ASSUME LInv, NEW h \in Handlers, Handle(h)
  PROVE  LInv'
<1>1. UNCHANGED <<proxy, mc, conn, listener>>
  BY DEF Handle
<1>2. \/ reload' = reload /\ failed' = failed
      \/ reload' = FALSE /\ failed' = TRUE
  <2>1. CASE StartNew(h) \/ StartFails(h)
    BY <2>1 DEF StartNew, StartFails
  <2>2. CASE \E l \in Listeners : CloseServ(h, l)
    BY <2>2 DEF CloseServ, instance
  <2>3. CASE Look(h) \/ CloseConn(h) \/ NilConn(h) \/ Exit(h)
    BY <2>3 DEF Look, CloseConn, NilConn, Exit, instance
  <2> QED
    BY <2>1, <2>2, <2>3 DEF Handle
<1>3. process' = process \/ process' \in {"panicked", "left"}
  BY DEF Handle, Look, CloseConn, NilConn, CloseServ, StartNew, StartFails, Exit, HAt
<1>4. fds' = fds \/ (conn # 0 /\ fds' = fds \ {conn})
  BY DEF Handle, Look, CloseConn, NilConn, CloseServ, StartNew, StartFails, Exit
<1>5. held' \subseteq held /\ child' \in {child, "boots"} /\ bound' = bound
  BY DEF Handle, Look, CloseConn, NilConn, CloseServ, StartNew, StartFails, Exit, instance
<1>6. pc' \in [Handlers -> {"idle", "look", "close", "Thread", "DataThread", "start", "exit"}]
  <2>1. then[h] \in {"idle", "Thread"}
    BY DEF LInv, TypeOK
  <2>2. \/ pc' = pc
        \/ \E b \in {"idle", "close", "Thread", "DataThread", "start", "exit"} :
             pc' = [pc EXCEPT ![h] = b]
    BY <2>1 DEF Handle, Look, CloseConn, NilConn, CloseServ, StartNew, StartFails, Exit, HAt,
                AfterStart
  <2> QED
    BY <2>2 DEF LInv, TypeOK
<1>7. then' \in [Handlers -> {"idle", "Thread"}]
  BY DEF LInv, TypeOK, Handle
<1>8. TypeOK'
  <2>1. reload' \in BOOLEAN /\ failed' \in BOOLEAN
    BY <1>2 DEF LInv, TypeOK
  <2>2. /\ process' \in {"up", "left", "gaveUp", "panicked"}
        /\ fds' \subseteq Sockets /\ held' \subseteq Ports
        /\ child' \in {"none", "boots", "panicked"} /\ bound' \subseteq Ports
    BY <1>3, <1>4, <1>5 DEF LInv, TypeOK
  <2>3. UNCHANGED <<proxy, mc, conn, lpc, tries, published>>
    BY <1>1 DEF listener
  <2> QED
    BY <1>6, <1>7, <2>1, <2>2, <2>3 DEF LInv, TypeOK
<1>9. Opened'
  BY <1>1, <1>4 DEF LInv, Opened, TypeOK, Sockets
<1>10. Counted' /\ GivesUpLate'
  BY <1>1, <1>2, <1>3 DEF LInv, TypeOK, Counted, GivesUpLate, listener
<1> QED
  BY <1>8, <1>9, <1>10 DEF LInv

LEMMA NextLInv == LInv /\ [Next]_vars => LInv'
<1> SUFFICES ASSUME LInv, [Next]_vars
             PROVE  LInv'
  OBVIOUS
<1>1. ASSUME NEW p \in Ports, Bind(p) \/ BindPanics(p)
      PROVE  LInv'
  BY <1>1 DEF Bind, BindPanics, LInv, TypeOK, Opened, Counted, GivesUpLate, client, handler,
              listener
<1>2. CASE UNCHANGED vars
  BY <1>2 DEF vars, LInv, TypeOK, Opened, Counted, GivesUpLate, client, handler, listener,
              instance
<1> QED
  BY <1>1, <1>2, MainClientKeeps, ListenerKeeps, ReceiveKeeps, HandleKeeps
     DEF Next, NewInstance

(* The state of the link stays among the values the code gives it.         *)
THEOREM TypeCorrect == Spec => []TypeOK
<1>1. LInv => TypeOK
  BY DEF LInv
<1> QED
  BY <1>1, InitLInv, NextLInv, PTL DEF Spec

(* Whoever closes the connection to the server and whenever it breaks,     *)
(* MainClient leaves no socket open behind it, but the one of a proxy that *)
(* hung up (processor/main.go:52-169, proxy/main.go:90).                   *)
THEOREM NoSocketLost == Spec => []NoOrphan
<1>1. LInv => NoOrphan
  <2> SUFFICES ASSUME LInv PROVE NoOrphan
    OBVIOUS
  <2>1. \A s : Cardinality({s}) = 1
    BY FS_Singleton
  <2>2. CASE mc \in {"connect", "hungUp"}
    BY <2>1, <2>2 DEF LInv, Opened, NoOrphan
  <2>3. CASE mc \notin {"connect", "hungUp"}
    BY <2>3 DEF LInv, TypeOK, Opened, NoOrphan, Sockets
  <2> QED
    BY <2>2, <2>3
<1> QED
  BY <1>1, InitLInv, NextLInv, PTL DEF Spec

(* The process quits for want of a listener only after WaitCountRestartSrv *)
(* tries, or when a reload took its flag back (processor/main.go:199, 302).*)
THEOREM GivesUpOnlyLate == Spec => []GivesUpLate
<1>1. LInv => GivesUpLate
  BY DEF LInv
<1> QED
  BY <1>1, InitLInv, NextLInv, PTL DEF Spec
=============================================================================
