-------------------------------- MODULE Link --------------------------------
(***************************************************************************)
(* The goroutines that keep the communicator reachable, and the handlers   *)
(* that cut them off: MainClient (the server's connection), Thread and     *)
(* DataThread (the listeners for panels and viewers), processDeauth,       *)
(* processLocalProxy and ReloadMe.  They meet in myClient.Conn,            *)
(* myClient.LocalServ, myClient.DataServ and Flags.Reload, which have no   *)
(* lock.  What a visit does with its sockets is in Visit.                  *)
(***************************************************************************)
EXTENDS Integers, FiniteSets

CONSTANTS
  Handlers,     \* goroutines that run a handler of processing, localProcessing
  Kinds,        \* the messages that come: "deauth", "proxy", "reload"
  Proxies,      \* what a panel may set: "none", "good", "unknown", "unparsed"
  Starts,       \* whether startProcess may succeed, fail (on Linux it always does)
  Errors,       \* whether peers drop connections and Accept fails by itself
  QLimit,       \* qLimit
  MaxTries      \* WaitCountRestartSrv

ASSUME KindsAssumption == Kinds \subseteq {"deauth", "proxy", "reload"}
ASSUME StartsAssumption == Starts \subseteq BOOLEAN
ASSUME LimitsAssumption == QLimit \in Nat \ {0} /\ MaxTries \in Nat \ {0}

VARIABLES
  process,      \* the process: up, or how it ended
  reload,       \* Flags.Reload
  proxy,        \* Options.Proxy
  mc,           \* where MainClient is
  conn,         \* myClient.Conn: 0 is nil
  fds,          \* the sockets to the server this process holds open
  pc, then,     \* where a handler is, and after the server's connection
  lpc, tries,   \* where Thread and DataThread are, and their "count"
  published,    \* whether myClient.LocalServ, DataServ is the listener in use
  held,         \* the ports this process listens on
  child, bound, \* the instance ReloadMe started, the ports it listens on
  failed        \* startProcess has failed before

client == <<mc, conn, fds>>
handler == <<pc, then>>
listener == <<lpc, tries, published>>
instance == <<child, bound, failed>>
vars == <<process, reload, proxy, client, handler, listener, held, instance>>

Listeners == {"Thread", "DataThread"}
Ports == Listeners \cup {"web"}
Sockets == 1 .. 2

TypeOK ==
  /\ process \in {"up", "left", "gaveUp", "panicked"}
  /\ reload \in BOOLEAN
  /\ proxy \in Proxies \cup {"none"}
  /\ mc \in {"check", "dial", "connect", "read", "close", "forget", "gone", "hungUp"}
  /\ conn \in {0} \cup Sockets
  /\ fds \subseteq Sockets
  /\ pc \in [Handlers -> {"idle", "look", "close", "Thread", "DataThread", "start", "exit"}]
  /\ then \in [Handlers -> {"idle", "Thread"}]
  /\ lpc \in [Listeners ->
       {"check", "listen", "publish", "accept", "close", "end", "stopped"}]
  /\ tries \in [Listeners -> 0 .. MaxTries]
  /\ published \in [Listeners -> BOOLEAN]
  /\ held \subseteq Ports
  /\ child \in {"none", "boots", "panicked"}
  /\ bound \subseteq Ports
  /\ failed \in BOOLEAN

Init ==
  /\ process = "up"
  /\ reload = FALSE
  /\ proxy = "none"
  /\ mc = "check" /\ conn = 0 /\ fds = {}
  /\ pc = [h \in Handlers |-> "idle"]
  /\ then = [h \in Handlers |-> "idle"]
  /\ lpc = [l \in Listeners |-> "check"]
  /\ tries = [l \in Listeners |-> 0]
  /\ published = [l \in Listeners |-> FALSE]
  /\ held = {"web"}
  /\ child = "none" /\ bound = {}
  /\ failed = FALSE

-----------------------------------------------------------------------------
(* MainClient, main.go:52-169.                                             *)
At(l, m) == process = "up" /\ mc = l /\ mc' = m

LeaveLoop == At("check", "gone") /\ reload /\ UNCHANGED <<conn, fds>>
Round == At("check", "dial") /\ ~reload /\ UNCHANGED <<conn, fds>>

(* A proxy text that url.Parse refuses gives FromURL a nil URL: it panics, *)
(* and recoverMainClient ends the goroutine.  An unknown scheme is retried.*)
FatalProxiesAll == {"unknown", "unparsed"}                \* mutant: no "continue"
FatalProxies == {"unparsed"}

ProxyPanics == At("dial", "gone") /\ proxy \in FatalProxies /\ UNCHANGED <<conn, fds>>
DialFails == At("dial", "check") /\ proxy \notin FatalProxies /\ UNCHANGED <<conn, fds>>

Connects ==
  /\ At("dial", "read")
  /\ proxy = "none"
  /\ \E s \in Sockets \ fds :
       /\ conn' = s
       /\ fds' = fds \cup {s}

(* httpProxy.Dial: a socket to the proxy, CONNECT written, and a wait for  *)
(* the answer that has no limit; only then is it myClient.Conn.            *)
ProxyDial ==
  /\ At("dial", "connect")
  /\ proxy = "good"
  /\ \E s \in Sockets \ fds : fds' = fds \cup {s}
  /\ UNCHANGED conn

Established == At("connect", "read") /\ conn' \in fds /\ UNCHANGED fds

Refused ==
  /\ At("connect", "check")
  /\ \E s \in fds : fds' = fds \ {s}
  /\ UNCHANGED conn

(* Without an answer there is no response whose body could be closed: Dial *)
(* panics, and recoverMainClient was given the nil of MainClient's start.  *)
ProxyHangsUp == Errors /\ At("connect", "hungUp") /\ UNCHANGED <<conn, fds>>

ReadClosed == At("read", "close") /\ conn \notin fds /\ UNCHANGED <<conn, fds>>
PeerDrops == Errors /\ At("read", "close") /\ UNCHANGED <<conn, fds>>

KeepsSocketOpen(s) == s \in fds                           \* mutant: no Close
KeepsSocket(s) == FALSE
Closes ==
  /\ At("close", "forget")
  /\ fds' = {s \in fds : s # conn \/ KeepsSocket(s)}
  /\ UNCHANGED conn

AfterLossReturn == "gone"                                 \* mutant: return, not break
AfterLoss == "check"
Forgets == At("forget", AfterLoss) /\ conn' = 0 /\ UNCHANGED fds

MainClientStep ==
  /\ LeaveLoop \/ Round \/ ProxyPanics \/ DialFails
     \/ Connects \/ ProxyDial \/ ReadClosed \/ Closes \/ Forgets
  /\ UNCHANGED <<process, reload, proxy, handler, listener, held, instance>>

PeerActs ==
  /\ PeerDrops \/ Established \/ Refused \/ ProxyHangsUp
  /\ UNCHANGED <<process, reload, proxy, handler, listener, held, instance>>

-----------------------------------------------------------------------------
(* Thread and DataThread, main.go:171-203 and 274-306.                     *)
LAt(l, a, b) == process = "up" /\ lpc[l] = a /\ lpc' = [lpc EXCEPT ![l] = b]

TriesAgain(l) == tries[l] <= MaxTries                     \* mutant: one too many
Tries(l) == tries[l] < MaxTries
LCheck(l) ==
  /\ LAt(l, "check", IF Tries(l) /\ ~reload THEN "listen" ELSE "end")
  /\ UNCHANGED <<process, tries, published, held>>

Listen(l) ==
  /\ l \notin held \cup bound
  /\ LAt(l, "listen", "publish")
  /\ held' = held \cup {l}
  /\ published' = [published EXCEPT ![l] = FALSE]
  /\ UNCHANGED <<process, tries>>

PortTaken(l) ==
  /\ process = "up" /\ lpc[l] = "listen"
  /\ l \in held \cup bound
  /\ process' = "panicked"
  /\ held' = {}
  /\ UNCHANGED listener

Publish(l) ==
  /\ LAt(l, "publish", "accept")
  /\ published' = [published EXCEPT ![l] = TRUE]
  /\ UNCHANGED <<process, tries, held>>

AcceptEnds(l) ==
  /\ l \notin held
  /\ LAt(l, "accept", "close")
  /\ UNCHANGED <<process, tries, published, held>>

LClose(l) ==
  /\ LAt(l, "close", "check")
  /\ held' = held \ {l}
  /\ tries' = [tries EXCEPT ![l] = @ + 1]
  /\ UNCHANGED <<process, published>>

MayGiveUpAlways == TRUE                                   \* mutant: exits on a reload
MayGiveUp == ~reload
GiveUp(l) ==
  /\ process = "up" /\ lpc[l] = "end"
  /\ MayGiveUp
  /\ process' = "gaveUp"
  /\ held' = {}
  /\ UNCHANGED listener

Stop(l) ==
  /\ ~MayGiveUp
  /\ LAt(l, "end", "stopped")
  /\ UNCHANGED <<process, tries, published, held>>

Thread(l) ==
  /\ \/ LCheck(l) \/ Listen(l) \/ PortTaken(l) \/ Publish(l)
     \/ AcceptEnds(l) \/ LClose(l) \/ GiveUp(l) \/ Stop(l)
  /\ UNCHANGED <<reload, proxy, client, handler, instance>>

AcceptFails(l) ==
  /\ Errors
  /\ LAt(l, "accept", "close")
  /\ UNCHANGED <<process, tries, published, held, reload, proxy, client, handler, instance>>

-----------------------------------------------------------------------------
(* A handler runs once takeQ found a place in the queue; the message is    *)
(* dropped when it waits for one in vain.                                  *)
takeQ(h, next) ==
  /\ process = "up"
  /\ pc[h] = "idle"
  /\ Cardinality({k \in Handlers : pc[k] # "idle"}) < QLimit
  /\ pc' = [pc EXCEPT ![h] = "look"]
  /\ then' = [then EXCEPT ![h] = next]
  /\ UNCHANGED <<process, client, listener, held, instance>>

(* The server talks on its connection; a panel on one that was accepted,   *)
(* which the end of the listener does not close.                           *)
FromServer == mc = "read"
FromPanel == lpc["Thread"] = "accept" \/ tries["Thread"] > 0

processDeauth(h) == FromServer /\ takeQ(h, "idle") /\ UNCHANGED <<reload, proxy>>

processLocalProxy(h) ==
  /\ FromPanel
  /\ takeQ(h, "idle")
  /\ proxy' \in Proxies
  /\ UNCHANGED reload

ReloadMe(h) ==
  /\ FromServer \/ FromPanel
  /\ takeQ(h, "Thread")
  /\ reload' = TRUE
  /\ UNCHANGED proxy

Receive(h) ==
  \/ "deauth" \in Kinds /\ processDeauth(h)
  \/ "proxy" \in Kinds /\ processLocalProxy(h)
  \/ "reload" \in Kinds /\ ReloadMe(h)

-----------------------------------------------------------------------------
HAt(h, a, b) == process = "up" /\ pc[h] = a /\ pc' = [pc EXCEPT ![h] = b]

(* The connection is looked at and then fetched again to be closed.        *)
Seen == conn # 0
Look(h) ==
  /\ HAt(h, "look", IF Seen THEN "close" ELSE then[h])
  /\ UNCHANGED <<process, reload, fds, held, instance>>

CloseConn(h) ==
  /\ conn # 0
  /\ HAt(h, "close", then[h])
  /\ fds' = fds \ {conn}
  /\ UNCHANGED <<process, reload, held, instance>>

NilConn(h) ==
  /\ process = "up" /\ pc[h] = "close"
  /\ conn = 0
  /\ process' = "panicked"
  /\ held' = {}
  /\ UNCHANGED <<pc, reload, fds, instance>>

(* ReloadMe goes on: the listeners that were published, never the web      *)
(* server's, for nothing sets myClient.WebServ.                            *)
CloseServ(h, l) ==
  /\ HAt(h, l, IF l = "Thread" THEN "DataThread" ELSE "start")
  /\ held' = IF published[l] THEN held \ {l} ELSE held
  /\ UNCHANGED <<process, reload, fds, instance>>

AfterStartIdle == "idle"                                  \* mutant: no os.Exit
AfterStart == "exit"
StartNew(h) ==
  /\ TRUE \in Starts
  /\ HAt(h, "start", AfterStart)
  /\ child' = IF child = "none" THEN "boots" ELSE child
  /\ UNCHANGED <<process, reload, fds, held, bound, failed>>

StartFails(h) ==
  /\ FALSE \in Starts
  /\ HAt(h, "start", "idle")
  /\ reload' = FALSE
  /\ failed' = TRUE
  /\ UNCHANGED <<process, fds, held, child, bound>>

Exit(h) ==
  /\ process = "up" /\ pc[h] = "exit"
  /\ process' = "left"
  /\ held' = {}
  /\ UNCHANGED <<pc, reload, fds, instance>>

Handle(h) ==
  /\ \/ Look(h) \/ CloseConn(h) \/ NilConn(h)
     \/ \E l \in Listeners : CloseServ(h, l)
     \/ StartNew(h) \/ StartFails(h) \/ Exit(h)
  /\ then' = [then EXCEPT ![h] = IF pc'[h] \in {"look", "close"} THEN @ ELSE "idle"]
  /\ UNCHANGED <<proxy, mc, conn, listener>>

-----------------------------------------------------------------------------
(* The new instance takes the ports in any order and panics at one that is *)
(* still taken (main.go:180, 283; web/main.go:63), which the web server's  *)
(* is until this process exits.  It is followed no longer than that.       *)
Bind(p) ==
  /\ process = "up"
  /\ child = "boots"
  /\ p \notin bound \cup held
  /\ bound' = bound \cup {p}
  /\ UNCHANGED <<process, reload, proxy, client, handler, listener, held, child, failed>>

BindPanics(p) ==
  /\ process = "up"
  /\ child = "boots"
  /\ p \in held
  /\ child' = "panicked"
  /\ bound' = {}
  /\ UNCHANGED <<process, reload, proxy, client, handler, listener, held, failed>>

NewInstance == \E p \in Ports : Bind(p) \/ BindPanics(p)

Next ==
  \/ MainClientStep \/ PeerActs
  \/ \E l \in Listeners : Thread(l) \/ AcceptFails(l)
  \/ \E h \in Handlers : Receive(h) \/ Handle(h)
  \/ NewInstance

Spec == Init /\ [][Next]_vars

(* Goroutines are scheduled.  Peers need not drop a connection, a proxy    *)
(* need not answer, Accept need not fail by itself and no message need     *)
(* come.                                                                   *)
Fairness ==
  /\ WF_vars(MainClientStep)
  /\ \A l \in Listeners : WF_vars(Thread(l))
  /\ \A h \in Handlers : WF_vars(Handle(h))
  /\ WF_vars(NewInstance)

FairSpec == Spec /\ Fairness

-----------------------------------------------------------------------------
(* MainClient drops no open socket: whoever closes it, and whenever the    *)
(* connection breaks or a proxy refuses, what is open is myClient.Conn or  *)
(* the one socket that waits for CONNECT.  A proxy that hung up then left  *)
(* its socket behind (proxy/main.go:90).                                   *)
NoOrphan ==
  \/ fds \subseteq {conn} \ {0}
  \/ mc \in {"connect", "hungUp"} /\ conn = 0 /\ Cardinality(fds) = 1

(* But for a proxy that hangs up, MainClient ends only for a reload        *)
(* (main.go:66, "could not use the proxy string", goes on as if it could). *)
(* A reload that cannot start the new instance takes the flag back, and    *)
(* MainClient may have ended for it.                                       *)
MainClientLives == mc = "gone" => reload \/ failed

(* The process quits with "localServer could not start at all"             *)
(* (main.go:200, 303) only after it tried WaitCountRestartSrv times, or    *)
(* because a reload that failed took the flag back before Thread looked.   *)
GivesUpLate ==
  process = "gaveUp" => failed \/ \E l \in Listeners : tries[l] = MaxTries

(* A connection a handler closed is dialled anew.                          *)
Reconnects ==
  conn # 0 /\ conn \notin fds ~> mc = "dial" \/ reload \/ process # "up"

(* A reload comes to its end: this process leaves, or takes the flag back. *)
ReloadEnds == reload ~> process # "up" \/ ~reload
=============================================================================
