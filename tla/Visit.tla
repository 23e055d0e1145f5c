------------------------------- MODULE Visit --------------------------------
(***************************************************************************)
(* Relayed VNC visits: internal/pkg/processor, from the TMessConnect       *)
(* message to the last closed socket.                                      *)
(*                                                                         *)
(* Every visit has two pConn slots, <<s, 1>> toward the data server and    *)
(* <<s, 2>> toward the VNC program, and one goroutine per slot; a thread   *)
(* and the connection it dialled or accepted share a name.  A guest's slot *)
(* 2 is filled by localDataHandler, one thread per viewer connection,      *)
(* which finds the slots through the globals peerBuff1 and peerBuff2.      *)
(***************************************************************************)
EXTENDS Integers, FiniteSets

CONSTANTS
  Hosts,      \* visits of mode 1: this machine shares its screen
  Guests,     \* visits of mode 2: this machine opens a viewer
  Viewers,    \* connections accepted by DataThread
  WaitCount,  \* common.WaitCount: polls before a wait is given up
  Proxy,      \* TRUE when common.Options.Proxy is set
  LinkFails,  \* TRUE when MainClient may lose the server meanwhile
  Nil

Sessions == Hosts \cup Guests
Slots == Sessions \X {1, 2}
Threads == Slots \cup Viewers

(* The goroutines that run connectClient: all but a guest's second one,    *)
(* which runs connectServer.                                               *)
Clients == Slots \ (Guests \X {2})

ASSUME KindsAssumption == Hosts \cap Guests = {}
ASSUME NamesAssumption == Viewers \cap Slots = {} /\ Nil \notin Threads
ASSUME FiniteAssumption == IsFiniteSet(Sessions)
ASSUME WaitAssumption == WaitCount \in Nat
ASSUME ProxyAssumption == Proxy \in BOOLEAN
ASSUME LinkAssumption == LinkFails \in BOOLEAN

VARIABLES
  life,       \* of the process; "terminating" is common.Flags.Terminated
  pc,         \* where each thread is
  cWait,      \* polls made by a thread's current wait
  conn,       \* the connection of each thread, as this process sees it
  slot,       \* pConn.Pointer of every slot
  peerBuff1, peerBuff2,
  peer1, peer2,   \* localDataHandler's copies of them
  count,      \* connections.count
  dialling,   \* MainClient has no connection to the server
  panel,      \* the last TMessLocalInfoHide sent to the UI panels
  outcome,    \* how each thread's attempt to relay ended
  told        \* TMessDisconnect messages sent with the visit's code

buffs == <<peerBuff1, peerBuff2>>
locals == <<peer1, peer2>>
notice == <<count, dialling, panel>>
history == <<outcome, told>>
vars == <<life, pc, cWait, conn, slot, buffs, locals, notice, history>>

Labels ==
  {"idle", "dial", "code", "hide", "hideSend", "wait", "relay", "show",
   "showRead", "showSend", "close", "done", "set1", "set2", "seek", "check",
   "take1", "take2", "clear1", "clear2", "bind"}
Outcomes == {"none", "refused", "failed", "unpaired", "timeout", "relay"}

TypeOK ==
  /\ life \in {"up", "terminating", "exited", "crashed"}
  /\ pc \in [Threads -> Labels]
  /\ cWait \in [Threads -> 0 .. WaitCount]
  /\ conn \in [Threads -> {"none", "open", "eof", "closed"}]
  /\ slot \in [Slots -> Threads \cup {Nil}]
  /\ peerBuff1 \in Slots \cup {Nil} /\ peerBuff2 \in Slots \cup {Nil}
  /\ peer1 \in [Viewers -> Slots \cup {Nil}]
  /\ peer2 \in [Viewers -> Slots \cup {Nil}]
  /\ count \in Int
  /\ dialling \in BOOLEAN
  /\ panel \in {"shown", "hidden"}
  /\ outcome \in [Threads -> Outcomes]
  /\ told \in [Sessions -> Nat]

(* The model begins with the first connection to the server, the earliest  *)
(* at which a visit can be asked for.                                      *)
Init ==
  /\ life = "up"
  /\ pc = [t \in Threads |-> "idle"]
  /\ cWait = [t \in Threads |-> 0]
  /\ conn = [t \in Threads |-> "none"]
  /\ slot = [p \in Slots |-> Nil]
  /\ peerBuff1 = Nil /\ peerBuff2 = Nil
  /\ peer1 = [v \in Viewers |-> Nil]
  /\ peer2 = [v \in Viewers |-> Nil]
  /\ count = 0
  /\ dialling = FALSE
  /\ panel = "shown"
  /\ outcome = [t \in Threads |-> "none"]
  /\ told = [s \in Sessions |-> 0]

-----------------------------------------------------------------------------
Running == life \in {"up", "terminating"}
Terminated == life = "terminating"

(* Thread t, at label l, goes on at label m.                               *)
Step(t, l, m) ==
  /\ Running
  /\ pc[t] = l
  /\ pc' = [pc EXCEPT ![t] = m]

(* Only the connection to the data server is opened with a code.           *)
Coded(t) == t \in Sessions \X {1}

Other(c) == <<c[1], 3 - c[2]>>

(* The slot a relaying thread writes to, and the connection in it.         *)
Far(t) == IF t \in Viewers THEN peer2[t] ELSE Other(t)
Target(t) == slot[Far(t)]

(* A panic in any of these goroutines takes the process down.              *)
Panic ==
  /\ life' = "crashed"
  /\ UNCHANGED <<pc, cWait, conn, slot, buffs, locals, notice, history>>

(* sendMessage(TMessDisconnect, code, reason): an attempt, not a delivery. *)
SendDisconnect(s) == told' = [told EXCEPT ![s] = @ + 1]
DisconnectSilent(t) == told' = told          \* mutant: no report
DisconnectIfCoded(t) ==
  told' = IF Coded(t) THEN [told EXCEPT ![t[1]] = @ + 1] ELSE told

-----------------------------------------------------------------------------
(* processConnect: the checks are made in this order and any of them may   *)
(* turn the visit down; only a host's digest is checked.                   *)
Ready(s, digestOk, vncReady, simple) ==
  /\ digestOk \/ s \notin Hosts
  /\ vncReady
  /\ simple

processConnect(s, ready) ==
  /\ Running
  /\ pc[<<s, 1>>] = "idle"
  /\ IF ready
       THEN /\ pc' = [pc EXCEPT ![<<s, 1>>] = "dial",
                                ![<<s, 2>>] = IF s \in Hosts THEN "dial" ELSE "set1"]
            /\ UNCHANGED <<outcome, told>>
       ELSE /\ pc' = [pc EXCEPT ![<<s, 1>>] = "done", ![<<s, 2>>] = "done"]
            /\ outcome' = [outcome EXCEPT ![<<s, 1>>] = "refused"]
            /\ SendDisconnect(s)
  /\ UNCHANGED <<life, cWait, conn, slot, buffs, locals, notice>>

(* connectServer publishes the slots of a guest in two plain writes.       *)
connectServer1(s) ==
  /\ Step(<<s, 2>>, "set1", "set2")
  /\ peerBuff1' = <<s, 2>>
  /\ UNCHANGED <<life, cWait, conn, slot, peerBuff2, locals, notice, history>>

connectServer2(s) ==
  /\ Step(<<s, 2>>, "set2", "done")
  /\ peerBuff2' = <<s, 1>>
  /\ UNCHANGED <<life, cWait, conn, slot, peerBuff1, locals, notice, history>>

-----------------------------------------------------------------------------
(* connectClient.  The slot is filled as soon as the dial returns.         *)
DialOk(c) ==
  /\ Step(c, "dial", IF Coded(c) THEN "code" ELSE "wait")
  /\ conn' = [conn EXCEPT ![c] = "open"]
  /\ slot' = [slot EXCEPT ![c] = c]
  /\ UNCHANGED <<life, cWait, buffs, locals, notice, history>>

DialFail(c) ==
  /\ Step(c, "dial", "done")
  /\ outcome' = [outcome EXCEPT ![c] = "failed"]
  /\ DisconnectIfCoded(c)
  /\ UNCHANGED <<life, cWait, conn, slot, buffs, locals, notice>>

(* The proxy hangs up during CONNECT: ReadResponse returns no response and *)
(* httpProxy.Dial dereferences it.                                         *)
DialPanic(c) ==
  /\ Running
  /\ pc[c] = "dial" /\ Coded(c) /\ Proxy
  /\ Panic

(* The slot is filled by now: the other side may relay before the code.    *)
WriteCode(c) ==
  /\ Step(c, "code", "hide")
  /\ UNCHANGED <<life, cWait, conn, slot, buffs, locals, notice, history>>

(* hideInfo and showInfo count under the mutex and look at the counter     *)
(* after they released it.                                                 *)
HideCount(c) ==
  /\ Step(c, "hide", "hideSend")
  /\ count' = count + 1
  /\ UNCHANGED <<life, cWait, conn, slot, buffs, locals, dialling, panel, history>>

HideSend(c) ==
  /\ Step(c, "hideSend", "wait")
  /\ panel' = IF count > 0 THEN "hidden" ELSE panel
  /\ UNCHANGED <<life, cWait, conn, slot, buffs, locals, count, dialling, history>>

LastOutStale == count = 1                    \* mutant: the old counter
LastOut == count = 0

ShowCount(c) ==
  /\ Step(c, "show", "showRead")
  /\ count' = count - 1
  /\ UNCHANGED <<life, cWait, conn, slot, buffs, locals, dialling, panel, history>>

ShowRead(c) ==
  /\ Step(c, "showRead", IF LastOut THEN "showSend" ELSE "close")
  /\ UNCHANGED <<life, cWait, conn, slot, buffs, locals, notice, history>>

ShowSend(c) ==
  /\ Step(c, "showSend", "close")
  /\ panel' = "shown"
  /\ UNCHANGED <<life, cWait, conn, slot, buffs, locals, count, dialling, history>>

(* The deferred conn.Close().                                              *)
Close(t) ==
  /\ Step(t, "close", "done")
  /\ conn' = [conn EXCEPT ![t] = "closed"]
  /\ UNCHANGED <<life, cWait, slot, buffs, locals, notice, history>>

(* Where a client goes when it leaves: its deferred calls.                 *)
LeaveNoDefer(t) == "close"                   \* mutant: no defer showInfo
Leave(t) == IF Coded(t) THEN "show" ELSE "close"

-----------------------------------------------------------------------------
(* The wait for the other slot, the same loop in connectClient and in      *)
(* localDataHandler; the latter also stops it when Terminated.             *)
Waiting(t) ==
  /\ Running
  /\ pc[t] = "wait"
  /\ Far(t) # Nil

(* The counter of a wait that is over is not read again; the next wait     *)
(* starts from zero (main.go:312, 333).                                    *)
EndWait(t) == cWait' = [cWait EXCEPT ![t] = 0]

PatienceOneMore(t) == cWait[t] <= WaitCount  \* mutant: off by one
Patience(t) == cWait[t] < WaitCount

WaitTick(t) ==
  /\ Waiting(t)
  /\ Target(t) = Nil
  /\ Patience(t)
  /\ t \in Viewers => ~Terminated
  /\ cWait' = [cWait EXCEPT ![t] = @ + 1]
  /\ UNCHANGED <<life, pc, conn, slot, buffs, locals, notice, history>>

WaitFound(t) ==
  /\ Waiting(t)
  /\ Target(t) # Nil
  /\ Step(t, "wait", "relay")
  /\ EndWait(t)
  /\ outcome' = [outcome EXCEPT ![t] = "relay"]
  /\ UNCHANGED <<life, conn, slot, buffs, locals, notice, told>>

WaitTimeout(t) ==
  /\ Waiting(t)
  /\ Target(t) = Nil
  /\ ~Patience(t) \/ (t \in Viewers /\ Terminated)
  /\ Step(t, "wait", Leave(t))
  /\ EndWait(t)
  /\ outcome' = [outcome EXCEPT ![t] = "timeout"]
  /\ DisconnectIfCoded(t)
  /\ UNCHANGED <<life, conn, slot, buffs, locals, notice>>

(* The copy loop: a Read of the thread's own connection, a Write to the    *)
(* connection in the other slot.  A round that carries bytes over changes  *)
(* nothing here; what is modelled is how the loop ends.                    *)
Copying(t) ==
  /\ Running
  /\ pc[t] = "relay"

(* Mutant: the thread closes its own connection instead.                  *)
StopRelayOwn(t) ==
  /\ Step(t, "relay", Leave(t))
  /\ conn' = [conn EXCEPT ![t] = "closed"]
  /\ UNCHANGED <<life, cWait, slot, buffs, locals, notice, history>>
StopRelay(t) ==
  /\ Step(t, "relay", Leave(t))
  /\ conn' = [conn EXCEPT ![Target(t)] = "closed"]
  /\ UNCHANGED <<life, cWait, slot, buffs, locals, notice, history>>

(* Read returns no byte at once ...                                        *)
RelayEof(t) ==
  /\ Copying(t)
  /\ conn[t] \in {"eof", "closed"}
  /\ StopRelay(t)

(* ... or bytes arrive and none of them can be written.                    *)
RelayBroken(t) ==
  /\ Copying(t)
  /\ conn[t] = "open"
  /\ conn[Target(t)] \in {"eof", "closed"}
  /\ StopRelay(t)

-----------------------------------------------------------------------------
(* DataThread accepts a viewer; localDataHandler looks for a published     *)
(* pair, takes it in four plain reads and writes, and binds the viewer.    *)
Accept(v) ==
  /\ Step(v, "idle", "seek")
  /\ conn' = [conn EXCEPT ![v] = "open"]
  /\ UNCHANGED <<life, cWait, slot, buffs, locals, notice, history>>

PublishedHalf == peerBuff1 # Nil              \* mutant: half of the check
Published == peerBuff1 # Nil /\ peerBuff2 # Nil

SeekTick(v) ==
  /\ Running
  /\ pc[v] = "seek"
  /\ ~Published
  /\ Patience(v)
  /\ cWait' = [cWait EXCEPT ![v] = @ + 1]
  /\ UNCHANGED <<life, pc, conn, slot, buffs, locals, notice, history>>

SeekOverNever(v) == Published                \* mutant: no limit
SeekOver(v) == Published \/ ~Patience(v)

SeekEnd(v) ==
  /\ Step(v, "seek", "check")
  /\ SeekOver(v)
  /\ EndWait(v)
  /\ UNCHANGED <<life, conn, slot, buffs, locals, notice, history>>

Check(v) ==
  /\ Step(v, "check", IF Published THEN "take1" ELSE "close")
  /\ outcome' = [outcome EXCEPT ![v] = IF Published THEN @ ELSE "unpaired"]
  /\ UNCHANGED <<life, cWait, conn, slot, buffs, locals, notice, told>>

Take1(v) ==
  /\ Step(v, "take1", "take2")
  /\ peer1' = [peer1 EXCEPT ![v] = peerBuff1]
  /\ UNCHANGED <<life, cWait, conn, slot, buffs, peer2, notice, history>>

Take2(v) ==
  /\ Step(v, "take2", "clear1")
  /\ peer2' = [peer2 EXCEPT ![v] = peerBuff2]
  /\ UNCHANGED <<life, cWait, conn, slot, buffs, peer1, notice, history>>

Clear1(v) ==
  /\ Step(v, "clear1", "clear2")
  /\ peerBuff1' = Nil
  /\ UNCHANGED <<life, cWait, conn, slot, peerBuff2, locals, notice, history>>

Clear2(v) ==
  /\ Step(v, "clear2", "bind")
  /\ peerBuff2' = Nil
  /\ UNCHANGED <<life, cWait, conn, slot, peerBuff1, locals, notice, history>>

Bind(v) ==
  /\ Step(v, "bind", "wait")
  /\ peer1[v] # Nil
  /\ slot' = [slot EXCEPT ![peer1[v]] = v]
  /\ UNCHANGED <<life, cWait, conn, buffs, locals, notice, history>>

(* Another handler cleared the globals between the check and the reads.    *)
NilPeerPanic(v) ==
  /\ Running
  /\ \/ pc[v] = "bind" /\ peer1[v] = Nil
     \/ pc[v] = "wait" /\ peer2[v] = Nil
  /\ Panic

-----------------------------------------------------------------------------
(* The other end of a connection goes away.                                *)
RemoteClose(t) ==
  /\ Running
  /\ conn[t] = "open"
  /\ conn' = [conn EXCEPT ![t] = "eof"]
  /\ UNCHANGED <<life, pc, cWait, slot, buffs, locals, notice, history>>

(* TerminateMe raises the flag, tells the panels, closes the VNC and exits;*)
(* the threads run on meanwhile.                                           *)
TerminateMe ==
  /\ life = "up"
  /\ life' = "terminating"
  /\ UNCHANGED <<pc, cWait, conn, slot, buffs, locals, notice, history>>

Exit ==
  /\ life = "terminating"
  /\ life' = "exited"
  /\ UNCHANGED <<pc, cWait, conn, slot, buffs, locals, notice, history>>

(* MainClient tells the panels to hide whenever it dials and to show when  *)
(* it is connected, and looks at no counter.                               *)
Dial ==
  /\ Running
  /\ LinkFails
  /\ dialling' = TRUE
  /\ panel' = "hidden"
  /\ UNCHANGED <<life, pc, cWait, conn, slot, buffs, locals, count, history>>

Connected ==
  /\ Running
  /\ dialling
  /\ dialling' = FALSE
  /\ panel' = "shown"
  /\ UNCHANGED <<life, pc, cWait, conn, slot, buffs, locals, count, history>>

connectClient(c) ==
  \/ DialOk(c) \/ DialFail(c) \/ WriteCode(c)
  \/ HideCount(c) \/ HideSend(c)
  \/ ShowCount(c) \/ ShowRead(c) \/ ShowSend(c)

localDataHandler(v) ==
  \/ SeekTick(v) \/ SeekEnd(v) \/ Check(v)
  \/ Take1(v) \/ Take2(v) \/ Clear1(v) \/ Clear2(v) \/ Bind(v)

(* The wait and the copy loop, common to both.                             *)
relay(t) ==
  \/ WaitTick(t) \/ WaitFound(t) \/ WaitTimeout(t)
  \/ RelayEof(t) \/ Close(t)

Environment ==
  \/ \E s \in Sessions, digestOk, vncReady, simple \in BOOLEAN :
       processConnect(s, Ready(s, digestOk, vncReady, simple))
  \/ \E v \in Viewers : Accept(v)
  \/ \E t \in Threads : RemoteClose(t)
  \/ Dial \/ Connected
  \/ TerminateMe \/ Exit

Next ==
  \/ \E c \in Clients : connectClient(c) \/ DialPanic(c)
  \/ \E s \in Guests : connectServer1(s) \/ connectServer2(s)
  \/ \E v \in Viewers : localDataHandler(v) \/ NilPeerPanic(v)
  \/ \E t \in Threads : relay(t) \/ RelayBroken(t)
  \/ Environment

Spec == Init /\ [][Next]_vars

(* The Go scheduler runs every runnable goroutine, timers fire, a dial     *)
(* returns in the end and a Read of a closed connection returns at once.   *)
(* Nothing is assumed of the remote ends: data may never arrive.           *)
Fairness ==
  /\ \A c \in Clients : WF_vars(connectClient(c))
  /\ \A s \in Guests : WF_vars(connectServer1(s) \/ connectServer2(s))
  /\ \A v \in Viewers : WF_vars(localDataHandler(v) \/ NilPeerPanic(v))
  /\ \A t \in Threads : WF_vars(relay(t))

FairSpec == Spec /\ Fairness

-----------------------------------------------------------------------------
(* The threads that are counted, and those that ended a counted visit and  *)
(* have not yet looked at the counter or told the panels.                  *)
CountedAt == {"hideSend", "wait", "relay", "show"}
SettlingAt == {"showRead", "showSend"}
Counted == {s \in Sessions : pc[<<s, 1>>] \in CountedAt}
Settling == {s \in Sessions : pc[<<s, 1>>] \in SettlingAt}

(* connections.count is the number of visits between hideInfo and showInfo,*)
(* on every way out of connectClient: the credentials are masked (main.go  *)
(* hideInfo, showInfo; handlers.go processLocalInfo) exactly while one is. *)
CountsVisits == count = Cardinality(Counted)

(* The server hears of a visit that failed before it relayed, and hears it *)
(* once: no way out of processConnect or connectClient is silent, and a    *)
(* visit that relayed is not reported as failed (sendMessage of            *)
(* TMessDisconnect in handlers.go and main.go).                            *)
OneReason ==
  \A s \in Sessions :
    told[s] = IF outcome[<<s, 1>>] \in {"refused", "failed", "timeout"} THEN 1 ELSE 0

(* A thread that ended left no descriptor open, and one that relayed took  *)
(* the connection it was writing to down with it (the deferred Close and   *)
(* the Close after the copy loop).                                         *)
TornDown ==
  \A t \in Threads :
    pc[t] = "done" /\ conn[t] # "none" =>
      /\ conn[t] = "closed"
      /\ outcome[t] = "relay" => conn[Target(t)] = "closed"

(* While only one viewer connects, the checks of localDataHandler are      *)
(* enough: it never dereferences a nil peer, although connectServer        *)
(* publishes the pair in two writes (main.go connectServer, 312-331).      *)
NoPanic == life # "crashed"

(* The two slots a handler works with belong to one visit (main.go         *)
(* connectVisit hands connectServer the two ends of the same visit).       *)
OneVisit ==
  \A v \in Viewers :
    pc[v] \in {"wait", "relay"} /\ peer1[v] # Nil /\ peer2[v] # Nil =>
      peer1[v][1] = peer2[v][1]

(* What the panels are told follows the counter and MainClient's link:     *)
(* every step is one Disclosure allows, so that a "hide" is never left     *)
(* behind by a visit, in whatever order the unlocked reads of the counter  *)
(* and the sends of visits and MainClient fall (main.go hideInfo, showInfo *)
(* and 60, 106).                                                           *)
Panels == INSTANCE Disclosure
            WITH Visits <- Sessions, active <- Counted, owed <- Settling
PanelsSpec == Panels!Spec

(* Once the connection of a goroutine that relays is lost, the visit comes *)
(* down: that goroutine and the one that serves the other end both finish  *)
(* (the Close of the far end after each copy loop).  Two viewers that took *)
(* the same pair share its slots, and the first of them may hang.          *)
Shared == \E v, w \in Viewers : v # w /\ peer1[v] # Nil /\ peer1[v] = peer1[w]

Teardown ==
  \A t \in Threads :
    pc[t] = "relay" /\ conn[t] # "open"
      ~> \/ ~Running \/ Shared
         \/ /\ pc[t] = "done" /\ outcome[t] = "relay"
            /\ pc[Target(t)] = "done"

(* A viewer is paired or turned away; it is not left in limbo.             *)
ViewerServed ==
  \A v \in Viewers :
    pc[v] = "seek" ~> ~Running \/ outcome[v] # "none"
=============================================================================
