------------------------------- MODULE Agents -------------------------------
(***************************************************************************)
(* The list of agents (relay servers near the user): processor/agents.go   *)
(* and processServers.  Every message of the server runs in a goroutine of *)
(* its own; the refreshing goroutine pings the listed agents in turn.  All *)
(* of them share the slice "agents" without a lock: every write to it is a *)
(* step, and what is read between two writes is one.  Indexes count from   *)
(* zero, as in the code.                                                   *)
(***************************************************************************)
EXTENDS Integers, Sequences, SequencesExt, FiniteSets

CONSTANTS
  Addresses,    \* of agents
  Blank,        \* the address of an agent that was made and not yet filled
  Latency,      \* what a ping of each address may come to
  Handlers,     \* goroutines that run processServers
  Refreshers,   \* goroutines that run refreshAgents
  Scopes        \* bounds: the goroutines, addresses and messages of a behaviour

ASSUME SetsAssumption == IsFiniteSet(Addresses) /\ IsFiniteSet(Refreshers)
ASSUME BlankAssumption == Blank \notin Addresses
ASSUME GoroutinesAssumption == Handlers \cap Refreshers = {}
ASSUME ScopesAssumption ==
  Scopes \subseteq [handlers : SUBSET Handlers, refreshers : SUBSET Refreshers,
                   addresses : SUBSET Addresses, messages : Nat]

(* What a goroutine will not read again, TLC need not tell apart: its      *)
(* message, loop variables, "tmp" and "measured" are reset then.           *)
VARIABLES
  crashed,      \* a goroutine panicked
  online,       \* the agents as the server last announced them
  agents,       \* the slice: a sequence of [address, metric]
  pc, msg,      \* where a goroutine is, and the addresses a handler was sent
  i, j,         \* a goroutine's loop variables
  tmp,          \* the agent that sortAgents has in hand
  measured,     \* what the ping under way of each goroutine came to
  chan,         \* Flags.ChRefreshAgents: 0 is nil, k the k-th channel made
  to, on,       \* the channel a handler sends to, a refresher selects on
  scope, sent,
  (* History, read by no guard. *)
  raced,        \* since the last whole list two messages were handled at once,
                \* or two goroutines moved agents or appended at once
  shrunk,       \* the list became shorter while another goroutine used an index
  disturbed,    \* goroutines whose sort or fill another one wrote into
  spoiled       \* the last sort or fill to end was one of those

work == <<pc, msg, i, j, tmp, measured>>
channel == <<chan, to, on>>
outside == <<online, scope, sent>>
history == <<raced, shrunk, disturbed, spoiled>>
vars == <<crashed, agents, work, channel, outside, history>>

Unreachable == -1
Measures == Nat \cup {Unreachable}
ASSUME LatencyAssumption == Latency \in [Addresses -> SUBSET Measures]

Agent(a, m) == [address |-> a, metric |-> m]
NewAgent == Agent(Blank, 0)
Agents == [address : Addresses \cup {Blank}, metric : Measures]
Goroutines == Handlers \cup Refreshers

SortAt == {"sort", "first", "second"}
RemovalAt == {"scan", "over", "cut"}
HandlerAt ==
  {"idle", "list", "fill", "decide", "send", "signal", "on", "append", "off"}
RefresherAt == {"none", "check", "make", "test", "store", "select"}

TypeOK ==
  /\ crashed \in BOOLEAN
  /\ online \subseteq Addresses
  /\ agents \in Seq(Agents)
  /\ pc \in [Goroutines -> HandlerAt \cup RefresherAt \cup RemovalAt \cup SortAt]
  /\ msg \in [Handlers -> Seq(Addresses)]
  /\ i \in [Goroutines -> Nat] /\ j \in [Goroutines -> Nat]
  /\ tmp \in [Goroutines -> Agents]
  /\ measured \in [Goroutines -> Measures]
  /\ chan \in 0 .. Cardinality(Refreshers)
  /\ to \in [Handlers -> Nat] /\ on \in [Refreshers -> Nat]
  /\ raced \in BOOLEAN /\ shrunk \in BOOLEAN
  /\ disturbed \subseteq Goroutines /\ spoiled \in BOOLEAN
  /\ scope \in Scopes /\ sent \in 0 .. scope.messages

Init ==
  /\ crashed = FALSE
  /\ online = {} /\ agents = <<>>
  /\ pc = [g \in Goroutines |-> IF g \in Handlers THEN "idle" ELSE "none"]
  /\ msg = [h \in Handlers |-> <<>>]
  /\ i = [g \in Goroutines |-> 0] /\ j = [g \in Goroutines |-> 0]
  /\ tmp = [g \in Goroutines |-> NewAgent]
  /\ measured = [g \in Goroutines |-> Unreachable]
  /\ chan = 0
  /\ to = [h \in Handlers |-> 0] /\ on = [r \in Refreshers |-> 0]
  /\ raced = FALSE /\ shrunk = FALSE
  /\ disturbed = {} /\ spoiled = FALSE
  /\ scope \in Scopes /\ sent = 0

-----------------------------------------------------------------------------
(* Goroutine g, at label l, goes on at label m.                            *)
Step(g, l, m) ==
  /\ ~crashed
  /\ pc[g] = l
  /\ pc' = [pc EXCEPT ![g] = m]

(* The agent at a Go index, and what a panic is about.                     *)
InList(k) == k < Len(agents)
At(k) == agents[k + 1]

Panic ==
  /\ crashed' = TRUE
  /\ UNCHANGED <<agents, work, channel, outside, history>>

(* Labels at which a goroutine writes to a place it tested in an earlier   *)
(* step, and at which it is moving agents.                                 *)
UsesIndex == {"fill", "over", "cut", "first", "second", "store"}
Moves == {"fill", "first", "second"} \cup RemovalAt
Others(g, labels) == \E k \in Goroutines \ {g} : pc[k] \in labels

(* What g's write to the list does to the sorts and fills of the others.   *)
Disturb(g) == disturbed' = disturbed \cup {k \in Goroutines \ {g} : pc[k] \in SortAt \cup {"fill"}}
Begin(g) == disturbed' = disturbed \ {g}
End(g) == spoiled' = (g \in disturbed)

(* g begins to move agents, or to append: append copies the list before it *)
(* publishes the copy, and a move meanwhile may be lost.                   *)
StartMove(g) == raced' = (raced \/ Others(g, Moves \cup {"append"}))
Shorten(g) == shrunk' = (shrunk \/ Others(g, UsesIndex))

-----------------------------------------------------------------------------
(* sortAgents: an exchange sort that never moves an unreachable agent back.*)
SwapsDescending(a, b) == a.metric < b.metric /\ b.metric # Unreachable  \* mutant
Swaps(a, b) == a.metric > b.metric /\ b.metric # Unreachable

(* Where a goroutine goes on when its sort has ended.                      *)
Sorted(g) == IF g \in Handlers THEN "idle" ELSE "select"

(* The tests of both loops, the comparison, and the tmp := agents[i] of a  *)
(* swap; its two writes are steps of their own.                            *)
Compare(g) ==
  /\ pc[g] = "sort" /\ InList(j[g])
  /\ IF Swaps(At(i[g]), At(j[g]))
       THEN /\ Step(g, "sort", "first")
            /\ tmp' = [tmp EXCEPT ![g] = At(i[g])]
            /\ StartMove(g)
            /\ UNCHANGED j
       ELSE /\ Step(g, "sort", "sort")
            /\ j' = [j EXCEPT ![g] = @ + 1]
            /\ UNCHANGED <<tmp, raced>>
  /\ UNCHANGED <<crashed, agents, msg, i, measured, channel, outside, shrunk, disturbed, spoiled>>

InnerEnds(g) ==
  /\ i[g] < Len(agents) /\ ~InList(j[g])
  /\ Step(g, "sort", "sort")
  /\ i' = [i EXCEPT ![g] = @ + 1]
  /\ j' = [j EXCEPT ![g] = i[g] + 1]
  /\ UNCHANGED <<crashed, agents, msg, tmp, measured, channel, outside, history>>

First(g) ==
  /\ i[g] < Len(agents) /\ j[g] < Len(agents)
  /\ Step(g, "first", "second")
  /\ agents' = [agents EXCEPT ![i[g] + 1] = At(j[g])]
  /\ Disturb(g)
  /\ UNCHANGED <<crashed, msg, i, j, tmp, measured, channel, outside, raced, shrunk, spoiled>>

Second(g) ==
  /\ j[g] < Len(agents)
  /\ Step(g, "second", "sort")
  /\ agents' = [agents EXCEPT ![j[g] + 1] = tmp[g]]
  /\ j' = [j EXCEPT ![g] = @ + 1]
  /\ tmp' = [tmp EXCEPT ![g] = NewAgent]
  /\ Disturb(g)
  /\ UNCHANGED <<crashed, msg, i, measured, channel, outside, raced, shrunk, spoiled>>

(* A refresher's select begins: it takes the channel as it is then.        *)
SortEnds(g) ==
  /\ i[g] >= Len(agents)
  /\ Step(g, "sort", Sorted(g))
  /\ i' = [i EXCEPT ![g] = 0]
  /\ j' = [j EXCEPT ![g] = 0]
  /\ on' = [r \in Refreshers |-> IF r = g THEN chan ELSE on[r]]
  /\ End(g) /\ Begin(g)
  /\ UNCHANGED <<crashed, agents, msg, tmp, measured, chan, to, outside, raced, shrunk>>

sortAgents(g) ==
  Compare(g) \/ First(g) \/ Second(g) \/ InnerEnds(g) \/ SortEnds(g)

(* The length was tested in an earlier step; an index that is out of range *)
(* by now panics.                                                          *)
OutOfRange(g) ==
  /\ ~crashed
  /\ \/ pc[g] \in {"over", "first", "store"} /\ i[g] >= Len(agents)
     \/ pc[g] \in {"first", "second"} /\ j[g] >= Len(agents)
     \/ pc[g] = "fill" /\ i[g] < Len(msg[g]) /\ i[g] >= Len(agents)
     \/ pc[g] = "cut" /\ agents = <<>>
  /\ Panic

-----------------------------------------------------------------------------
(* The server announces: the whole list, one agent more, one agent less.   *)
Settled == {"idle", "decide", "send", "signal", "sort", "first", "second"}
Busy(h) == \E k \in Handlers \ {h} : pc[k] \notin Settled

Receive(h, label, about) ==
  /\ Step(h, "idle", label)
  /\ h \in scope.handlers /\ sent < scope.messages
  /\ msg' = [msg EXCEPT ![h] = about]
  /\ sent' = sent + 1
  /\ raced' = (Busy(h) \/ (raced /\ label # "list"))
  /\ UNCHANGED <<crashed, agents, i, j, tmp, measured, channel, scope, shrunk, disturbed, spoiled>>

ServerList(h, set) ==
  /\ online' = set
  /\ Receive(h, "list", SetToSeq(set))

ServerOn(h, a) ==
  /\ a \notin online
  /\ online' = online \cup {a}
  /\ Receive(h, "on", <<a>>)

ServerOff(h, a) ==
  /\ a \in online
  /\ online' = online \ {a}
  /\ Receive(h, "off", <<a>>)

(* processServers: a new list is made and filled place by place.           *)
NewListEmpty(h) == <<>>                           \* mutant: a capacity, no length
NewList(h) == [k \in DOMAIN msg[h] |-> NewAgent]
MakeList(h) ==
  /\ Step(h, "list", "fill")
  /\ agents' = NewList(h)
  /\ StartMove(h)
  /\ IF Len(msg[h]) < Len(agents) THEN Shorten(h) ELSE UNCHANGED shrunk
  /\ Disturb(h)
  /\ UNCHANGED <<crashed, msg, i, j, tmp, measured, channel, outside, spoiled>>

Fill(h) ==
  /\ i[h] < Len(msg[h]) /\ i[h] < Len(agents)
  /\ Step(h, "fill", "fill")
  /\ agents' = [agents EXCEPT ![i[h] + 1] = Agent(msg[h][i[h] + 1], Unreachable)]
  /\ i' = [i EXCEPT ![h] = @ + 1]
  /\ Disturb(h)
  /\ UNCHANGED <<crashed, msg, j, tmp, measured, channel, outside, raced, shrunk, spoiled>>

Forget(h) == msg' = [msg EXCEPT ![h] = <<>>]

FillEnds(h) ==
  /\ i[h] >= Len(msg[h])
  /\ Step(h, "fill", "decide")
  /\ i' = [i EXCEPT ![h] = 0]
  /\ Forget(h)
  /\ End(h) /\ Begin(h)
  /\ UNCHANGED <<crashed, agents, j, tmp, measured, channel, outside, raced, shrunk>>

StartRefresher(h, r) ==
  /\ chan = 0
  /\ r \in scope.refreshers /\ pc[r] = "none"
  /\ ~crashed /\ pc[h] = "decide"
  /\ pc' = [pc EXCEPT ![h] = "idle", ![r] = "check"]
  /\ UNCHANGED <<crashed, agents, msg, i, j, tmp, measured, channel, outside, history>>

ChannelMade(h) ==
  /\ chan # 0
  /\ Step(h, "decide", "send")
  /\ UNCHANGED <<crashed, agents, msg, i, j, tmp, measured, channel, outside, history>>

Signal(h) ==
  /\ Step(h, "send", "signal")
  /\ to' = [to EXCEPT ![h] = chan]
  /\ UNCHANGED <<crashed, agents, msg, i, j, tmp, measured, chan, on, outside, history>>

PingNew(h) ==
  /\ Step(h, "on", "append")
  /\ \E m \in Latency[msg[h][1]] : measured' = [measured EXCEPT ![h] = m]
  /\ StartMove(h)
  /\ UNCHANGED <<crashed, agents, msg, i, j, tmp, channel, outside,
                 shrunk, disturbed, spoiled>>

AppendNew(h) ==
  /\ Step(h, "append", "sort")
  /\ agents' = Append(agents, Agent(msg[h][1], measured[h]))
  /\ Forget(h)
  /\ measured' = [measured EXCEPT ![h] = Unreachable]
  /\ Disturb(h)
  /\ UNCHANGED <<crashed, i, j, tmp, channel, outside, raced, shrunk, spoiled>>

(* The removal loop: a match is overwritten by the last agent, and the     *)
(* scan goes on at index 1, for the loop adds one to the i it has reset.   *)
RemoveOld(h) ==
  /\ Step(h, "off", "scan")
  /\ StartMove(h)
  /\ UNCHANGED <<crashed, agents, msg, i, j, tmp, measured, channel, outside,
                 shrunk, disturbed, spoiled>>

Scan(h) ==
  /\ pc[h] = "scan" /\ InList(i[h])
  /\ LET found == At(i[h]).address = msg[h][1] IN
       /\ Step(h, "scan", IF found THEN "over" ELSE "scan")
       /\ i' = [i EXCEPT ![h] = IF found THEN @ ELSE @ + 1]
  /\ UNCHANGED <<crashed, agents, msg, j, tmp, measured, channel, outside, history>>

ReplacementHead == Head(agents)                \* mutant: the wrong end
Replacement == Last(agents)

Overwrite(h) ==
  /\ i[h] < Len(agents)
  /\ Step(h, "over", "cut")
  /\ agents' = [agents EXCEPT ![i[h] + 1] = Replacement]
  /\ Disturb(h)
  /\ UNCHANGED <<crashed, msg, i, j, tmp, measured, channel, outside, raced, shrunk, spoiled>>

Cut(h) ==
  /\ agents # <<>>
  /\ Step(h, "cut", "scan")
  /\ agents' = Front(agents)
  /\ i' = [i EXCEPT ![h] = 1]
  /\ Shorten(h)
  /\ Disturb(h)
  /\ UNCHANGED <<crashed, msg, j, tmp, measured, channel, outside, raced, spoiled>>

ScanEnds(h) ==
  /\ ~InList(i[h])
  /\ Step(h, "scan", "sort")
  /\ i' = [i EXCEPT ![h] = 0]
  /\ Forget(h)
  /\ UNCHANGED <<crashed, agents, j, tmp, measured, channel, outside, history>>

-----------------------------------------------------------------------------
(* refreshAgents: the channel is made once, unless two of them look first. *)
CheckChannel(r) ==
  /\ Step(r, "check", IF chan = 0 THEN "make" ELSE "test")
  /\ UNCHANGED <<crashed, agents, msg, i, j, tmp, measured, channel, outside, history>>

MakeChannel(r) ==
  /\ Step(r, "make", "test")
  /\ chan' = chan + 1
  /\ UNCHANGED <<crashed, agents, msg, i, j, tmp, measured, to, on, outside, history>>

Answers(a) == IF a = Blank THEN {Unreachable} ELSE Latency[a]

(* updateAgentsMetric: while the ping is on its way the slice may change;  *)
(* the place to store the metric in is found after it came back.           *)
Ping(r) ==
  /\ InList(i[r])
  /\ Step(r, "test", "store")
  /\ \E m \in Answers(At(i[r]).address) : measured' = [measured EXCEPT ![r] = m]
  /\ UNCHANGED <<crashed, agents, msg, i, j, tmp, channel, outside, history>>

Store(r) ==
  /\ i[r] < Len(agents)
  /\ Step(r, "store", "test")
  /\ agents' = [agents EXCEPT ![i[r] + 1].metric = measured[r]]
  /\ measured' = [measured EXCEPT ![r] = Unreachable]
  /\ i' = [i EXCEPT ![r] = @ + 1]
  /\ Disturb(r)
  /\ UNCHANGED <<crashed, msg, j, tmp, channel, outside, raced, shrunk, spoiled>>

AllPinged(r) ==
  /\ ~InList(i[r])
  /\ Step(r, "test", "sort")
  /\ i' = [i EXCEPT ![r] = 0]
  /\ UNCHANGED <<crashed, agents, msg, j, tmp, measured, channel, outside, history>>

TimerRemakes(r) ==                             \* mutant: makes it in the loop
  /\ Step(r, "select", "make")
  /\ UNCHANGED <<crashed, agents, msg, i, j, tmp, measured, channel, outside, history>>
Timer(r) ==
  /\ Step(r, "select", "test")
  /\ on' = [on EXCEPT ![r] = 0]
  /\ UNCHANGED <<crashed, agents, msg, i, j, tmp, measured, chan, to, outside, history>>

ListensToNil(r, h) == on[r] = 0                \* mutant: no channel in the select
Listens(r, h) == on[r] = to[h]

(* The send and the receive of the unbuffered channel are one step.        *)
Signalled(r, h) ==
  /\ ~crashed
  /\ pc[h] = "signal" /\ pc[r] = "select"
  /\ Listens(r, h)
  /\ pc' = [pc EXCEPT ![h] = "idle", ![r] = "test"]
  /\ to' = [to EXCEPT ![h] = 0]
  /\ on' = [on EXCEPT ![r] = 0]
  /\ UNCHANGED <<crashed, agents, msg, i, j, tmp, measured, chan, outside, history>>

processServers(h) ==
  \/ MakeList(h) \/ Fill(h) \/ FillEnds(h) \/ ChannelMade(h) \/ Signal(h)
  \/ \E r \in Refreshers : StartRefresher(h, r)
  \/ PingNew(h) \/ AppendNew(h)
  \/ RemoveOld(h) \/ Scan(h) \/ Overwrite(h) \/ Cut(h) \/ ScanEnds(h)

refreshAgents(r) ==
  \/ CheckChannel(r) \/ MakeChannel(r)
  \/ Ping(r) \/ Store(r) \/ AllPinged(r) \/ Timer(r)

Server ==
  \E h \in Handlers :
    \/ \E set \in SUBSET scope.addresses : ServerList(h, set)
    \/ \E a \in scope.addresses : ServerOn(h, a) \/ ServerOff(h, a)

Next ==
  \/ Server
  \/ \E h \in Handlers : processServers(h)
  \/ \E r \in Refreshers : refreshAgents(r)
  \/ \E g \in Goroutines : sortAgents(g) \/ OutOfRange(g)
  \/ \E h \in Handlers, r \in Refreshers : Signalled(r, h)

Spec == Init /\ [][Next]_vars

(* A ping ends; a sender that waits is served before the refresher sleeps  *)
(* again, since the runtime queues senders in order of arrival.            *)
Fairness ==
  /\ \A r \in Refreshers : WF_vars(refreshAgents(r) \/ sortAgents(r) \/ OutOfRange(r))
  /\ \A h \in Handlers :
       /\ WF_vars(processServers(h) \/ sortAgents(h) \/ OutOfRange(h))
       /\ SF_vars(\E r \in Refreshers : Signalled(r, h))

FairSpec == Spec /\ Fairness

-----------------------------------------------------------------------------
Quiet ==
  /\ ~crashed
  /\ \A h \in Handlers : pc[h] = "idle"
  /\ \A r \in Refreshers : pc[r] \in {"none", "select"}

(* Once the goroutines are at rest the agents that answered stand in the   *)
(* order of their metrics (processLocalConnect offers the first of them),  *)
(* whatever the steps of a refresh and of messages that overlapped it did  *)
(* to the list before: one sort that nobody wrote into puts it right.      *)
(* Only if the last sort or fill to end was written into (agents.go:24-35) *)
(* may the order be wrong.                                                 *)
SortedWhenQuiet ==
  Quiet /\ ~spoiled =>
    \A k, l \in DOMAIN agents :
      k < l /\ agents[k].metric # Unreachable /\ agents[l].metric # Unreachable
        => agents[k].metric <= agents[l].metric

(* At rest the list holds the agents the server announced and no other,    *)
(* each once (handlers.go:262 and 268), whatever the refresher pinged,     *)
(* stored, compared and swapped between the steps of the handlers.  Two    *)
(* exceptions are named (raced): two messages handled at once, and a swap  *)
(* that was under way during a removal, a fill, an append or another swap, *)
(* until the server sends a whole list.                                    *)
ListFollowsServer ==
  Quiet /\ ~raced =>
    /\ {agents[k].address : k \in DOMAIN agents} = online
    /\ \A k, l \in DOMAIN agents : agents[k].address = agents[l].address => k = l

(* A place that was tested against the length of the list is still there   *)
(* when it is written, unless another goroutine shortened the list between *)
(* the two: then, and only then, the process dies (agents.go:28 and 39,    *)
(* handlers.go:271-272).                                                   *)
PanicsOnlyIfShrunk == crashed => shrunk

(* A handler that signals the refresher is not blocked for good: it gives  *)
(* its place in the queue of handlers back.  One that sends to a channel   *)
(* another refresher replaced (agents.go:68-69) may be.                    *)
HandlersEnd ==
  \A h \in Handlers :
    pc[h] = "signal" ~> crashed \/ pc[h] = "idle" \/ to[h] # chan
=============================================================================
