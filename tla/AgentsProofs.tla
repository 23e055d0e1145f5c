---------------------------- MODULE AgentsProofs ----------------------------
(***************************************************************************)
(* Theorems about Agents, for any finite set of addresses, any metrics,    *)
(* any number of handlers and of refreshers, and every order of their      *)
(* reads and writes of the list.                                           *)
(***************************************************************************)
EXTENDS Agents, SequenceTheorems, FiniteSetTheorems, TLAPS

-----------------------------------------------------------------------------
(* The writes to a list: a place, one place more, one place less.          *)
LEMMA ListFacts ==
  ASSUME NEW S, NEW s \in Seq(S)
  PROVE  /\ Len(s) \in Nat /\ DOMAIN s = 1 .. Len(s) /\ s \in [1 .. Len(s) -> S]
         /\ \A k \in 1 .. Len(s) : s[k] \in S
  BY LenProperties, ElementOfSeq

LEMMA WriteFacts ==
  ASSUME NEW S, NEW s \in Seq(S), NEW l \in Nat, l < Len(s), NEW e \in S
  PROVE  /\ [s EXCEPT ![l + 1] = e] \in Seq(S)
         /\ Len([s EXCEPT ![l + 1] = e]) = Len(s)
         /\ [s EXCEPT ![l + 1] = e][l + 1] = e
         /\ \A k \in 1 .. Len(s) : k # l + 1 => [s EXCEPT ![l + 1] = e][k] = s[k]
<1>1. l + 1 \in 1 .. Len(s)
  BY ListFacts
<1> QED
  BY <1>1, ExceptSeq

LEMMA FrontFacts ==
  ASSUME NEW S, NEW s \in Seq(S), s # <<>>
  PROVE  /\ Front(s) \in Seq(S) /\ Len(Front(s)) = Len(s) - 1 /\ Len(s) > 0
         /\ \A k \in 1 .. Len(s) - 1 : Front(s)[k] = s[k]
         /\ Last(s) \in S /\ Last(s) = s[Len(s)]
<1> DEFINE n == Len(s) - 1
<1>1. Len(s) \in Nat /\ Len(s) # 0 /\ \A k \in 1 .. Len(s) : s[k] \in S
  BY EmptySeq, ListFacts
<1>2. 1 \in Int /\ n \in Nat /\ \A k \in 1 .. n : s[k] \in S
  BY <1>1
<1>3. Front(s) = SubSeq(s, 1, n) /\ n = Len(s) - 1
  BY DEF Front
<1> HIDE DEF n
<1>4. /\ Front(s) \in Seq(S)
      /\ Len(Front(s)) = IF 1 <= n THEN n - 1 + 1 ELSE 0
      /\ \A k \in 1 .. n - 1 + 1 : Front(s)[k] = s[1 + k - 1]
  <2>1. n \in Int
    BY <1>2
  <2> QED
    BY <1>2, <1>3, <2>1, SubSeqProperties
<1>5. Len(Front(s)) = n
  BY <1>2, <1>4
<1>6. \A k \in 1 .. n : k \in 1 .. n - 1 + 1 /\ 1 + k - 1 = k
  BY <1>2
<1>7. \A k \in 1 .. n : Front(s)[k] = s[k]
  BY <1>4, <1>6
<1>8. Last(s) = s[Len(s)] /\ Len(s) \in 1 .. Len(s)
  BY <1>1 DEF Last
<1> QED
  BY <1>1, <1>3, <1>4, <1>5, <1>7, <1>8

(* The addresses of a whole list, in an order of their own.                *)
LEMMA SetToSeqFacts ==
  ASSUME NEW S \in SUBSET Addresses
  PROVE  /\ SetToSeq(S) \in Seq(Addresses)
         /\ \A k, l \in 1 .. Len(SetToSeq(S)) : SetToSeq(S)[k] = SetToSeq(S)[l] => k = l
         /\ \A k \in 1 .. Len(SetToSeq(S)) : SetToSeq(S)[k] \in S
         /\ \A a \in S : \E k \in 1 .. Len(SetToSeq(S)) : SetToSeq(S)[k] = a
<1> DEFINE n == Cardinality(S)
           f == SetToSeq(S)
<1>0. IsFiniteSet(S)
  BY SetsAssumption, FS_Subset
<1>1. n \in Nat /\ ExistsBijection(1 .. n, S)
  BY <1>0, FS_CardinalityType
<1>2. PICK g : g \in Bijection(1 .. n, S)
  BY <1>1 DEF ExistsBijection
<1>3. g \in [1 .. n -> S] /\ IsInjective(g)
  BY <1>2 DEF Bijection, Injection
<1>4. f \in [1 .. n -> S] /\ IsInjective(f)
  <2> HIDE DEF n
  <2> QED
    BY <1>3 DEF SetToSeq, n
<1> HIDE DEF f
<1>5. f \in Injection(1 .. n, S)
  BY <1>4 DEF Injection
<1>6. Cardinality(1 .. n) = n
  <2>1. 1 \in Int /\ n \in Int
    BY <1>1
  <2>2. Cardinality(1 .. n) = IF 1 > n THEN 0 ELSE n - 1 + 1
    <3> HIDE DEF n
    <3> QED
      BY <2>1, FS_Interval
  <2> HIDE DEF n
  <2> QED
    BY <1>1, <2>2
<1>7. f \in Surjection(1 .. n, S)
  <2> HIDE DEF n
  <2>1. Cardinality(1 .. n) = Cardinality(S) <=> f \in Surjection(1 .. n, S)
    BY <1>0, <1>5, FS_Injection
  <2> QED
    BY <1>6, <2>1 DEF n
<1>8. \A a \in S : \E k \in 1 .. n : f[k] = a
  BY <1>7 DEF Surjection
<1>9. f \in Seq(Addresses) /\ Len(f) = n
  <2>1. f \in [1 .. n -> Addresses]
    BY <1>4
  <2> HIDE DEF n
  <2> QED
    BY <1>1, <2>1
<1>10. \A k, l \in 1 .. n : f[k] = f[l] => k = l
  BY <1>4 DEF IsInjective
<1>11. \A k \in 1 .. n : f[k] \in S
  BY <1>4
<1> HIDE DEF n
<1> QED
  BY <1>8, <1>9, <1>10, <1>11 DEF f

-----------------------------------------------------------------------------
(* Where a goroutine is, what its message and its loop variables are       *)
(* there, and the refreshers that are past the making of the channel.      *)
Placed(g) ==
  IF g \in Handlers THEN pc[g] \in HandlerAt \cup RemovalAt \cup SortAt
                    ELSE pc[g] \in RefresherAt \cup SortAt

Told(g) ==
  g \in Handlers /\ pc[g] \in {"on", "append", "off"} \cup RemovalAt => Len(msg[g]) = 1

Loops(g) ==
  /\ pc[g] \in SortAt => i[g] <= j[g]
  /\ pc[g] \notin SortAt => j[g] = 0
  /\ pc[g] \notin SortAt \cup RemovalAt \cup {"fill", "test", "store"} => i[g] = 0

Made == {r \in Refreshers : pc[r] \notin {"none", "check", "make"}}

TInv ==
  /\ TypeOK
  /\ \A g \in Goroutines : Placed(g) /\ Told(g) /\ Loops(g)
  /\ chan <= Cardinality(Made)

(* The steps of one goroutine; those of no other write to the list.        *)
Announces(h) ==
  \/ \E set \in SUBSET scope.addresses : ServerList(h, set)
  \/ \E a \in scope.addresses : ServerOn(h, a) \/ ServerOff(h, a)
Replaces(h) == MakeList(h) \/ Fill(h) \/ FillEnds(h)
Signals(h) == ChannelMade(h) \/ Signal(h)
Adds(h) == PingNew(h) \/ AppendNew(h)
Removes(h) == RemoveOld(h) \/ Scan(h) \/ Overwrite(h) \/ Cut(h) \/ ScanEnds(h)

Acts(g) ==
  \/ sortAgents(g)
  \/ g \in Handlers /\ (Announces(g) \/ Replaces(g) \/ Signals(g) \/ Adds(g) \/ Removes(g))
  \/ g \in Refreshers /\ refreshAgents(g)

Same(k) ==
  /\ pc'[k] = pc[k] /\ i'[k] = i[k] /\ j'[k] = j[k] /\ tmp'[k] = tmp[k]
  /\ k \in Handlers => msg'[k] = msg[k]

(* A step of one goroutine leaves the others where they are.               *)
LEMMA OthersSame ==
  ASSUME TypeOK, NEW g \in Goroutines, Acts(g)
  PROVE  \A k \in Goroutines \ {g} : Same(k)
<1>0. /\ pc \in [Goroutines -> HandlerAt \cup RefresherAt \cup RemovalAt \cup SortAt]
      /\ msg \in [Handlers -> Seq(Addresses)]
      /\ i \in [Goroutines -> Nat] /\ j \in [Goroutines -> Nat] /\ tmp \in [Goroutines -> Agents]
  BY DEF TypeOK
<1>1. CASE Compare(g) \/ First(g) \/ Second(g)
  BY <1>0, <1>1 DEF Same, Step, Forget, work, channel, Compare, First, Second
<1>2. CASE InnerEnds(g) \/ SortEnds(g)
  BY <1>0, <1>2 DEF Same, Step, Forget, work, channel, InnerEnds, SortEnds
<1>3. CASE g \in Handlers /\ Announces(g)
  BY <1>0, <1>3 DEF Same, Step, Forget, work, channel, Announces, ServerList, ServerOn, ServerOff, Receive
<1>4. CASE g \in Handlers /\ Replaces(g)
  BY <1>0, <1>4 DEF Same, Step, Forget, work, channel, Replaces, MakeList, NewList, Fill, FillEnds
<1>5. CASE g \in Handlers /\ (Signals(g) \/ Adds(g))
  BY <1>0, <1>5 DEF Same, Step, Forget, work, channel, Signals, Adds, ChannelMade, Signal, PingNew, AppendNew
<1>6. CASE g \in Handlers /\ Removes(g)
  BY <1>0, <1>6 DEF Same, Step, Forget, work, channel, Removes, RemoveOld, Scan, Overwrite, Cut, ScanEnds
<1>7. CASE g \in Refreshers /\ refreshAgents(g)
  BY <1>0, <1>7 DEF Same, Step, Forget, work, channel, refreshAgents, CheckChannel, MakeChannel, Ping, Store, AllPinged, Timer
<1> QED
  BY <1>1, <1>2, <1>3, <1>4, <1>5, <1>6, <1>7 DEF Acts, sortAgents

(* Every step is one of those, or moves two goroutines and nothing else.   *)
LEMMA Steps ==
  ASSUME [Next]_vars
  PROVE  \/ UNCHANGED vars
         \/ \E g \in Goroutines : Acts(g) \/ OutOfRange(g)
         \/ \E h \in Handlers, r \in Refreshers : StartRefresher(h, r) \/ Signalled(r, h)
<1>1. Handlers \subseteq Goroutines /\ Refreshers \subseteq Goroutines
  BY DEF Goroutines
<1>2. CASE Server
  BY <1>1, <1>2 DEF Server, Announces, Acts
<1>3. ASSUME NEW h \in Handlers, processServers(h)
      PROVE  Acts(h) \/ \E r \in Refreshers : StartRefresher(h, r)
  BY <1>3 DEF processServers, Acts, Replaces, Signals, Adds, Removes
<1>4. ASSUME NEW r \in Refreshers, refreshAgents(r)
      PROVE  Acts(r)
  BY <1>4 DEF Acts
<1>5. ASSUME NEW g \in Goroutines, sortAgents(g)
      PROVE  Acts(g)
  BY <1>5 DEF Acts
<1> QED
  BY <1>1, <1>2, <1>3, <1>4, <1>5 DEF Next

LEMMA Constants ==
  /\ scope \in Scopes => scope.messages \in Nat /\ scope.addresses \subseteq Addresses
  /\ NewAgent \in Agents /\ Unreachable \in Measures
  /\ \A a \in Addresses : Latency[a] \subseteq Measures /\ a # Blank
  /\ \A a \in Addresses, m \in Measures : Agent(a, m) \in Agents
  /\ Handlers \subseteq Goroutines /\ Refreshers \subseteq Goroutines
  /\ \A h \in Handlers : h \notin Refreshers
<1>1. scope \in Scopes => scope.messages \in Nat /\ scope.addresses \subseteq Addresses
  BY ScopesAssumption
<1>2. NewAgent \in Agents /\ \A a \in Addresses, m \in Measures : Agent(a, m) \in Agents
  BY DEF NewAgent, Agent, Agents, Measures, Unreachable
<1>3. \A a \in Addresses : Latency[a] \subseteq Measures /\ a # Blank
  BY LatencyAssumption, BlankAssumption
<1> QED
  BY <1>1, <1>2, <1>3, GoroutinesAssumption DEF Goroutines, Measures

(* What the writes make of the list.                                       *)
LEMMA ListTyped ==
  ASSUME TInv, NEW g \in Goroutines, Acts(g)
  PROVE  agents' \in Seq(Agents)
<1>0. /\ agents \in Seq(Agents) /\ Len(agents) \in Nat
      /\ \A k \in 1 .. Len(agents) : agents[k] \in Agents
      /\ i[g] \in Nat /\ j[g] \in Nat /\ tmp[g] \in Agents /\ measured[g] \in Measures
      /\ i[g] < Len(agents) => i[g] + 1 \in 1 .. Len(agents)
      /\ j[g] < Len(agents) => j[g] + 1 \in 1 .. Len(agents)
  BY ListFacts DEF TInv, TypeOK
<1>1. ASSUME NEW l \in Nat, l < Len(agents), NEW e \in Agents,
             agents' = [agents EXCEPT ![l + 1] = e]
      PROVE  agents' \in Seq(Agents)
  BY <1>0, <1>1, WriteFacts
<1>2. CASE First(g)
  BY <1>0, <1>1, <1>2 DEF First, At
<1>3. CASE Second(g)
  BY <1>0, <1>1, <1>3 DEF Second
<1>4. CASE g \in Handlers /\ Fill(g)
  <2>1. msg[g] \in Seq(Addresses) /\ i[g] + 1 \in 1 .. Len(msg[g])
    BY <1>0, <1>4, ListFacts DEF Fill, TInv, TypeOK
  <2>2. Agent(msg[g][i[g] + 1], Unreachable) \in Agents
    BY <2>1, ListFacts, Constants
  <2> QED
    BY <1>0, <1>1, <1>4, <2>2 DEF Fill
<1>5. CASE g \in Handlers /\ Overwrite(g)
  <2>1. agents # <<>>
    BY <1>0, <1>5, EmptySeq DEF Overwrite
  <2>2. Replacement \in Agents
    BY <1>0, <2>1, FrontFacts DEF Replacement
  <2> QED
    BY <1>0, <1>1, <1>5, <2>2 DEF Overwrite
<1>6. CASE g \in Refreshers /\ Store(g)
  <2>1. agents' = [agents EXCEPT ![i[g] + 1] = [agents[i[g] + 1] EXCEPT !.metric = measured[g]]]
    BY <1>6 DEF Store
  <2>2. [agents[i[g] + 1] EXCEPT !.metric = measured[g]] \in Agents
    BY <1>0, <1>6 DEF Store, Agents
  <2> QED
    BY <1>0, <1>1, <1>6, <2>1, <2>2 DEF Store
<1>7. CASE g \in Handlers /\ AppendNew(g)
  <2>1. msg[g] \in Seq(Addresses) /\ Len(msg[g]) = 1
    BY <1>7 DEF AppendNew, Step, TInv, TypeOK, Told
  <2>2. Agent(msg[g][1], measured[g]) \in Agents
    BY <1>0, <2>1, ListFacts, Constants
  <2> QED
    BY <1>0, <1>7, <2>2, AppendProperties DEF AppendNew
<1>8. CASE g \in Handlers /\ Cut(g)
  BY <1>0, <1>8, FrontFacts DEF Cut
<1>9. CASE g \in Handlers /\ MakeList(g)
  <2>1. msg[g] \in Seq(Addresses) /\ agents' = [k \in DOMAIN msg[g] |-> NewAgent]
    BY <1>9 DEF MakeList, NewList, TInv, TypeOK
  <2>2. Len(msg[g]) \in Nat /\ DOMAIN msg[g] = 1 .. Len(msg[g])
    BY <2>1, ListFacts
  <2>3. agents' \in [1 .. Len(msg[g]) -> Agents]
    BY <2>1, <2>2, Constants
  <2> QED
    BY <2>2, <2>3, SeqDef
<1>10. CASE agents' = agents
  BY <1>0, <1>10
<1> QED
  <2>1. CASE sortAgents(g)
    BY <1>2, <1>3, <1>10, <2>1 DEF sortAgents, Compare, InnerEnds, SortEnds
  <2>2. CASE g \in Handlers /\ (Announces(g) \/ Signals(g) \/ FillEnds(g) \/ PingNew(g))
    BY <1>10, <2>2 DEF Announces, ServerList, ServerOn, ServerOff, Receive, Signals,
                       ChannelMade, Signal, FillEnds, PingNew
  <2>3. CASE g \in Handlers /\ Removes(g)
    BY <1>5, <1>8, <1>10, <2>3 DEF Removes, RemoveOld, Scan, ScanEnds
  <2>4. CASE g \in Refreshers /\ refreshAgents(g)
    BY <1>6, <1>10, <2>4 DEF refreshAgents, CheckChannel, MakeChannel, Ping, AllPinged, Timer,
                              channel, work
  <2> QED
    BY <1>4, <1>7, <1>9, <2>1, <2>2, <2>3, <2>4 DEF Acts, Replaces, Adds

(* The types, but for the list and the channels.                           *)
RestOK ==
  /\ pc \in [Goroutines -> HandlerAt \cup RefresherAt \cup RemovalAt \cup SortAt]
  /\ msg \in [Handlers -> Seq(Addresses)]
  /\ i \in [Goroutines -> Nat] /\ j \in [Goroutines -> Nat]
  /\ tmp \in [Goroutines -> Agents]
  /\ measured \in [Goroutines -> Measures]
  /\ crashed \in BOOLEAN /\ raced \in BOOLEAN /\ shrunk \in BOOLEAN
  /\ disturbed \subseteq Goroutines /\ spoiled \in BOOLEAN
  /\ online \subseteq Addresses /\ scope \in Scopes /\ sent \in 0 .. scope.messages
  /\ to \in [Handlers -> Nat] /\ on \in [Refreshers -> Nat]

Own(g) == Placed(g) /\ Told(g) /\ Loops(g)

LEMMA ActRest ==
  ASSUME TInv, NEW g \in Goroutines, Acts(g)
  PROVE  RestOK' /\ Own(g)'
<1>0. /\ RestOK /\ Own(g) /\ agents \in Seq(Agents) /\ Len(agents) \in Nat
      /\ \A k \in 1 .. Len(agents) : agents[k] \in Agents
      /\ chan \in Nat
  BY ListFacts DEF TInv, TypeOK, RestOK, Own
<1>00. /\ HandlerAt = {"idle", "list", "fill", "decide", "send", "signal", "on", "append", "off"}
       /\ RefresherAt = {"none", "check", "make", "test", "store", "select"}
       /\ RemovalAt = {"scan", "over", "cut"} /\ SortAt = {"sort", "first", "second"}
       /\ g \in Handlers \/ (g \in Refreshers /\ g \notin Handlers)
  BY GoroutinesAssumption DEF Goroutines, HandlerAt, RefresherAt, RemovalAt, SortAt
<1>1. CASE Compare(g)
  <2>0. At(i[g]) \in Agents
    <3>1. i[g] + 1 \in 1 .. Len(agents)
      BY <1>0, <1>00, <1>1 DEF Compare, InList, Own, Loops, RestOK
    <3> QED
      BY <1>0, <3>1 DEF At
  <2>1. RestOK'
    <3>1. CASE Swaps(At(i[g]), At(j[g]))
      <4>1. /\ pc' = [pc EXCEPT ![g] = "first"] /\ tmp' = [tmp EXCEPT ![g] = At(i[g])]
            /\ raced' = (raced \/ Others(g, Moves \cup {"append"}))
            /\ UNCHANGED <<crashed, j, msg, i, measured, chan, to, on, online, scope, sent,
                           shrunk, disturbed, spoiled>>
        BY <1>1, <3>1 DEF Compare, Step, StartMove, channel, outside
      <4> QED
        BY <1>0, <1>00, <2>0, <4>1 DEF RestOK, Others
    <3>2. CASE ~Swaps(At(i[g]), At(j[g]))
      <4>1. /\ pc' = [pc EXCEPT ![g] = "sort"] /\ j' = [j EXCEPT ![g] = j[g] + 1]
            /\ UNCHANGED <<crashed, tmp, msg, i, measured, chan, to, on, online, scope, sent,
                           raced, shrunk, disturbed, spoiled>>
        BY <1>1, <3>2 DEF Compare, Step, channel, outside
      <4> QED
        BY <1>0, <1>00, <4>1 DEF RestOK
    <3> QED
      BY <3>1, <3>2
  <2>2. Own(g)'
    BY <1>0, <1>00, <1>1, Constants
       DEF Compare, RestOK, Own, Placed, Told, Loops, Step, InList, work, channel
  <2> QED
    BY <2>1, <2>2
<1>2. CASE First(g)
  <2>1. RestOK'
    BY <1>0, <1>00, <1>2, Constants
       DEF First, RestOK, Own, Loops, Step, StartMove, Shorten, Disturb, Others,
           InList, work, channel, outside, history
  <2>2. Own(g)'
    BY <1>0, <1>00, <1>2, Constants
       DEF First, RestOK, Own, Placed, Told, Loops, Step, InList, work, channel
  <2> QED
    BY <2>1, <2>2
<1>3. CASE Second(g)
  <2>1. RestOK'
    BY <1>0, <1>00, <1>3, Constants
       DEF Second, RestOK, Own, Loops, Step, StartMove, Shorten, Disturb, Others,
           InList, work, channel, outside, history
  <2>2. Own(g)'
    BY <1>0, <1>00, <1>3, Constants
       DEF Second, RestOK, Own, Placed, Told, Loops, Step, InList, work, channel
  <2> QED
    BY <2>1, <2>2
<1>4. CASE InnerEnds(g)
  <2>1. RestOK'
    BY <1>0, <1>00, <1>4, Constants
       DEF InnerEnds, RestOK, Own, Loops, Step, StartMove, Shorten, Disturb, Others,
           InList, work, channel, outside, history
  <2>2. Own(g)'
    BY <1>0, <1>00, <1>4, Constants
       DEF InnerEnds, RestOK, Own, Placed, Told, Loops, Step, InList, work, channel
  <2> QED
    BY <2>1, <2>2
<1>5. CASE SortEnds(g)
  <2>1. RestOK'
    BY <1>0, <1>00, <1>5, Constants
       DEF SortEnds, Sorted, End, Begin, RestOK, Own, Loops, Step, StartMove, Shorten, Disturb, Others,
           InList, work, channel, outside, history
  <2>2. Own(g)'
    BY <1>0, <1>00, <1>5, Constants
       DEF SortEnds, Sorted, End, Begin, RestOK, Own, Placed, Told, Loops, Step, InList, work, channel
  <2> QED
    BY <2>1, <2>2
<1>6. CASE g \in Handlers /\ Announces(g)
  <2>1. scope.messages \in Nat /\ scope.addresses \subseteq Addresses /\ sent < scope.messages
    BY <1>0, <1>6, Constants DEF RestOK, Announces, ServerList, ServerOn, ServerOff, Receive
  <2>2. PICK label \in {"list", "on", "off"}, about \in Seq(Addresses) :
          /\ Receive(g, label, about)
          /\ label # "list" => Len(about) = 1
          /\ online' \subseteq Addresses
    <3>1. ASSUME NEW set \in SUBSET scope.addresses, ServerList(g, set)
          PROVE  \E label \in {"list", "on", "off"}, about \in Seq(Addresses) :
                   /\ Receive(g, label, about)
                   /\ label # "list" => Len(about) = 1
                   /\ online' \subseteq Addresses
      BY <2>1, <3>1, SetToSeqFacts DEF ServerList
    <3>2. ASSUME NEW a \in scope.addresses, ServerOn(g, a) \/ ServerOff(g, a)
          PROVE  \E label \in {"list", "on", "off"}, about \in Seq(Addresses) :
                   /\ Receive(g, label, about)
                   /\ label # "list" => Len(about) = 1
                   /\ online' \subseteq Addresses
      <4>1. <<a>> \in Seq(Addresses) /\ Len(<<a>>) = 1 /\ online \subseteq Addresses
        BY <1>0, <2>1 DEF RestOK
      <4> QED
        BY <2>1, <3>2, <4>1 DEF ServerOn, ServerOff
    <3> QED
      BY <1>6, <3>1, <3>2 DEF Announces
  <2>3. raced' \in BOOLEAN /\ sent' \in 0 .. scope.messages
    BY <1>0, <2>1, <2>2 DEF RestOK, Receive, Busy
  <2> QED
    BY <1>0, <1>00, <1>6, <2>2, <2>3
       DEF Receive, RestOK, Own, Placed, Told, Loops, Step, channel
<1>7. CASE g \in Handlers /\ MakeList(g)
  <2>1. RestOK'
    BY <1>0, <1>00, <1>7, Constants
       DEF MakeList, NewList, RestOK, Own, Loops, Step, StartMove, Shorten, Disturb, Others,
           InList, work, channel, outside, history
  <2>2. Own(g)'
    BY <1>0, <1>00, <1>7, Constants
       DEF MakeList, NewList, RestOK, Own, Placed, Told, Loops, Step, InList, work, channel
  <2> QED
    BY <2>1, <2>2
<1>8. CASE g \in Handlers /\ Fill(g)
  <2>1. RestOK'
    BY <1>0, <1>00, <1>8, Constants
       DEF Fill, RestOK, Own, Loops, Step, StartMove, Shorten, Disturb, Others,
           InList, work, channel, outside, history
  <2>2. Own(g)'
    BY <1>0, <1>00, <1>8, Constants
       DEF Fill, RestOK, Own, Placed, Told, Loops, Step, InList, work, channel
  <2> QED
    BY <2>1, <2>2
<1>9. CASE g \in Handlers /\ FillEnds(g)
  <2>1. RestOK'
    BY <1>0, <1>00, <1>9, Constants
       DEF FillEnds, End, Begin, Forget, RestOK, Own, Loops, Step, StartMove, Shorten, Disturb, Others,
           InList, work, channel, outside, history
  <2>2. Own(g)'
    BY <1>0, <1>00, <1>9, Constants
       DEF FillEnds, End, Begin, Forget, RestOK, Own, Placed, Told, Loops, Step, InList, work, channel
  <2> QED
    BY <2>1, <2>2
<1>10. CASE g \in Handlers /\ ChannelMade(g)
  <2>1. RestOK'
    BY <1>0, <1>00, <1>10, Constants
       DEF ChannelMade, RestOK, Own, Loops, Step, StartMove, Shorten, Disturb, Others,
           InList, work, channel, outside, history
  <2>2. Own(g)'
    BY <1>0, <1>00, <1>10, Constants
       DEF ChannelMade, RestOK, Own, Placed, Told, Loops, Step, InList, work, channel
  <2> QED
    BY <2>1, <2>2
<1>11. CASE g \in Handlers /\ Signal(g)
  <2>1. RestOK'
    BY <1>0, <1>00, <1>11, Constants
       DEF Signal, RestOK, Own, Loops, Step, StartMove, Shorten, Disturb, Others,
           InList, work, channel, outside, history
  <2>2. Own(g)'
    BY <1>0, <1>00, <1>11, Constants
       DEF Signal, RestOK, Own, Placed, Told, Loops, Step, InList, work, channel
  <2> QED
    BY <2>1, <2>2
<1>12. CASE g \in Handlers /\ PingNew(g)
  <2>0. msg[g][1] \in Addresses
    <3>1. msg[g] \in Seq(Addresses) /\ Len(msg[g]) = 1
      BY <1>0, <1>12 DEF PingNew, Step, Own, Told, RestOK
    <3> QED
      BY <3>1, ListFacts
  <2>1. RestOK'
    BY <1>0, <1>00, <1>12, <2>0, Constants
       DEF PingNew, RestOK, Own, Loops, Step, StartMove, Shorten, Disturb, Others,
           InList, work, channel, outside, history
  <2>2. Own(g)'
    BY <1>0, <1>00, <1>12, Constants
       DEF PingNew, RestOK, Own, Placed, Told, Loops, Step, InList, work, channel
  <2> QED
    BY <2>1, <2>2
<1>13. CASE g \in Handlers /\ AppendNew(g)
  <2>1. RestOK'
    BY <1>0, <1>00, <1>13, Constants
       DEF AppendNew, Forget, RestOK, Own, Loops, Step, StartMove, Shorten, Disturb, Others,
           InList, work, channel, outside, history
  <2>2. Own(g)'
    BY <1>0, <1>00, <1>13, Constants
       DEF AppendNew, Forget, RestOK, Own, Placed, Told, Loops, Step, InList, work, channel
  <2> QED
    BY <2>1, <2>2
<1>14. CASE g \in Handlers /\ RemoveOld(g)
  <2>1. RestOK'
    BY <1>0, <1>00, <1>14, Constants
       DEF RemoveOld, RestOK, Own, Loops, Step, StartMove, Shorten, Disturb, Others,
           InList, work, channel, outside, history
  <2>2. Own(g)'
    BY <1>0, <1>00, <1>14, Constants
       DEF RemoveOld, RestOK, Own, Placed, Told, Loops, Step, InList, work, channel
  <2> QED
    BY <2>1, <2>2
<1>15. CASE g \in Handlers /\ Scan(g)
  <2>1. RestOK'
    BY <1>0, <1>00, <1>15, Constants
       DEF Scan, RestOK, Own, Loops, Step, StartMove, Shorten, Disturb, Others,
           InList, work, channel, outside, history
  <2>2. Own(g)'
    BY <1>0, <1>00, <1>15, Constants
       DEF Scan, RestOK, Own, Placed, Told, Loops, Step, InList, work, channel
  <2> QED
    BY <2>1, <2>2
<1>16. CASE g \in Handlers /\ Overwrite(g)
  <2>1. RestOK'
    BY <1>0, <1>00, <1>16, Constants
       DEF Overwrite, RestOK, Own, Loops, Step, StartMove, Shorten, Disturb, Others,
           InList, work, channel, outside, history
  <2>2. Own(g)'
    BY <1>0, <1>00, <1>16, Constants
       DEF Overwrite, RestOK, Own, Placed, Told, Loops, Step, InList, work, channel
  <2> QED
    BY <2>1, <2>2
<1>17. CASE g \in Handlers /\ Cut(g)
  <2>1. RestOK'
    BY <1>0, <1>00, <1>17, Constants
       DEF Cut, RestOK, Own, Loops, Step, StartMove, Shorten, Disturb, Others,
           InList, work, channel, outside, history
  <2>2. Own(g)'
    BY <1>0, <1>00, <1>17, Constants
       DEF Cut, RestOK, Own, Placed, Told, Loops, Step, InList, work, channel
  <2> QED
    BY <2>1, <2>2
<1>18. CASE g \in Handlers /\ ScanEnds(g)
  <2>1. RestOK'
    BY <1>0, <1>00, <1>18, Constants
       DEF ScanEnds, Forget, RestOK, Own, Loops, Step, StartMove, Shorten, Disturb, Others,
           InList, work, channel, outside, history
  <2>2. Own(g)'
    BY <1>0, <1>00, <1>18, Constants
       DEF ScanEnds, Forget, RestOK, Own, Placed, Told, Loops, Step, InList, work, channel
  <2> QED
    BY <2>1, <2>2
<1>19. CASE g \in Refreshers /\ (CheckChannel(g) \/ Timer(g))
  <2>1. RestOK'
    BY <1>0, <1>00, <1>19, Constants
       DEF CheckChannel, Timer, RestOK, Own, Loops, Step, StartMove, Shorten, Disturb, Others,
           InList, work, channel, outside, history
  <2>2. Own(g)'
    BY <1>0, <1>00, <1>19, Constants
       DEF CheckChannel, Timer, RestOK, Own, Placed, Told, Loops, Step, InList, work, channel
  <2> QED
    BY <2>1, <2>2
<1>20. CASE g \in Refreshers /\ MakeChannel(g)
  <2>1. RestOK'
    BY <1>0, <1>00, <1>20, Constants
       DEF MakeChannel, RestOK, Own, Loops, Step, StartMove, Shorten, Disturb, Others,
           InList, work, channel, outside, history
  <2>2. Own(g)'
    BY <1>0, <1>00, <1>20, Constants
       DEF MakeChannel, RestOK, Own, Placed, Told, Loops, Step, InList, work, channel
  <2> QED
    BY <2>1, <2>2
<1>21. CASE g \in Refreshers /\ Ping(g)
  <2>0. Answers(At(i[g]).address) \subseteq Measures
    <3>1. i[g] + 1 \in 1 .. Len(agents)
      BY <1>0, <1>21 DEF Ping, InList, RestOK
    <3>2. At(i[g]).address \in Addresses \cup {Blank}
      BY <1>0, <3>1 DEF At, Agents
    <3> QED
      BY <3>2, Constants DEF Answers
  <2>1. RestOK'
    BY <1>0, <1>00, <1>21, <2>0, Constants
       DEF Ping, RestOK, Own, Loops, Step, StartMove, Shorten, Disturb, Others,
           InList, work, channel, outside, history
  <2>2. Own(g)'
    BY <1>0, <1>00, <1>21, Constants
       DEF Ping, RestOK, Own, Placed, Told, Loops, Step, InList, work, channel
  <2> QED
    BY <2>1, <2>2
<1>22. CASE g \in Refreshers /\ Store(g)
  <2>1. RestOK'
    BY <1>0, <1>00, <1>22, Constants
       DEF Store, RestOK, Own, Loops, Step, StartMove, Shorten, Disturb, Others,
           InList, work, channel, outside, history
  <2>2. Own(g)'
    BY <1>0, <1>00, <1>22, Constants
       DEF Store, RestOK, Own, Placed, Told, Loops, Step, InList, work, channel
  <2> QED
    BY <2>1, <2>2
<1>23. CASE g \in Refreshers /\ AllPinged(g)
  <2>1. RestOK'
    BY <1>0, <1>00, <1>23, Constants
       DEF AllPinged, RestOK, Own, Loops, Step, StartMove, Shorten, Disturb, Others,
           InList, work, channel, outside, history
  <2>2. Own(g)'
    BY <1>0, <1>00, <1>23, Constants
       DEF AllPinged, RestOK, Own, Placed, Told, Loops, Step, InList, work, channel
  <2> QED
    BY <2>1, <2>2
<1> QED
  BY <1>1, <1>2, <1>3, <1>4, <1>5, <1>6, <1>7, <1>8, <1>9, <1>10, <1>11, <1>12, <1>13, <1>14, <1>15, <1>16, <1>17, <1>18, <1>19, <1>20, <1>21, <1>22, <1>23
     DEF Acts, sortAgents, Replaces, Signals, Adds, Removes, refreshAgents

(* Every step keeps the types; a channel is made by a refresher that then  *)
(* is past its making.                                                     *)
LEMMA MadeFacts ==
  ASSUME NEW S \in SUBSET Refreshers
  PROVE  /\ Cardinality(S) \in Nat /\ Cardinality(S) <= Cardinality(Refreshers)
         /\ \A T \in SUBSET S : Cardinality(T) <= Cardinality(S)
         /\ \A r \in S : Cardinality(S \ {r}) = Cardinality(S) - 1
<1>1. IsFiniteSet(S) /\ Cardinality(S) <= Cardinality(Refreshers)
  BY SetsAssumption, FS_Subset
<1>2. Cardinality(S) \in Nat
  BY <1>1, FS_CardinalityType
<1>3. \A T \in SUBSET S : Cardinality(T) <= Cardinality(S)
  BY <1>1, FS_Subset
<1>4. \A r \in S : Cardinality(S \ {r}) = Cardinality(S) - 1
  BY <1>1, FS_RemoveElement
<1> QED
  BY <1>1, <1>2, <1>3, <1>4

LEMMA MadeStep ==
  ASSUME TInv, RestOK', agents' \in Seq(Agents), \A g \in Goroutines : Own(g)',
         \/ chan' = chan /\ Made \subseteq Made'
         \/ /\ chan' = chan + 1
            /\ \E r \in Refreshers : r \notin Made /\ Made' = Made \cup {r}
  PROVE  TInv'
<1>1. Made \in SUBSET Refreshers /\ Made' \in SUBSET Refreshers
  BY DEF Made
<1>2. chan \in Nat /\ chan <= Cardinality(Made)
  BY DEF TInv, TypeOK
<1>3. Cardinality(Made) \in Nat /\ Cardinality(Made') \in Nat
      /\ Cardinality(Made') <= Cardinality(Refreshers)
      /\ \A T \in SUBSET Made' : Cardinality(T) <= Cardinality(Made')
      /\ \A r \in Made' : Cardinality(Made' \ {r}) = Cardinality(Made') - 1
  <2> DEFINE M == Made
             N == Made'
  <2>1. M \in SUBSET Refreshers /\ N \in SUBSET Refreshers
    BY <1>1
  <2> HIDE DEF M, N
  <2>2. Cardinality(M) \in Nat /\ Cardinality(N) \in Nat
        /\ Cardinality(N) <= Cardinality(Refreshers)
        /\ \A T \in SUBSET N : Cardinality(T) <= Cardinality(N)
        /\ \A r \in N : Cardinality(N \ {r}) = Cardinality(N) - 1
    BY <2>1, MadeFacts
  <2> QED
    BY <2>2 DEF M, N
<1>4. Cardinality(Refreshers) \in Nat
  BY SetsAssumption, FS_CardinalityType
<1>5. chan' \in Nat /\ chan' <= Cardinality(Made')
  <2>1. CASE chan' = chan /\ Made \subseteq Made'
    BY <1>2, <1>3, <2>1
  <2>2. CASE chan' = chan + 1 /\ \E r \in Refreshers : r \notin Made /\ Made' = Made \cup {r}
    <3>1. PICK r \in Refreshers : r \notin Made /\ Made' = Made \cup {r}
      BY <2>2
    <3>2. r \in Made' /\ Made' \ {r} = Made
      BY <3>1
    <3>3. Cardinality(Made) = Cardinality(Made') - 1
      BY <1>3, <3>2
    <3> QED
      BY <1>2, <1>3, <2>2, <3>3
  <2> QED
    BY <2>1, <2>2
<1>6. chan' \in 0 .. Cardinality(Refreshers)
  BY <1>3, <1>4, <1>5
<1>7. TypeOK'
  BY <1>6 DEF TypeOK, RestOK
<1> QED
  BY <1>5, <1>7 DEF TInv, Own

LEMMA ActTyped ==
  ASSUME TInv, NEW g \in Goroutines, Acts(g)
  PROVE  TInv'
<1>0. /\ pc \in [Goroutines -> HandlerAt \cup RefresherAt \cup RemovalAt \cup SortAt]
      /\ Refreshers \subseteq Goroutines /\ TypeOK /\ Own(g)
  BY Constants DEF TInv, TypeOK, Own
<1>1. RestOK' /\ Own(g)' /\ agents' \in Seq(Agents)
  BY ActRest, ListTyped
<1>2. \A k \in Goroutines \ {g} : Same(k)
  BY <1>0, OthersSame
<1>3. \A k \in Goroutines : Own(k)'
  BY <1>1, <1>2 DEF TInv, Own, Placed, Told, Loops, Same
<1>4. CASE g \in Refreshers /\ MakeChannel(g)
  <2>1. pc[g] = "make" /\ pc'[g] = "test" /\ chan' = chan + 1
    BY <1>0, <1>4 DEF MakeChannel, Step
  <2>2. g \notin Made /\ Made' = Made \cup {g}
    BY <1>0, <1>2, <1>4, <2>1 DEF Made, Same
  <2> QED
    BY <1>1, <1>3, <1>4, <2>1, <2>2, MadeStep
<1>5. CASE ~(g \in Refreshers /\ MakeChannel(g))
  <2>1. chan' = chan
    BY <1>5 DEF Acts, sortAgents, Compare, First, Second, InnerEnds, SortEnds, Announces,
                ServerList, ServerOn, ServerOff, Receive, Replaces, MakeList, NewList, Fill, FillEnds,
                Signals, ChannelMade, Signal, Adds, PingNew, AppendNew, Removes, RemoveOld,
                Scan, Overwrite, Cut, ScanEnds, refreshAgents, CheckChannel, Ping, Store,
                AllPinged, Timer, channel
  <2>2. g \in Refreshers /\ pc[g] \notin {"none", "check", "make"}
          => pc'[g] \notin {"none", "check", "make"}
    <3>1. CASE sortAgents(g)
      BY <1>0, <3>1 DEF sortAgents, Compare, First, Second, InnerEnds, SortEnds, Sorted, Step
    <3>2. CASE g \in Refreshers /\ refreshAgents(g)
      BY <1>0, <3>2 DEF refreshAgents, CheckChannel, MakeChannel, Ping, Store, AllPinged,
                        Timer, Step
    <3> QED
      BY <3>1, <3>2, Constants DEF Acts
  <2>3. Made \subseteq Made'
    BY <1>0, <1>2, <2>2 DEF Made, Same
  <2> QED
    BY <1>1, <1>3, <2>1, <2>3, MadeStep
<1> QED
  BY <1>4, <1>5

(* The steps of two goroutines move them, and change nothing of the list.  *)
LEMMA JointStep ==
  ASSUME TInv, NEW h \in Handlers, NEW r \in Refreshers, StartRefresher(h, r) \/ Signalled(r, h)
  PROVE  /\ pc' = [pc EXCEPT ![h] = "idle", ![r] = pc'[r]]
         /\ \/ pc[h] = "decide" /\ pc[r] = "none" /\ pc'[r] = "check"
            \/ pc[h] = "signal" /\ pc[r] = "select" /\ pc'[r] = "test"
         /\ pc'[h] = "idle" /\ \A g \in Goroutines \ {h, r} : pc'[g] = pc[g]
         /\ UNCHANGED <<crashed, agents, msg, i, j, tmp, measured, chan, outside, history>>
         /\ to' \in [Handlers -> Nat] /\ on' \in [Refreshers -> Nat]
<1>1. /\ pc \in [Goroutines -> HandlerAt \cup RefresherAt \cup RemovalAt \cup SortAt]
      /\ h \in Goroutines /\ r \in Goroutines /\ h # r
      /\ to \in [Handlers -> Nat] /\ on \in [Refreshers -> Nat]
  BY Constants DEF TInv, TypeOK
<1>2. CASE StartRefresher(h, r)
  BY <1>1, <1>2 DEF StartRefresher, channel
<1>3. CASE Signalled(r, h)
  BY <1>1, <1>3 DEF Signalled
<1> QED
  BY <1>2, <1>3

LEMMA JointTyped ==
  ASSUME TInv, NEW h \in Handlers, NEW r \in Refreshers, StartRefresher(h, r) \/ Signalled(r, h)
  PROVE  TInv'
<1>1. /\ pc' = [pc EXCEPT ![h] = "idle", ![r] = pc'[r]]
      /\ \/ pc[h] = "decide" /\ pc[r] = "none" /\ pc'[r] = "check"
         \/ pc[h] = "signal" /\ pc[r] = "select" /\ pc'[r] = "test"
      /\ pc'[h] = "idle" /\ \A g \in Goroutines \ {h, r} : pc'[g] = pc[g]
      /\ UNCHANGED <<crashed, agents, msg, i, j, tmp, measured, chan, online, scope, sent,
                     raced, shrunk, disturbed, spoiled>>
      /\ to' \in [Handlers -> Nat] /\ on' \in [Refreshers -> Nat]
  <2>1. UNCHANGED <<crashed, agents, msg, i, j, tmp, measured, chan, outside, history>>
    BY JointStep
  <2>2. /\ pc' = [pc EXCEPT ![h] = "idle", ![r] = pc'[r]]
        /\ \/ pc[h] = "decide" /\ pc[r] = "none" /\ pc'[r] = "check"
           \/ pc[h] = "signal" /\ pc[r] = "select" /\ pc'[r] = "test"
        /\ pc'[h] = "idle" /\ \A g \in Goroutines \ {h, r} : pc'[g] = pc[g]
        /\ to' \in [Handlers -> Nat] /\ on' \in [Refreshers -> Nat]
    BY JointStep
  <2>3. UNCHANGED <<online, scope, sent, raced, shrunk, disturbed, spoiled>>
    BY <2>1 DEF outside, history
  <2> QED
    BY <2>1, <2>2, <2>3
<1>2. /\ pc \in [Goroutines -> HandlerAt \cup RefresherAt \cup RemovalAt \cup SortAt]
      /\ h \in Goroutines /\ r \in Goroutines /\ h # r /\ r \notin Handlers /\ h \notin Refreshers
      /\ RestOK /\ agents \in Seq(Agents) /\ \A g \in Goroutines : Own(g)
  BY Constants DEF TInv, TypeOK, RestOK, Own
<1>3. pc' \in [Goroutines -> HandlerAt \cup RefresherAt \cup RemovalAt \cup SortAt]
  BY <1>1, <1>2 DEF HandlerAt, RefresherAt
<1>4. RestOK'
  BY <1>1, <1>2, <1>3 DEF RestOK
<1>5. ASSUME NEW g \in Goroutines
      PROVE  Own(g)'
  <2>1. Own(g)
    BY <1>2
  <2>2. CASE g \notin {h, r}
    BY <1>1, <2>1, <2>2 DEF Own, Placed, Told, Loops
  <2>3. CASE g = h
    BY <1>1, <1>2, <2>1, <2>3 DEF Own, Placed, Told, Loops, HandlerAt, RemovalAt, SortAt
  <2>4. CASE g = r
    BY <1>1, <1>2, <2>1, <2>4 DEF Own, Placed, Told, Loops, RefresherAt, RemovalAt, SortAt
  <2> QED
    BY <2>2, <2>3, <2>4
<1>6. Made \subseteq Made'
  BY <1>1, <1>2, Constants DEF Made
<1> QED
  BY <1>1, <1>2, <1>4, <1>5, <1>6, MadeStep

LEMMA NextTyped == TInv /\ [Next]_vars => TInv'
<1> SUFFICES ASSUME TInv, [Next]_vars
             PROVE  TInv'
  OBVIOUS
<1>1. CASE UNCHANGED vars
  BY <1>1 DEF vars, work, channel, outside, history, TInv, TypeOK, Placed, Told, Loops, Made
<1>2. ASSUME NEW g \in Goroutines, OutOfRange(g)
      PROVE  TInv'
  BY <1>2 DEF OutOfRange, Panic, work, channel, outside, history, TInv, TypeOK, Placed, Told,
              Loops, Made
<1> QED
  BY <1>1, <1>2, Steps, ActTyped, JointTyped

LEMMA InitTyped == Init => TInv
<1> SUFFICES ASSUME Init
             PROVE  TInv
  OBVIOUS
<1>1. /\ \A h \in Handlers : pc[h] = "idle"
      /\ \A r \in Refreshers : pc[r] = "none"
      /\ \A g \in Goroutines : i[g] = 0 /\ j[g] = 0
  BY Constants DEF Init
<1>2. \A g \in Goroutines : Own(g)
  BY <1>1 DEF Goroutines, Own, Placed, Told, Loops, HandlerAt, RefresherAt, RemovalAt, SortAt
<1>3. Cardinality(Made) = 0
  <2>1. Made = {}
    BY <1>1 DEF Made
  <2> QED
    BY <2>1, FS_EmptySet
<1>4. Cardinality(Refreshers) \in Nat
  BY SetsAssumption, FS_CardinalityType
<1>5. /\ pc \in [Goroutines -> HandlerAt \cup RefresherAt \cup RemovalAt \cup SortAt]
      /\ msg \in [Handlers -> Seq(Addresses)] /\ agents \in Seq(Agents)
  BY DEF Init, HandlerAt, RefresherAt
<1>6. RestOK
  <2>1. 0 \in Nat /\ NewAgent \in Agents /\ Unreachable \in Measures
    BY Constants
  <2>2. /\ i \in [Goroutines -> Nat] /\ j \in [Goroutines -> Nat]
        /\ tmp \in [Goroutines -> Agents] /\ measured \in [Goroutines -> Measures]
        /\ to \in [Handlers -> Nat] /\ on \in [Refreshers -> Nat]
    BY <2>1 DEF Init
  <2>3. scope \in Scopes /\ sent \in 0 .. scope.messages
    <3>1. scope \in Scopes /\ sent = 0
      BY DEF Init
    <3> QED
      BY <3>1, Constants
  <2>4. /\ crashed = FALSE /\ raced = FALSE /\ shrunk = FALSE /\ spoiled = FALSE
        /\ disturbed = {} /\ online = {}
    BY DEF Init
  <2> QED
    BY <1>5, <2>2, <2>3, <2>4 DEF RestOK
<1>7. TypeOK
  BY <1>4, <1>5, <1>6 DEF TypeOK, RestOK, Init
<1> QED
  BY <1>2, <1>3, <1>7 DEF TInv, Own, Init

-----------------------------------------------------------------------------
(* What a step makes of the list's length, and what it notes of it.        *)
LEMMA Lengths ==
  ASSUME TInv, NEW g \in Goroutines, Acts(g)
  PROVE  /\ ~crashed /\ ~crashed' /\ (shrunk => shrunk')
         /\ Len(agents) \in Nat /\ Len(agents') \in Nat
         /\ Len(agents') < Len(agents) => Shorten(g)
         /\ ~MakeList(g) /\ ~Cut(g) => Len(agents') >= Len(agents)
         /\ g \in Handlers /\ MakeList(g) => Len(agents') = Len(msg[g])
         /\ ~MakeList(g) /\ ~Cut(g) /\ ~AppendNew(g) => Len(agents') = Len(agents)
<1>0. /\ agents \in Seq(Agents) /\ agents' \in Seq(Agents)
      /\ Len(agents) \in Nat /\ Len(agents') \in Nat
      /\ i[g] \in Nat /\ j[g] \in Nat /\ tmp[g] \in Agents
  BY ListTyped, ListFacts DEF TInv, TypeOK
<1>1. ASSUME NEW l \in Nat, l < Len(agents), NEW e,
             agents' = [agents EXCEPT ![l + 1] = e]
      PROVE  Len(agents') = Len(agents)
  <2>1. DOMAIN agents' = DOMAIN agents
    BY <1>1
  <2> QED
    BY <1>0, <2>1, ListFacts
<1>2. ~crashed /\ ~crashed' /\ (shrunk => shrunk')
  <2>1. CASE sortAgents(g)
    BY <2>1 DEF sortAgents, Compare, First, Second, InnerEnds, SortEnds, Step, history
  <2>2. CASE g \in Handlers /\ (Announces(g) \/ Replaces(g))
    <3>1. CASE Announces(g)
      BY <3>1 DEF Announces, ServerList, ServerOn, ServerOff, Receive, Step
    <3>2. CASE MakeList(g)
      BY <3>2 DEF MakeList, NewList, Step, Shorten
    <3>3. CASE Fill(g) \/ FillEnds(g)
      BY <3>3 DEF Fill, FillEnds, Step
    <3> QED
      BY <2>2, <3>1, <3>2, <3>3 DEF Replaces
  <2>3. CASE g \in Handlers /\ (Signals(g) \/ Adds(g))
    BY <2>3 DEF Signals, ChannelMade, Signal, Adds, PingNew, AppendNew, Step, history
  <2>4. CASE g \in Handlers /\ Removes(g)
    <3>1. CASE ScanEnds(g)
      <4>1. ~crashed /\ crashed' = crashed
        BY <3>1 DEF ScanEnds, Step
      <4>2. shrunk' = shrunk
        BY <3>1 DEF ScanEnds, history
      <4> QED
        BY <4>1, <4>2
    <3>2. CASE Overwrite(g)
      BY <3>2 DEF Overwrite, Step
    <3>5. CASE Cut(g)
      BY <3>5 DEF Cut, Step, Shorten
    <3>3. CASE Scan(g)
      BY <3>3 DEF Scan, Step, history
    <3>4. CASE RemoveOld(g)
      BY <3>4 DEF RemoveOld, Step
    <3> QED
      BY <2>4, <3>1, <3>2, <3>3, <3>4, <3>5 DEF Removes
  <2>5. CASE g \in Refreshers /\ refreshAgents(g)
    BY <2>5 DEF refreshAgents, CheckChannel, MakeChannel, Ping, Store, AllPinged, Timer, Step,
                history
  <2> QED
    BY <2>1, <2>2, <2>3, <2>4, <2>5 DEF Acts
<1>3. CASE sortAgents(g)
  <2>1. Len(agents') = Len(agents)
    BY <1>0, <1>1, <1>3 DEF sortAgents, Compare, First, Second, InnerEnds, SortEnds
  <2>2. ~MakeList(g) /\ ~Cut(g) /\ ~AppendNew(g)
    BY <1>3 DEF sortAgents, Compare, First, Second, InnerEnds, SortEnds, Step, MakeList, NewList, Cut,
                AppendNew
  <2> QED
    BY <1>0, <1>2, <2>1, <2>2
<1>4. CASE g \in Handlers /\ MakeList(g)
  <2>1. msg[g] \in Seq(Addresses) /\ DOMAIN agents' = DOMAIN msg[g]
    BY <1>4 DEF MakeList, NewList, TInv, TypeOK
  <2>2. Len(agents') = Len(msg[g])
    BY <1>0, <2>1, ListFacts
  <2>3. Len(msg[g]) < Len(agents) => Shorten(g)
    BY <1>4 DEF MakeList, NewList
  <2>4. ~Cut(g) /\ ~AppendNew(g)
    BY <1>4 DEF MakeList, NewList, Cut, AppendNew, Step
  <2> QED
    BY <1>0, <1>2, <1>4, <2>2, <2>3, <2>4
<1>5. CASE g \in Handlers /\ Cut(g)
  <2>1. Len(agents') = Len(agents) - 1 /\ Shorten(g)
    BY <1>0, <1>5, FrontFacts DEF Cut
  <2>2. ~MakeList(g)
    BY <1>5 DEF MakeList, NewList, Cut, Step
  <2> QED
    BY <1>0, <1>2, <1>5, <2>1, <2>2
<1>6. CASE g \in Handlers /\ AppendNew(g)
  <2>1. Len(agents') = Len(agents) + 1
    <3>1. measured[g] \in Measures /\ msg[g] \in Seq(Addresses) /\ Len(msg[g]) = 1
      BY <1>6 DEF TInv, TypeOK, Told, AppendNew, Step
    <3>2. Agent(msg[g][1], measured[g]) \in Agents
      BY <3>1, ListFacts, Constants
    <3> QED
      BY <1>0, <1>6, <3>2, AppendProperties DEF AppendNew
  <2>2. ~MakeList(g) /\ ~Cut(g)
    BY <1>6 DEF MakeList, NewList, Cut, AppendNew, Step
  <2> QED
    BY <1>0, <1>2, <1>6, <2>1, <2>2
<1>7. CASE ~sortAgents(g) /\ ~(g \in Handlers /\ (MakeList(g) \/ Cut(g) \/ AppendNew(g)))
  <2>1. Len(agents') = Len(agents)
    <3>1. CASE g \in Handlers /\ (Fill(g) \/ Overwrite(g))
      BY <1>0, <1>1, <3>1 DEF Fill, Overwrite
    <3>2. CASE g \in Refreshers /\ Store(g)
      <4>1. agents' = [agents EXCEPT ![i[g] + 1] = [agents[i[g] + 1] EXCEPT !.metric = measured[g]]]
        BY <3>2 DEF Store
      <4> QED
        BY <1>0, <1>1, <3>2, <4>1 DEF Store
    <3>3. CASE g \in Handlers /\ (Announces(g) \/ FillEnds(g) \/ Signals(g) \/ PingNew(g))
      BY <3>3 DEF Announces, ServerList, ServerOn, ServerOff, Receive, FillEnds, Signals,
                  ChannelMade, Signal, PingNew
    <3>4. CASE g \in Handlers /\ (RemoveOld(g) \/ Scan(g) \/ ScanEnds(g))
      BY <3>4 DEF RemoveOld, Scan, ScanEnds
    <3>5. CASE g \in Refreshers /\ refreshAgents(g) /\ ~Store(g)
      BY <3>5 DEF refreshAgents, CheckChannel, MakeChannel, Ping, AllPinged, Timer
    <3> QED
      BY <1>7, <3>1, <3>2, <3>3, <3>4, <3>5 DEF Acts, Replaces, Adds, Removes
  <2>2. g \notin Handlers => ~MakeList(g) /\ ~Cut(g) /\ ~AppendNew(g)
    <3>1. g \notin Handlers => Placed(g) /\ g \in Refreshers
      BY DEF TInv, Goroutines
    <3> QED
      BY <3>1 DEF Placed, RefresherAt, SortAt, MakeList, NewList, Cut, AppendNew, Step
  <2> QED
    BY <1>0, <1>2, <1>7, <2>1, <2>2
<1> QED
  BY <1>3, <1>4, <1>5, <1>6, <1>7

(* While nobody shortened the list under another's index, the places that  *)
(* goroutines are about to write are there.                                *)
Reach(g) ==
  /\ pc[g] \in {"over", "first", "store"} => i[g] < Len(agents)
  /\ pc[g] \in {"first", "second"} => j[g] < Len(agents)
  /\ pc[g] = "fill" => Len(msg[g]) <= Len(agents)
  /\ pc[g] = "cut" => Len(agents) > 0

CInv == (crashed => shrunk) /\ (~shrunk => \A g \in Goroutines : Reach(g))

LEMMA ActReach ==
  ASSUME TInv, CInv, NEW g \in Goroutines, Acts(g), ~shrunk'
  PROVE  \A k \in Goroutines : Reach(k)'
<1>1. /\ ~crashed /\ ~crashed' /\ ~shrunk /\ Len(agents) \in Nat /\ Len(agents') \in Nat
      /\ Len(agents') < Len(agents) => Shorten(g)
      /\ ~MakeList(g) /\ ~Cut(g) => Len(agents') >= Len(agents)
      /\ g \in Handlers /\ MakeList(g) => Len(agents') = Len(msg[g])
      /\ ~MakeList(g) /\ ~Cut(g) /\ ~AppendNew(g) => Len(agents') = Len(agents)
  BY Lengths
<1>2. \A k \in Goroutines : Reach(k)
  BY <1>1 DEF CInv
<1>3. \A k \in Goroutines \ {g} : Same(k)
  BY OthersSame DEF TInv
<1>4. /\ pc \in [Goroutines -> HandlerAt \cup RefresherAt \cup RemovalAt \cup SortAt]
      /\ i \in [Goroutines -> Nat] /\ j \in [Goroutines -> Nat] /\ Placed(g) /\ Loops(g)
      /\ msg \in [Handlers -> Seq(Addresses)] /\ \A k \in Goroutines : Placed(k)
  BY DEF TInv, TypeOK
<1>5. ASSUME NEW k \in Goroutines \ {g}
      PROVE  Reach(k)'
  <2>1. Reach(k) /\ Same(k)
    BY <1>2, <1>3
  <2>2. CASE Len(agents') < Len(agents)
    <3>1. pc[k] \notin UsesIndex
      BY <1>1, <2>2 DEF Shorten, Others
    <3> QED
      BY <2>1, <3>1 DEF Reach, Same, UsesIndex
  <2>3. CASE Len(agents') >= Len(agents)
    <3>1. i[k] \in Nat /\ j[k] \in Nat
      BY <1>4
    <3>2. pc[k] = "fill" => k \in Handlers /\ Len(msg[k]) \in Nat
      BY <1>4, ListFacts DEF Placed, Goroutines, RefresherAt, SortAt
    <3> QED
      BY <1>1, <2>1, <2>3, <3>1, <3>2 DEF Reach, Same
  <2> QED
    BY <1>1, <2>2, <2>3
<1>6. Reach(g)'
  <2>0. Reach(g)
    BY <1>2
  <2>1. CASE sortAgents(g)
    <3>1. Len(agents') = Len(agents)
      BY <1>1, <2>1 DEF sortAgents, Compare, First, Second, InnerEnds, SortEnds, Step, MakeList, NewList,
                        Cut, AppendNew
    <3>2. CASE Compare(g)
      BY <1>1, <1>4, <3>1, <3>2 DEF Compare, InList, Step, Reach, Loops, SortAt
    <3>3. CASE First(g)
      BY <1>4, <3>1, <3>3 DEF First, Step, Reach
    <3>4. CASE Second(g) \/ InnerEnds(g) \/ SortEnds(g)
      BY <1>4, <3>4 DEF Second, InnerEnds, SortEnds, Sorted, Step, Reach
    <3> QED
      BY <2>1, <3>2, <3>3, <3>4 DEF sortAgents
  <2>2. CASE g \in Handlers /\ (Announces(g) \/ Signals(g) \/ Adds(g))
    <3>1. pc'[g] \in {"list", "on", "off", "send", "signal", "append", "sort"}
      BY <1>4, <2>2 DEF Announces, ServerList, ServerOn, ServerOff, Receive, Signals,
                        ChannelMade, Signal, Adds, PingNew, AppendNew, Step
    <3> QED
      BY <3>1 DEF Reach
  <2>3. CASE g \in Handlers /\ MakeList(g)
    <3>1. pc'[g] = "fill" /\ msg' = msg /\ Len(agents') = Len(msg[g])
      BY <1>1, <1>4, <2>3 DEF MakeList, NewList, Step
    <3> QED
      BY <1>1, <3>1 DEF Reach
  <2>4. CASE g \in Handlers /\ Fill(g)
    <3>1. pc[g] = "fill" /\ pc'[g] = "fill" /\ msg' = msg /\ Len(agents') = Len(agents)
      BY <1>1, <1>4, <2>4 DEF Fill, Step, MakeList, NewList, Cut, AppendNew
    <3> QED
      BY <2>0, <3>1 DEF Reach
  <2>5. CASE g \in Handlers /\ (FillEnds(g) \/ RemoveOld(g) \/ Cut(g) \/ ScanEnds(g))
    <3>1. pc'[g] \in {"decide", "scan", "sort"}
      BY <1>4, <2>5 DEF FillEnds, RemoveOld, Cut, ScanEnds, Step
    <3> QED
      BY <3>1 DEF Reach
  <2>6. CASE g \in Handlers /\ Scan(g)
    <3>1. /\ pc'[g] \in {"over", "scan"} /\ i[g] < Len(agents) /\ agents' = agents
          /\ pc'[g] = "over" => i'[g] = i[g]
      BY <1>4, <2>6 DEF Scan, Step, InList
    <3> QED
      BY <3>1 DEF Reach
  <2>7. CASE g \in Handlers /\ Overwrite(g)
    <3>1. pc'[g] = "cut" /\ i[g] < Len(agents) /\ Len(agents') = Len(agents) /\ i[g] \in Nat
      BY <1>1, <1>4, <2>7 DEF Overwrite, Step, MakeList, NewList, Cut, AppendNew
    <3> QED
      BY <1>1, <3>1 DEF Reach
  <2>8. CASE g \in Refreshers /\ refreshAgents(g)
    <3>1. CASE Ping(g)
      BY <1>4, <3>1 DEF Ping, Step, InList, Reach
    <3>2. CASE ~Ping(g)
      <4>1. pc'[g] \in {"make", "test", "sort"}
        BY <1>4, <2>8, <3>2 DEF refreshAgents, CheckChannel, MakeChannel, Store, AllPinged,
                                Timer, Step
      <4> QED
        BY <4>1 DEF Reach
    <3> QED
      BY <3>1, <3>2
  <2> QED
    BY <2>1, <2>2, <2>3, <2>4, <2>5, <2>6, <2>7, <2>8 DEF Acts, Replaces, Removes
<1> QED
  BY <1>5, <1>6

LEMMA NextReach == TInv /\ CInv /\ [Next]_vars => CInv'
<1> SUFFICES ASSUME TInv, CInv, [Next]_vars
             PROVE  CInv'
  OBVIOUS
<1>1. CASE UNCHANGED vars
  BY <1>1 DEF vars, work, history, CInv, Reach
<1>2. ASSUME NEW g \in Goroutines, Acts(g)
      PROVE  CInv'
  BY <1>2, Lengths, ActReach DEF CInv
<1>3. ASSUME NEW g \in Goroutines, OutOfRange(g)
      PROVE  CInv'
  <2>1. /\ UNCHANGED <<agents, pc, msg, i, j, shrunk>>
        /\ \/ pc[g] \in {"over", "first", "store"} /\ i[g] >= Len(agents)
           \/ pc[g] \in {"first", "second"} /\ j[g] >= Len(agents)
           \/ pc[g] = "fill" /\ i[g] < Len(msg[g]) /\ i[g] >= Len(agents)
           \/ pc[g] = "cut" /\ agents = <<>>
    BY <1>3 DEF OutOfRange, Panic, work, history
  <2>2. i[g] \in Nat /\ j[g] \in Nat /\ Len(agents) \in Nat /\ (agents = <<>> => Len(agents) = 0)
    BY ListFacts, EmptySeq DEF TInv, TypeOK
  <2>3. pc[g] = "fill" => Len(msg[g]) \in Nat
    <3>1. pc[g] = "fill" => g \in Handlers
      BY DEF TInv, Placed, Goroutines, RefresherAt, SortAt
    <3> QED
      BY <3>1, ListFacts DEF TInv, TypeOK
  <2>4. ~Reach(g)
    BY <2>1, <2>2, <2>3 DEF Reach
  <2> QED
    BY <2>1, <2>4 DEF CInv
<1>4. ASSUME NEW h \in Handlers, NEW r \in Refreshers, StartRefresher(h, r) \/ Signalled(r, h)
      PROVE  CInv'
  <2>1. /\ \/ pc[h] = "decide" /\ pc[r] = "none" /\ pc'[r] = "check"
           \/ pc[h] = "signal" /\ pc[r] = "select" /\ pc'[r] = "test"
        /\ pc'[h] = "idle" /\ \A g \in Goroutines \ {h, r} : pc'[g] = pc[g]
        /\ UNCHANGED <<crashed, agents, msg, i, j, shrunk>>
    BY <1>4, JointStep DEF history
  <2> QED
    BY <2>1 DEF CInv, Reach
<1> QED
  BY <1>1, <1>2, <1>3, <1>4, Steps

LEMMA InitReach == Init => CInv
<1> SUFFICES ASSUME Init
             PROVE  CInv
  OBVIOUS
<1>1. crashed = FALSE /\ \A g \in Goroutines : pc[g] \in {"idle", "none"}
  BY DEF Init
<1> QED
  BY <1>1 DEF CInv, Reach

(* The list, the goroutines and the channels stay among the values the     *)
(* code gives them; there are no more channels than refreshers.            *)
THEOREM TypeCorrect == Spec => []TypeOK
<1>1. TInv => TypeOK
  BY DEF TInv
<1> QED
  BY <1>1, InitTyped, NextTyped, PTL DEF Spec

(* However many messages and refreshes overlap on the unlocked list, the   *)
(* process dies of an index out of range only when a goroutine shortened   *)
(* the list between another's test of the length and its use of the place  *)
(* (agents.go:28 and 39, handlers.go:265-285).                             *)
THEOREM PanicsExplained == Spec => []PanicsOnlyIfShrunk
<1>1. CInv => PanicsOnlyIfShrunk
  BY DEF CInv, PanicsOnlyIfShrunk
<1>2. Init => TInv /\ CInv
  BY InitTyped, InitReach
<1>3. TInv /\ CInv /\ [Next]_vars => (TInv /\ CInv)'
  BY NextTyped, NextReach
<1> QED
  BY <1>1, <1>2, <1>3, PTL DEF Spec

-----------------------------------------------------------------------------
(* The order a sort has reached: its first n places stand before all the   *)
(* others, and place a+1 before those up to b.  Unreachable agents do not  *)
(* count.                                                                  *)
Ordered(e, f) ==
  e.metric # Unreachable /\ f.metric # Unreachable => e.metric <= f.metric

Before(s, n) == \A k, l \in DOMAIN s : k <= n /\ k < l => Ordered(s[k], s[l])

Leads(s, a, b) ==
  \A k, l \in DOMAIN s : k = a + 1 /\ k < l /\ l <= b => Ordered(s[k], s[l])

LEMMA SwapKeeps ==
  ASSUME NEW s \in Seq(Agents), NEW t \in Seq(Agents), Len(t) = Len(s),
         NEW a \in Nat, NEW b \in Nat, a < b, b < Len(s),
         Before(s, a), Leads(s, a, b), Swaps(s[a + 1], s[b + 1]),
         t[a + 1] = s[b + 1], t[b + 1] = s[a + 1],
         \A k \in 1 .. Len(s) : k # a + 1 /\ k # b + 1 => t[k] = s[k]
  PROVE  Before(t, a) /\ Leads(t, a, b + 1)
<1>1. /\ Len(s) \in Nat /\ DOMAIN s = 1 .. Len(s) /\ DOMAIN t = 1 .. Len(s)
      /\ \A k \in 1 .. Len(s) : s[k].metric \in Int /\ s[k].metric >= -1
      /\ a + 1 \in 1 .. Len(s) /\ b + 1 \in 1 .. Len(s)
  <2>1. /\ Len(s) \in Nat /\ DOMAIN s = 1 .. Len(s) /\ DOMAIN t = 1 .. Len(s)
        /\ \A k \in 1 .. Len(s) : s[k] \in Agents
    BY ListFacts
  <2>2. \A e \in Agents : e.metric \in Int /\ e.metric >= -1
    BY DEF Agents, Measures, Unreachable
  <2> QED
    BY <2>1, <2>2
<1>2. /\ s[a + 1].metric > s[b + 1].metric /\ s[b + 1].metric # -1 /\ s[a + 1].metric # -1
  BY <1>1 DEF Swaps, Unreachable
<1>3. ASSUME NEW k \in 1 .. Len(s), NEW l \in 1 .. Len(s), k <= a, k < l
      PROVE  Ordered(t[k], t[l])
  <2>1. t[k] = s[k]
    BY <1>1, <1>3
  <2>2. \A m \in 1 .. Len(s) : k < m => Ordered(s[k], s[m])
    BY <1>1, <1>3 DEF Before
  <2>3. CASE l = a + 1
    BY <1>1, <1>3, <2>1, <2>2, <2>3
  <2>4. CASE l = b + 1
    BY <1>1, <1>3, <2>1, <2>2, <2>4
  <2>5. CASE l # a + 1 /\ l # b + 1
    BY <1>3, <2>1, <2>2, <2>5
  <2> QED
    BY <2>3, <2>4, <2>5
<1>4. ASSUME NEW l \in 1 .. Len(s), a + 1 < l, l <= b + 1
      PROVE  Ordered(t[a + 1], t[l])
  <2>1. CASE l = b + 1
    BY <1>1, <1>2, <2>1 DEF Ordered
  <2>2. CASE l # b + 1
    <3>1. l <= b /\ t[l] = s[l]
      BY <1>1, <1>4, <2>2
    <3>2. Ordered(s[a + 1], s[l])
      BY <1>1, <1>4, <3>1 DEF Leads
    <3> QED
      BY <1>1, <1>2, <3>1, <3>2 DEF Ordered, Unreachable
  <2> QED
    BY <2>1, <2>2
<1> QED
  BY <1>1, <1>3, <1>4 DEF Before, Leads

(* What holds of the list at a goroutine that sorts or fills it and whom   *)
(* nobody disturbed: at "second" one place is still to be written.         *)
SortHolds(g) ==
  /\ pc[g] = "sort" => Before(agents, i[g]) /\ Leads(agents, i[g], j[g])
  /\ pc[g] = "first" =>
       /\ i[g] < j[g] /\ j[g] < Len(agents)
       /\ tmp[g] = agents[i[g] + 1] /\ Swaps(agents[i[g] + 1], agents[j[g] + 1])
       /\ Before(agents, i[g]) /\ Leads(agents, i[g], j[g])
  /\ pc[g] = "second" =>
       LET s == [agents EXCEPT ![j[g] + 1] = tmp[g]]
       IN  j[g] < Len(agents) /\ Before(s, i[g]) /\ Leads(s, i[g], j[g] + 1)
  /\ pc[g] = "fill" =>
       /\ Len(agents) = Len(msg[g])
       /\ \A k \in DOMAIN agents : k <= i[g] => agents[k].metric = Unreachable

AtRest == {"idle", "decide", "send", "signal", "none", "select"}
Changing == {g \in Goroutines : pc[g] \in SortAt \cup {"fill"}}

SInv ==
  /\ disturbed \subseteq Changing
  /\ \A g \in Goroutines \ disturbed : SortHolds(g)
  /\ (\A g \in Goroutines : pc[g] \in AtRest) /\ ~spoiled => Before(agents, Len(agents))

(* The steps of g that change the list, and those that end its sort, fill. *)
Writes(g) ==
  \/ First(g) \/ Second(g)
  \/ g \in Handlers /\ (MakeList(g) \/ Fill(g) \/ AppendNew(g) \/ Overwrite(g) \/ Cut(g))
  \/ g \in Refreshers /\ Store(g)
Finishes(g) == SortEnds(g) \/ (g \in Handlers /\ FillEnds(g))

LEMMA Effects ==
  ASSUME NEW g \in Goroutines, Acts(g)
  PROVE  /\ Writes(g) => Disturb(g) /\ spoiled' = spoiled
         /\ Finishes(g) => /\ agents' = agents /\ disturbed' = disturbed \ {g}
                           /\ spoiled' = (g \in disturbed)
         /\ ~Writes(g) /\ ~Finishes(g) =>
              UNCHANGED <<agents, disturbed, spoiled>>
<1>1. Writes(g) => Disturb(g) /\ spoiled' = spoiled
  BY DEF Writes, First, Second, MakeList, NewList, Fill, AppendNew, Overwrite, Cut, Store
<1>2. Finishes(g) => /\ agents' = agents /\ disturbed' = disturbed \ {g}
                     /\ spoiled' = (g \in disturbed)
  <2>1. CASE SortEnds(g)
    BY <2>1 DEF SortEnds, End, Begin
  <2>2. CASE FillEnds(g)
    BY <2>2 DEF FillEnds, End, Begin
  <2> QED
    BY <2>1, <2>2 DEF Finishes
<1>3. ASSUME ~Writes(g), ~Finishes(g)
      PROVE  UNCHANGED <<agents, disturbed, spoiled>>
  <2>1. CASE sortAgents(g)
    <3>1. CASE Compare(g)
      BY <3>1 DEF Compare
    <3>2. CASE InnerEnds(g)
      BY <3>2 DEF InnerEnds, history
    <3> QED
      BY <1>3, <2>1, <3>1, <3>2 DEF Writes, Finishes, sortAgents
  <2>2. CASE g \in Handlers /\ Announces(g)
    BY <2>2 DEF Announces, ServerList, ServerOn, ServerOff, Receive
  <2>3. CASE g \in Handlers /\ (Signals(g) \/ Adds(g) \/ Replaces(g))
    BY <1>3, <2>3 DEF Writes, Finishes, Signals, ChannelMade, Signal, Adds, PingNew, Replaces,
                      history
  <2>4. CASE g \in Handlers /\ Removes(g)
    BY <1>3, <2>4 DEF Writes, Finishes, Removes, RemoveOld, Scan, ScanEnds, history
  <2>5. CASE g \in Refreshers /\ refreshAgents(g)
    BY <1>3, <2>5 DEF Writes, Finishes, refreshAgents, CheckChannel, MakeChannel, Ping,
                      AllPinged, Timer, history
  <2> QED
    BY <2>1, <2>2, <2>3, <2>4, <2>5 DEF Acts
<1> QED
  BY <1>1, <1>2, <1>3

(* A step keeps what holds at the others that it does not disturb.         *)
LEMMA OthersHold ==
  ASSUME TInv, SInv, NEW g \in Goroutines, Acts(g)
  PROVE  \A k \in Goroutines \ ({g} \cup disturbed') : SortHolds(k)'
<1> SUFFICES ASSUME NEW k \in Goroutines, k # g, k \notin disturbed'
             PROVE  SortHolds(k)'
  OBVIOUS
<1>1. Same(k)
  BY OthersSame DEF TInv
<1>2. CASE Writes(g)
  <2>1. k \notin Changing
    BY <1>2, Effects DEF Disturb, Changing
  <2> QED
    BY <1>1, <2>1 DEF Same, SortHolds, Changing, SortAt
<1>3. CASE ~Writes(g)
  <2>1. agents' = agents /\ k \notin disturbed
    BY <1>3, Effects
  <2>2. SortHolds(k)
    BY <2>1 DEF SInv
  <2>3. pc[k] = "fill" => k \in Handlers
    BY DEF TInv, Placed, Goroutines, RefresherAt, SortAt
  <2> QED
    BY <1>1, <2>1, <2>2, <2>3 DEF Same, SortHolds
<1> QED
  BY <1>2, <1>3

(* The sort goes on: it keeps the order it has reached and extends it.     *)
LEMMA SortGoesOn ==
  ASSUME TInv, NEW g \in Goroutines, SortHolds(g), sortAgents(g), ~SortEnds(g)
  PROVE  SortHolds(g)'
<1>0. /\ agents \in Seq(Agents) /\ Len(agents) \in Nat /\ DOMAIN agents = 1 .. Len(agents)
      /\ \A k \in 1 .. Len(agents) : /\ agents[k] \in Agents
                                     /\ agents[k].metric \in Int /\ agents[k].metric >= -1
      /\ i[g] \in Nat /\ j[g] \in Nat /\ tmp[g] \in Agents
      /\ pc[g] \in SortAt => i[g] <= j[g]
      /\ pc \in [Goroutines -> HandlerAt \cup RefresherAt \cup RemovalAt \cup SortAt]
      /\ i \in [Goroutines -> Nat] /\ j \in [Goroutines -> Nat] /\ tmp \in [Goroutines -> Agents]
  <2>1. /\ agents \in Seq(Agents)
        /\ i \in [Goroutines -> Nat] /\ j \in [Goroutines -> Nat]
        /\ tmp \in [Goroutines -> Agents]
        /\ pc \in [Goroutines -> HandlerAt \cup RefresherAt \cup RemovalAt \cup SortAt]
        /\ Loops(g)
    BY DEF TInv, TypeOK
  <2>2. /\ Len(agents) \in Nat /\ DOMAIN agents = 1 .. Len(agents)
        /\ \A k \in 1 .. Len(agents) : agents[k] \in Agents
    BY <2>1, ListFacts
  <2>3. \A k \in 1 .. Len(agents) : agents[k].metric \in Int /\ agents[k].metric >= -1
    BY <2>2 DEF Agents, Measures, Unreachable
  <2> QED
    BY <2>1, <2>2, <2>3 DEF Loops
<1>1. CASE Compare(g) /\ Swaps(At(i[g]), At(j[g]))
  <2>1. /\ pc[g] = "sort" /\ pc'[g] = "first" /\ j[g] < Len(agents)
        /\ tmp'[g] = agents[i[g] + 1] /\ UNCHANGED <<agents, i, j>>
        /\ Swaps(agents[i[g] + 1], agents[j[g] + 1])
    BY <1>0, <1>1 DEF Compare, Step, InList, At
  <2>2. i[g] < j[g]
    <3>1. i[g] # j[g]
      BY <1>0, <2>1 DEF Swaps
    <3> QED
      BY <1>0, <2>1, <3>1 DEF SortAt
  <2> QED
    BY <2>1, <2>2 DEF SortHolds
<1>2. CASE Compare(g) /\ ~Swaps(At(i[g]), At(j[g]))
  <2>1. /\ pc[g] = "sort" /\ pc'[g] = "sort" /\ j[g] < Len(agents)
        /\ j'[g] = j[g] + 1 /\ UNCHANGED <<agents, i>>
        /\ ~Swaps(agents[i[g] + 1], agents[j[g] + 1])
    BY <1>0, <1>2 DEF Compare, Step, InList, At
  <2>2. Before(agents, i[g]) /\ Leads(agents, i[g], j[g])
    BY <2>1 DEF SortHolds
  <2>3. i[g] + 1 \in 1 .. Len(agents) /\ j[g] + 1 \in 1 .. Len(agents)
    BY <1>0, <2>1 DEF SortAt
  <2>4. Ordered(agents[i[g] + 1], agents[j[g] + 1])
    BY <1>0, <2>1, <2>3 DEF Ordered, Swaps
  <2>5. ASSUME NEW k \in 1 .. Len(agents), NEW l \in 1 .. Len(agents),
               k = i[g] + 1, k < l, l <= j[g] + 1
        PROVE  Ordered(agents[k], agents[l])
    <3>0. k \in DOMAIN agents /\ l \in DOMAIN agents
      BY <1>0
    <3>1. CASE l = j[g] + 1
      BY <2>4, <2>5, <3>1
    <3>2. CASE l # j[g] + 1
      <4>0. j[g] \in Nat /\ Len(agents) \in Nat
        BY <1>0
      <4>1. l <= j[g]
        BY <2>5, <3>2, <4>0
      <4> QED
        BY <2>2, <2>5, <3>0, <4>1 DEF Leads
    <3> QED
      BY <3>1, <3>2
  <2>6. Leads(agents, i[g], j[g] + 1)
    BY <1>0, <2>5 DEF Leads
  <2> QED
    BY <2>1, <2>2, <2>6 DEF SortHolds
<1>3. CASE First(g)
  <2>1. /\ pc[g] = "first" /\ pc'[g] = "second" /\ i[g] < Len(agents) /\ j[g] < Len(agents)
        /\ agents' = [agents EXCEPT ![i[g] + 1] = agents[j[g] + 1]] /\ UNCHANGED <<i, j, tmp>>
    BY <1>0, <1>3 DEF First, Step, At
  <2>2. /\ i[g] < j[g] /\ tmp[g] = agents[i[g] + 1]
        /\ Swaps(agents[i[g] + 1], agents[j[g] + 1])
        /\ Before(agents, i[g]) /\ Leads(agents, i[g], j[g])
    BY <2>1 DEF SortHolds
  <2> DEFINE s == [agents' EXCEPT ![j[g] + 1] = tmp[g]]
  <2>3. i[g] + 1 \in 1 .. Len(agents) /\ j[g] + 1 \in 1 .. Len(agents) /\ i[g] + 1 # j[g] + 1
    BY <1>0, <2>1, <2>2
  <2>4. /\ agents' \in Seq(Agents) /\ Len(agents') = Len(agents)
        /\ agents'[i[g] + 1] = agents[j[g] + 1]
        /\ \A k \in 1 .. Len(agents) : k # i[g] + 1 => agents'[k] = agents[k]
    BY <1>0, <2>1, <2>3, WriteFacts
  <2>5. /\ s \in Seq(Agents) /\ Len(s) = Len(agents) /\ s[j[g] + 1] = tmp[g]
        /\ \A k \in 1 .. Len(agents) : k # j[g] + 1 => s[k] = agents'[k]
    BY <1>0, <2>1, <2>4, WriteFacts
  <2> HIDE DEF s
  <2>6. /\ s[i[g] + 1] = agents[j[g] + 1] /\ s[j[g] + 1] = agents[i[g] + 1]
        /\ \A k \in 1 .. Len(agents) : k # i[g] + 1 /\ k # j[g] + 1 => s[k] = agents[k]
    BY <2>2, <2>3, <2>4, <2>5
  <2>7. Before(s, i[g]) /\ Leads(s, i[g], j[g] + 1)
    BY <1>0, <2>1, <2>2, <2>5, <2>6, SwapKeeps
  <2> QED
    BY <2>1, <2>4, <2>7 DEF SortHolds, s
<1>4. CASE Second(g)
  <2>1. /\ pc[g] = "second" /\ pc'[g] = "sort"
        /\ agents' = [agents EXCEPT ![j[g] + 1] = tmp[g]] /\ j'[g] = j[g] + 1 /\ i' = i
    BY <1>0, <1>4 DEF Second, Step
  <2> QED
    BY <2>1 DEF SortHolds
<1>5. CASE InnerEnds(g)
  <2>1. /\ pc[g] = "sort" /\ pc'[g] = "sort" /\ j[g] >= Len(agents) /\ agents' = agents
        /\ i'[g] = i[g] + 1 /\ j'[g] = i[g] + 1
    BY <1>0, <1>5 DEF InnerEnds, Step, InList
  <2>2. Before(agents, i[g]) /\ Leads(agents, i[g], j[g])
    BY <2>1 DEF SortHolds
  <2>3. ASSUME NEW k \in 1 .. Len(agents), NEW l \in 1 .. Len(agents), k <= i[g] + 1, k < l
        PROVE  Ordered(agents[k], agents[l])
    <3>0. k \in DOMAIN agents /\ l \in DOMAIN agents /\ l <= j[g]
      BY <1>0, <2>1
    <3>1. CASE k = i[g] + 1
      BY <2>2, <2>3, <3>0, <3>1 DEF Leads
    <3>2. CASE k # i[g] + 1
      <4>1. k <= i[g]
        BY <1>0, <2>3, <3>2
      <4> QED
        BY <2>2, <2>3, <3>0, <4>1 DEF Before
    <3> QED
      BY <3>1, <3>2
  <2>4. Before(agents, i[g] + 1)
    BY <1>0, <2>3 DEF Before
  <2>5. Leads(agents, i[g] + 1, i[g] + 1)
    BY <1>0 DEF Leads
  <2> QED
    BY <2>1, <2>4, <2>5 DEF SortHolds
<1> QED
  BY <1>1, <1>2, <1>3, <1>4, <1>5 DEF sortAgents

(* At a goroutine's own step: a sort begins with nothing in order, and a   *)
(* fill sets place after place to unreachable.                             *)
LEMMA OwnHolds ==
  ASSUME TInv, SInv, NEW g \in Goroutines, Acts(g), ~Finishes(g), g \notin disturbed'
  PROVE  SortHolds(g)'
<1>0. /\ agents \in Seq(Agents) /\ Len(agents) \in Nat /\ DOMAIN agents = 1 .. Len(agents)
      /\ i[g] \in Nat
      /\ pc \in [Goroutines -> HandlerAt \cup RefresherAt \cup RemovalAt \cup SortAt]
      /\ i \in [Goroutines -> Nat] /\ j \in [Goroutines -> Nat]
      /\ msg \in [Handlers -> Seq(Addresses)]
      /\ Placed(g) /\ Loops(g)
  BY ListFacts DEF TInv, TypeOK
<1>1. SortHolds(g)
  <2>1. g \notin disturbed
    <3>1. CASE Writes(g)
      BY <3>1, Effects DEF Disturb
    <3>2. CASE ~Writes(g)
      BY <3>2, Effects
    <3> QED
      BY <3>1, <3>2
  <2> QED
    BY <2>1 DEF SInv
<1>2. CASE sortAgents(g)
  BY <1>1, <1>2, SortGoesOn DEF Finishes
<1>3. CASE g \in Handlers /\ MakeList(g)
  <2>1. /\ pc[g] = "list" /\ pc'[g] = "fill" /\ i'[g] = i[g] /\ msg' = msg
        /\ agents' = [k \in DOMAIN msg[g] |-> NewAgent]
    BY <1>0, <1>3 DEF MakeList, NewList, Step
  <2>2. i[g] = 0
    BY <1>0, <2>1 DEF Loops, SortAt, RemovalAt
  <2>3. Len(agents') = Len(msg[g])
    BY <1>3, Lengths
  <2>4. DOMAIN agents' = 1 .. Len(agents') /\ Len(agents') \in Nat
    BY <1>0, <2>1, <2>3, ListFacts
  <2> QED
    BY <2>1, <2>2, <2>3, <2>4 DEF SortHolds
<1>4. CASE g \in Handlers /\ Fill(g)
  <2>1. /\ pc[g] = "fill" /\ pc'[g] = "fill" /\ i'[g] = i[g] + 1 /\ msg' = msg
        /\ i[g] < Len(agents)
        /\ agents' = [agents EXCEPT ![i[g] + 1] = Agent(msg[g][i[g] + 1], Unreachable)]
    BY <1>0, <1>4 DEF Fill, Step
  <2>2. /\ Len(agents) = Len(msg[g])
        /\ \A k \in DOMAIN agents : k <= i[g] => agents[k].metric = Unreachable
    BY <1>1, <2>1 DEF SortHolds
  <2>3. i[g] + 1 \in DOMAIN agents /\ DOMAIN agents' = DOMAIN agents
    BY <1>0, <2>1
  <2>4. Len(agents') = Len(agents)
    <3>1. agents' \in Seq(Agents)
      BY ListTyped
    <3> QED
      BY <1>0, <2>3, <3>1, ListFacts
  <2>5. agents'[i[g] + 1].metric = Unreachable
    BY <2>1, <2>3 DEF Agent
  <2>6. \A k \in DOMAIN agents : k # i[g] + 1 => agents'[k] = agents[k]
    BY <2>1
  <2>7. \A k \in DOMAIN agents' : k <= i[g] + 1 => agents'[k].metric = Unreachable
    BY <1>0, <2>2, <2>3, <2>5, <2>6
  <2> QED
    BY <2>1, <2>2, <2>4, <2>7 DEF SortHolds
<1>5. ASSUME pc'[g] = "sort", i'[g] = 0, j'[g] = 0
      PROVE  SortHolds(g)'
  <2>1. agents' \in Seq(Agents)
    BY ListTyped
  <2>2. DOMAIN agents' = 1 .. Len(agents') /\ Len(agents') \in Nat
    BY <2>1, ListFacts
  <2>3. Before(agents', 0) /\ Leads(agents', 0, 0)
    BY <2>2 DEF Before, Leads
  <2> QED
    BY <1>5, <2>3 DEF SortHolds
<1>6. ASSUME pc'[g] \notin SortAt \cup {"fill"}
      PROVE  SortHolds(g)'
  BY <1>6 DEF SortHolds, SortAt
<1>7. CASE g \in Handlers /\ AppendNew(g)
  <2>1. pc[g] = "append" /\ pc'[g] = "sort" /\ i'[g] = i[g] /\ j'[g] = j[g]
    BY <1>0, <1>7 DEF AppendNew, Step
  <2>2. i[g] = 0 /\ j[g] = 0
    BY <1>0, <2>1 DEF Loops, SortAt, RemovalAt
  <2> QED
    BY <1>5, <2>1, <2>2
<1>8. CASE g \in Handlers /\ ScanEnds(g)
  <2>1. pc[g] = "scan" /\ pc'[g] = "sort" /\ i'[g] = 0 /\ j'[g] = j[g]
    BY <1>0, <1>8 DEF ScanEnds, Step
  <2>2. j[g] = 0
    BY <1>0, <2>1 DEF Loops, SortAt, RemovalAt
  <2> QED
    BY <1>5, <2>1, <2>2
<1>9. CASE g \in Refreshers /\ AllPinged(g)
  <2>1. pc[g] = "test" /\ pc'[g] = "sort" /\ i'[g] = 0 /\ j'[g] = j[g]
    BY <1>0, <1>9 DEF AllPinged, Step
  <2>2. j[g] = 0
    BY <1>0, <2>1 DEF Loops, SortAt, RemovalAt
  <2> QED
    BY <1>5, <2>1, <2>2
<1>10. CASE g \in Handlers /\ (Announces(g) \/ Signals(g) \/ PingNew(g))
  <2>1. pc'[g] \in {"list", "on", "off", "send", "signal", "append"}
    BY <1>0, <1>10 DEF Announces, ServerList, ServerOn, ServerOff, Receive, Signals,
                       ChannelMade, Signal, PingNew, Step
  <2> QED
    BY <1>6, <2>1 DEF SortAt
<1>11. CASE g \in Handlers /\ (RemoveOld(g) \/ Scan(g) \/ Overwrite(g) \/ Cut(g))
  <2>1. pc'[g] \in {"scan", "over", "cut"}
    <3>1. CASE Scan(g)
      BY <1>0, <3>1 DEF Scan, Step
    <3>2. CASE RemoveOld(g) \/ Overwrite(g) \/ Cut(g)
      BY <1>0, <3>2 DEF RemoveOld, Overwrite, Cut, Step
    <3> QED
      BY <1>11, <3>1, <3>2
  <2> QED
    BY <1>6, <2>1 DEF SortAt
<1>12. CASE g \in Refreshers /\ refreshAgents(g) /\ ~AllPinged(g)
  <2>1. pc'[g] \in {"make", "test", "store"}
    <3>1. CASE CheckChannel(g) \/ MakeChannel(g) \/ Timer(g)
      BY <1>0, <3>1 DEF CheckChannel, MakeChannel, Timer, Step
    <3>2. CASE Ping(g) \/ Store(g)
      BY <1>0, <3>2 DEF Ping, Store, Step
    <3> QED
      BY <1>12, <3>1, <3>2 DEF refreshAgents
  <2> QED
    BY <1>6, <2>1 DEF SortAt
<1> QED
  BY <1>2, <1>3, <1>4, <1>7, <1>8, <1>9, <1>10, <1>11, <1>12
     DEF Acts, Replaces, Adds, Removes, Finishes

(* Who comes to rest was the last to sort or fill.                         *)
LEMMA ComesToRest ==
  ASSUME TInv, NEW g \in Goroutines, Acts(g), ~Finishes(g), pc'[g] \in AtRest
  PROVE  pc[g] \in AtRest /\ agents' = agents /\ spoiled' = spoiled
<1>0. /\ pc \in [Goroutines -> HandlerAt \cup RefresherAt \cup RemovalAt \cup SortAt]
      /\ AtRest = {"idle", "decide", "send", "signal", "none", "select"}
  BY DEF TInv, TypeOK, AtRest
<1>1. CASE sortAgents(g)
  <2>1. pc'[g] \in {"first", "second", "sort"}
    <3>1. CASE Compare(g)
      BY <1>0, <3>1 DEF Compare, Step
    <3>2. CASE First(g) \/ Second(g) \/ InnerEnds(g)
      BY <1>0, <3>2 DEF First, Second, InnerEnds, Step
    <3> QED
      BY <1>1, <3>1, <3>2 DEF sortAgents, Finishes
  <2> QED
    BY <1>0, <2>1
<1>2. CASE g \in Handlers /\ Announces(g)
  <2>1. pc'[g] \in {"list", "on", "off"}
    BY <1>0, <1>2 DEF Announces, ServerList, ServerOn, ServerOff, Receive, Step
  <2> QED
    BY <1>0, <2>1
<1>3. CASE g \in Handlers /\ (Replaces(g) \/ Adds(g))
  <2>1. pc'[g] \in {"fill", "append", "sort"}
    BY <1>0, <1>3 DEF Replaces, MakeList, NewList, Fill, Adds, PingNew, AppendNew, Step, Finishes
  <2> QED
    BY <1>0, <2>1
<1>4. CASE g \in Handlers /\ Signals(g)
  BY <1>0, <1>4 DEF Signals, ChannelMade, Signal, Step, history
<1>5. CASE g \in Handlers /\ Removes(g)
  <2>1. pc'[g] \in {"scan", "over", "cut", "sort"}
    <3>1. CASE Scan(g)
      BY <1>0, <3>1 DEF Scan, Step
    <3>2. CASE RemoveOld(g) \/ Overwrite(g) \/ Cut(g) \/ ScanEnds(g)
      BY <1>0, <3>2 DEF RemoveOld, Overwrite, Cut, ScanEnds, Step
    <3> QED
      BY <1>5, <3>1, <3>2 DEF Removes
  <2> QED
    BY <1>0, <2>1
<1>6. CASE g \in Refreshers /\ refreshAgents(g)
  <2>1. pc'[g] \in {"make", "test", "store", "sort"}
    <3>1. CASE CheckChannel(g) \/ MakeChannel(g) \/ Timer(g)
      BY <1>0, <3>1 DEF CheckChannel, MakeChannel, Timer, Step
    <3>2. CASE Ping(g) \/ Store(g) \/ AllPinged(g)
      BY <1>0, <3>2 DEF Ping, Store, AllPinged, Step
    <3> QED
      BY <1>6, <3>1, <3>2 DEF refreshAgents
  <2> QED
    BY <1>0, <2>1
<1> QED
  BY <1>1, <1>2, <1>3, <1>4, <1>5, <1>6 DEF Acts

(* Once it has, the whole list is in order, if nobody disturbed it.        *)
LEMMA FinishedInOrder ==
  ASSUME TInv, NEW g \in Goroutines, Finishes(g), SortHolds(g)
  PROVE  Before(agents, Len(agents))
<1>0. /\ agents \in Seq(Agents) /\ Len(agents) \in Nat /\ DOMAIN agents = 1 .. Len(agents)
      /\ i[g] \in Nat
  BY ListFacts DEF TInv, TypeOK
<1>1. CASE SortEnds(g)
  <2>1. i[g] >= Len(agents) /\ Before(agents, i[g])
    BY <1>1 DEF SortEnds, Step, SortHolds
  <2> QED
    BY <1>0, <2>1 DEF Before
<1>2. CASE FillEnds(g)
  <2>1. /\ i[g] >= Len(agents)
        /\ \A k \in DOMAIN agents : k <= i[g] => agents[k].metric = Unreachable
    BY <1>2 DEF FillEnds, Step, SortHolds
  <2>2. \A k \in DOMAIN agents : agents[k].metric = Unreachable
    BY <1>0, <2>1
  <2> QED
    BY <2>2 DEF Before, Ordered
<1> QED
  BY <1>1, <1>2 DEF Finishes

LEMMA ActSorts ==
  ASSUME TInv, SInv, NEW g \in Goroutines, Acts(g)
  PROVE  SInv'
<1>0. /\ pc \in [Goroutines -> HandlerAt \cup RefresherAt \cup RemovalAt \cup SortAt]
      /\ \A k \in Goroutines \ {g} : Same(k)
  BY OthersSame DEF TInv, TypeOK
<1>1. Finishes(g) => pc[g] \in SortAt \cup {"fill"} /\ pc'[g] \in AtRest
  <2>1. CASE SortEnds(g)
    BY <1>0, <2>1 DEF SortEnds, Step, Sorted, SortAt, AtRest
  <2>2. CASE FillEnds(g)
    BY <1>0, <2>2 DEF FillEnds, Step, AtRest
  <2> QED
    BY <2>1, <2>2 DEF Finishes
<1>2. disturbed' \subseteq Changing'
  <2>1. disturbed' \subseteq disturbed \cup (Changing \ {g})
    <3>1. CASE Writes(g)
      BY <3>1, Effects DEF Disturb, Changing
    <3>2. CASE ~Writes(g)
      BY <3>2, Effects
    <3> QED
      BY <3>1, <3>2
  <2>2. \A k \in Changing \ {g} : k \in Changing'
    BY <1>0 DEF Changing, Same
  <2>3. g \in disturbed' => g \in Changing'
    <3>1. SUFFICES ASSUME g \in disturbed'
                   PROVE  pc'[g] \in SortAt \cup {"fill"}
      BY DEF Changing
    <3>2. g \in disturbed /\ ~Finishes(g)
      BY <2>1, <3>1, Effects
    <3>3. pc[g] \in SortAt \cup {"fill"}
      BY <3>2 DEF SInv, Changing
    <3>4. CASE sortAgents(g)
      <4>1. CASE Compare(g)
        BY <1>0, <4>1 DEF Compare, Step, SortAt
      <4>2. CASE First(g) \/ Second(g) \/ InnerEnds(g)
        BY <1>0, <4>2 DEF First, Second, InnerEnds, Step, SortAt
      <4> QED
        BY <3>2, <3>4, <4>1, <4>2 DEF sortAgents, Finishes
    <3>5. CASE g \in Handlers /\ Fill(g)
      BY <1>0, <3>5 DEF Fill, Step
    <3>6. ~sortAgents(g) => g \in Handlers /\ Fill(g)
      <4>1. ~(g \in Handlers /\ Announces(g))
        BY <3>3 DEF Announces, ServerList, ServerOn, ServerOff, Receive, Step, SortAt
      <4>2. ~(g \in Handlers /\ (MakeList(g) \/ Signals(g) \/ Adds(g)))
        BY <3>3 DEF MakeList, NewList, Signals, ChannelMade, Signal, Adds, PingNew, AppendNew, Step,
                    SortAt
      <4>3. ~(g \in Handlers /\ Removes(g))
        BY <3>3 DEF Removes, RemoveOld, Scan, Overwrite, Cut, ScanEnds, Step, SortAt
      <4>4. ~(g \in Refreshers /\ refreshAgents(g))
        BY <3>3 DEF refreshAgents, CheckChannel, MakeChannel, Ping, Store, AllPinged, Timer,
                    Step, SortAt
      <4> QED
        BY <3>2, <4>1, <4>2, <4>3, <4>4 DEF Acts, Replaces, Finishes
    <3> QED
      BY <3>4, <3>5, <3>6
  <2> QED
    BY <2>1, <2>2, <2>3 DEF SInv
<1>3. \A k \in Goroutines \ disturbed' : SortHolds(k)'
  <2>1. Finishes(g) => SortHolds(g)'
    BY <1>1 DEF SortHolds, AtRest
  <2> QED
    BY <2>1, OthersHold, OwnHolds
<1>4. ASSUME \A k \in Goroutines : pc'[k] \in AtRest, ~spoiled'
      PROVE  Before(agents', Len(agents'))
  <2>1. CASE Finishes(g)
    <3>1. agents' = agents /\ g \notin disturbed
      BY <1>4, <2>1, Effects
    <3>2. SortHolds(g)
      BY <3>1 DEF SInv
    <3> QED
      BY <2>1, <3>1, <3>2, FinishedInOrder
  <2>2. CASE ~Finishes(g)
    <3>1. pc[g] \in AtRest /\ agents' = agents /\ spoiled' = spoiled
      BY <1>4, <2>2, ComesToRest
    <3>2. \A k \in Goroutines : pc[k] \in AtRest
      BY <1>0, <1>4, <3>1 DEF Same
    <3> QED
      BY <1>4, <3>1, <3>2 DEF SInv
  <2> QED
    BY <2>1, <2>2
<1> QED
  BY <1>2, <1>3, <1>4 DEF SInv

LEMMA NextSorts == TInv /\ SInv /\ [Next]_vars => SInv'
<1> SUFFICES ASSUME TInv, SInv, [Next]_vars
             PROVE  SInv'
  OBVIOUS
<1>1. ASSUME UNCHANGED <<agents, pc, msg, i, j, tmp, disturbed, spoiled>>
      PROVE  SInv'
  BY <1>1 DEF SInv, SortHolds, Changing
<1>2. CASE UNCHANGED vars
  BY <1>1, <1>2 DEF vars, work, history
<1>3. ASSUME NEW g \in Goroutines, OutOfRange(g)
      PROVE  SInv'
  BY <1>1, <1>3 DEF OutOfRange, Panic, work, history
<1>4. ASSUME NEW h \in Handlers, NEW r \in Refreshers, StartRefresher(h, r) \/ Signalled(r, h)
      PROVE  SInv'
  <2>1. /\ \/ pc[h] = "decide" /\ pc[r] = "none" /\ pc'[r] = "check"
           \/ pc[h] = "signal" /\ pc[r] = "select" /\ pc'[r] = "test"
        /\ pc'[h] = "idle" /\ \A g \in Goroutines \ {h, r} : pc'[g] = pc[g]
        /\ UNCHANGED <<agents, msg, i, j, tmp, disturbed, spoiled>>
    BY <1>4, JointStep DEF history
  <2>2. r \in Goroutines /\ pc'[r] \notin AtRest
    BY <2>1, Constants DEF AtRest
  <2>3. Changing' = Changing
    BY <2>1 DEF Changing, SortAt
  <2>4. \A g \in Goroutines : SortHolds(g) => SortHolds(g)'
    BY <2>1 DEF SortHolds
  <2> QED
    BY <2>1, <2>2, <2>3, <2>4 DEF SInv
<1> QED
  BY <1>2, <1>3, <1>4, Steps, ActSorts

LEMMA InitSorts == Init => SInv
<1> SUFFICES ASSUME Init
             PROVE  SInv
  OBVIOUS
<1>1. /\ \A g \in Goroutines : pc[g] \in {"idle", "none"}
      /\ agents = <<>> /\ disturbed = {}
  BY DEF Init
<1>2. Before(agents, Len(agents))
  BY <1>1 DEF Before
<1> QED
  BY <1>1, <1>2 DEF SInv, SortHolds, AtRest

(* At rest the agents that answered stand in the order of their metrics,   *)
(* whatever pings, stores, swaps, removals and lists went on at once, but  *)
(* after a sort or a fill another goroutine wrote into (agents.go:24-35,   *)
(* handlers.go:261-289).                                                   *)
THEOREM AgentsSorted == Spec => []SortedWhenQuiet
<1>1. TInv /\ SInv => SortedWhenQuiet
  <2> SUFFICES ASSUME TInv, SInv, Quiet, ~spoiled
               PROVE  \A k, l \in DOMAIN agents :
                        k < l /\ agents[k].metric # Unreachable /\ agents[l].metric # Unreachable
                          => agents[k].metric <= agents[l].metric
    BY DEF SortedWhenQuiet
  <2>1. \A g \in Goroutines : pc[g] \in AtRest
    BY DEF Quiet, Goroutines, AtRest
  <2>2. Before(agents, Len(agents))
    BY <2>1 DEF SInv
  <2>3. Len(agents) \in Nat /\ DOMAIN agents = 1 .. Len(agents)
    BY ListFacts DEF TInv, TypeOK
  <2> QED
    BY <2>2, <2>3 DEF Before, Ordered
<1>2. Init => TInv /\ SInv
  BY InitTyped, InitSorts
<1>3. TInv /\ SInv /\ [Next]_vars => (TInv /\ SInv)'
  BY NextTyped, NextSorts
<1> QED
  BY <1>1, <1>2, <1>3, PTL DEF Spec

-----------------------------------------------------------------------------
(* The first n places of v hold the members of S, each once.               *)
Exactly(v, n, S) ==
  /\ \A k, l \in 1 .. n : v[k] = v[l] => k = l
  /\ \A k \in 1 .. n : v[k] \in S
  /\ \A a \in S : \E k \in 1 .. n : v[k] = a

LEMMA ExactlySwapped ==
  ASSUME NEW v, NEW w, NEW n \in Nat, NEW S, NEW p \in 1 .. n, NEW q \in 1 .. n, p # q,
         w[p] = v[q], w[q] = v[p], \A k \in 1 .. n : k # p /\ k # q => w[k] = v[k],
         Exactly(v, n, S)
  PROVE  Exactly(w, n, S)
<1> DEFINE s(k) == IF k = p THEN q ELSE IF k = q THEN p ELSE k
<1>1. \A k \in 1 .. n : s(k) \in 1 .. n /\ w[k] = v[s(k)] /\ s(s(k)) = k
  OBVIOUS
<1> HIDE DEF s
<1>2. ASSUME NEW k \in 1 .. n, NEW l \in 1 .. n, w[k] = w[l]
      PROVE  k = l
  <2>1. s(k) = s(l)
    BY <1>1, <1>2 DEF Exactly
  <2> QED
    BY <1>1, <2>1
<1>3. \A k \in 1 .. n : w[k] \in S
  BY <1>1 DEF Exactly
<1>4. ASSUME NEW a \in S
      PROVE  \E k \in 1 .. n : w[k] = a
  <2>1. PICK k \in 1 .. n : v[k] = a
    BY DEF Exactly
  <2>2. w[s(k)] = a /\ s(k) \in 1 .. n
    BY <1>1, <2>1
  <2> QED
    BY <2>2
<1> QED
  BY <1>2, <1>3, <1>4 DEF Exactly

LEMMA ExactlyAppended ==
  ASSUME NEW v, NEW w, NEW n \in Nat, NEW S, NEW a, a \notin S,
         \A k \in 1 .. n : w[k] = v[k], w[n + 1] = a, Exactly(v, n, S)
  PROVE  Exactly(w, n + 1, S \cup {a})
<1>1. \A k \in 1 .. n + 1 : k \in 1 .. n \/ k = n + 1
  OBVIOUS
<1>2. \A k \in 1 .. n : w[k] \in S /\ w[k] # a /\ k \in 1 .. n + 1
  BY DEF Exactly
<1>3. ASSUME NEW k \in 1 .. n + 1, NEW l \in 1 .. n + 1, w[k] = w[l]
      PROVE  k = l
  <2>1. CASE k \in 1 .. n /\ l \in 1 .. n
    BY <1>3, <2>1 DEF Exactly
  <2>2. CASE k = n + 1 \/ l = n + 1
    BY <1>1, <1>2, <1>3, <2>2
  <2> QED
    BY <1>1, <2>1, <2>2
<1>4. \A k \in 1 .. n + 1 : w[k] \in S \cup {a}
  BY <1>1, <1>2
<1>5. ASSUME NEW b \in S \cup {a}
      PROVE  \E k \in 1 .. n + 1 : w[k] = b
  <2>1. CASE b = a
    <3>1. n + 1 \in 1 .. n + 1
      OBVIOUS
    <3> QED
      BY <2>1, <3>1
  <2>2. CASE b \in S
    <3>1. PICK k \in 1 .. n : v[k] = b
      BY <2>2 DEF Exactly
    <3> QED
      BY <1>2, <3>1
  <2> QED
    BY <2>1, <2>2
<1> QED
  BY <1>3, <1>4, <1>5 DEF Exactly

LEMMA ExactlyRemoved ==
  ASSUME NEW v, NEW w, NEW n \in Nat, NEW S, NEW a, a \notin S,
         NEW p \in 1 .. n, v[p] = a, w[p] = v[n],
         \A k \in 1 .. n : k # p => w[k] = v[k], Exactly(v, n, S \cup {a})
  PROVE  Exactly(w, n - 1, S)
<1> DEFINE s(k) == IF k = p THEN n ELSE k
<1>1. \A k \in 1 .. n - 1 : k \in 1 .. n /\ s(k) \in 1 .. n /\ w[k] = v[s(k)] /\ s(k) # p
  OBVIOUS
<1>2. \A k, l \in 1 .. n - 1 : s(k) = s(l) => k = l
  OBVIOUS
<1>3. \A k \in 1 .. n : k # p => \E l \in 1 .. n - 1 : s(l) = k
  <2>1. SUFFICES ASSUME NEW k \in 1 .. n, k # p
                 PROVE  \E l \in 1 .. n - 1 : s(l) = k
    OBVIOUS
  <2>2. CASE k = n
    <3>1. p \in 1 .. n - 1 /\ s(p) = k
      BY <2>1, <2>2
    <3> QED
      BY <3>1
  <2>3. CASE k # n
    <3>1. k \in 1 .. n - 1 /\ s(k) = k
      BY <2>1, <2>3
    <3> QED
      BY <3>1
  <2> QED
    BY <2>2, <2>3
<1> HIDE DEF s
<1>4. \A k \in 1 .. n : k # p => v[k] \in S
  BY DEF Exactly
<1>5. \A k, l \in 1 .. n - 1 : w[k] = w[l] => k = l
  BY <1>1, <1>2 DEF Exactly
<1>6. \A k \in 1 .. n - 1 : w[k] \in S
  BY <1>1, <1>4
<1>7. ASSUME NEW b \in S
      PROVE  \E k \in 1 .. n - 1 : w[k] = b
  <2>1. PICK k \in 1 .. n : v[k] = b
    BY DEF Exactly
  <2>2. k # p
    BY <2>1
  <2>3. PICK l \in 1 .. n - 1 : s(l) = k
    BY <1>3, <2>2
  <2> QED
    BY <1>1, <2>1, <2>3
<1> QED
  BY <1>5, <1>6, <1>7 DEF Exactly

LEMMA ExactlyWithout ==
  ASSUME NEW v, NEW n \in Nat, NEW S, NEW a, \A k \in 1 .. n : v[k] # a,
         Exactly(v, n, S \cup {a})
  PROVE  Exactly(v, n, S)
  BY DEF Exactly

LEMMA ExactlySame ==
  ASSUME NEW v, NEW w, NEW n, NEW S, \A k \in 1 .. n : w[k] = v[k], Exactly(v, n, S)
  PROVE  Exactly(w, n, S)
<1>1. \A k, l \in 1 .. n : w[k] = w[l] => k = l
  BY DEF Exactly
<1>2. \A a \in S : \E k \in 1 .. n : w[k] = a
  BY DEF Exactly
<1> QED
  BY <1>1, <1>2 DEF Exactly

(* v is the list's addresses as they will be once a swap under way has     *)
(* written its second place.                                               *)
Shows(v) ==
  /\ \A g \in Goroutines : pc[g] = "second" => v[j[g] + 1] = tmp[g].address
  /\ \A k \in 1 .. Len(agents) :
       (\A g \in Goroutines : pc[g] = "second" => k # j[g] + 1) => v[k] = agents[k].address

(* How far the one handler that is busy has got with the list, and what    *)
(* the list holds when none is.                                            *)
Stage(h, v) ==
  LET n == Len(agents)
      a == msg[h][1]
  IN  /\ pc[h] = "fill" =>
           /\ n = Len(msg[h]) /\ Exactly(msg[h], n, online)
           /\ \A k \in 1 .. n : k <= i[h] => v[k] = msg[h][k]
      /\ pc[h] \in {"on", "append"} => a \in online /\ Exactly(v, n, online \ {a})
      /\ pc[h] \in {"off", "scan", "over", "cut"} => a \notin online
      /\ pc[h] = "off" => Exactly(v, n, online \cup {a})
      /\ pc[h] = "scan" =>
           \/ Exactly(v, n, online)
           \/ /\ Exactly(v, n, online \cup {a})
              /\ \A k \in 1 .. n : k <= i[h] => v[k] # a
      /\ pc[h] = "over" => i[h] < n /\ v[i[h] + 1] = a /\ Exactly(v, n, online \cup {a})
      /\ pc[h] = "cut" => n > 0 /\ Exactly(v, n - 1, online)

Held(v) ==
  /\ \A h \in Handlers : Stage(h, v)
  /\ (\A h \in Handlers : pc[h] \in Settled) => Exactly(v, Len(agents), online)

(* Without a race: one handler at most is busy, one goroutine at most      *)
(* moves agents, and the places of its swap are still what it took.        *)
OneBusy == \A h, k \in Handlers : pc[h] \in Settled \/ pc[k] \in Settled \/ h = k

Alone == \A g, k \in Goroutines : pc[g] \in Moves /\ pc[k] \in Moves => g = k

Swapping(g) ==
  /\ pc[g] = "first" =>
       i[g] < j[g] /\ j[g] < Len(agents) /\ tmp[g].address = agents[i[g] + 1].address
  /\ pc[g] = "second" => j[g] < Len(agents)

Orderly ==
  /\ Alone
  /\ \A g \in Goroutines : Swapping(g)
  /\ \E v : Shows(v) /\ Held(v)

VInv ==
  ~raced =>
    /\ OneBusy
    /\ \A h \in Handlers : pc[h] = "list" => Exactly(msg[h], Len(msg[h]), online)
    /\ (\A h \in Handlers : pc[h] # "list") => Orderly

LEMMA ShowsKept ==
  ASSUME NEW v, Shows(v), Len(agents) \in Nat, Len(agents') = Len(agents),
         \A k \in 1 .. Len(agents) : agents'[k].address = agents[k].address,
         \A g \in Goroutines : /\ pc'[g] = "second" <=> pc[g] = "second"
                               /\ pc[g] = "second" => j'[g] = j[g] /\ tmp'[g] = tmp[g]
  PROVE  Shows(v)'
<1>1. \A g \in Goroutines : pc'[g] = "second" => v[j'[g] + 1] = tmp'[g].address
  BY DEF Shows
<1>2. ASSUME NEW k \in 1 .. Len(agents), \A g \in Goroutines : pc'[g] = "second" => k # j'[g] + 1
      PROVE  v[k] = agents'[k].address
  <2>1. \A g \in Goroutines : pc[g] = "second" => k # j[g] + 1
    BY <1>2
  <2> QED
    BY <2>1 DEF Shows
<1> QED
  BY <1>1, <1>2 DEF Shows

(* Handlers that are not where a list is at stake do not count.            *)
LEMMA StageFree ==
  ASSUME NEW w, NEW h \in Handlers, pc'[h] \in Settled
  PROVE  Stage(h, w)'
  BY DEF Stage, Settled

LEMMA HeldByOne ==
  ASSUME NEW w, NEW h \in Handlers, pc'[h] \notin Settled, Stage(h, w)',
         \A k \in Handlers \ {h} : pc'[k] \in Settled
  PROVE  Held(w)'
  BY StageFree DEF Held

LEMMA HeldByNone ==
  ASSUME NEW w, \A h \in Handlers : pc'[h] \in Settled, Exactly(w, Len(agents'), online')
  PROVE  Held(w)'
  BY StageFree DEF Held

StaysSo(h) ==
  \/ pc[h] \in Settled /\ pc'[h] \in Settled
  \/ pc'[h] = pc[h] /\ i'[h] = i[h] /\ msg'[h] = msg[h]

LEMMA HeldKept ==
  ASSUME NEW v, Held(v), Len(agents') = Len(agents), online' = online,
         \A h \in Handlers : StaysSo(h)
  PROVE  Held(v)'
<1>1. ASSUME NEW h \in Handlers
      PROVE  Stage(h, v)'
  <2>1. Stage(h, v)
    BY DEF Held
  <2>2. CASE pc'[h] \in Settled
    BY <2>2, StageFree
  <2>3. CASE pc'[h] = pc[h] /\ i'[h] = i[h] /\ msg'[h] = msg[h]
    BY <2>1, <2>3 DEF Stage
  <2> QED
    BY <2>2, <2>3 DEF StaysSo
<1>2. (\A h \in Handlers : pc'[h] \in Settled) => \A h \in Handlers : pc[h] \in Settled
  BY DEF StaysSo
<1> QED
  BY <1>1, <1>2 DEF Held

LEMMA HeldSwapped ==
  ASSUME NEW v, NEW w, Held(v), Len(agents) \in Nat, Len(agents') = Len(agents),
         online' = online, \A h \in Handlers : StaysSo(h),
         \A h \in Handlers : pc[h] \notin RemovalAt \cup {"fill"},
         NEW p \in 1 .. Len(agents), NEW q \in 1 .. Len(agents), p # q, w[p] = v[q], w[q] = v[p],
         \A k \in 1 .. Len(agents) : k # p /\ k # q => w[k] = v[k]
  PROVE  Held(w)'
<1>1. \A S : Exactly(v, Len(agents), S) => Exactly(w, Len(agents), S)
  BY ExactlySwapped
<1>2. ASSUME NEW h \in Handlers
      PROVE  Stage(h, w)'
  <2>1. Stage(h, v)
    BY DEF Held
  <2>2. CASE pc'[h] \in Settled
    BY <2>2, StageFree
  <2>3. CASE pc'[h] = pc[h] /\ i'[h] = i[h] /\ msg'[h] = msg[h]
    BY <1>1, <2>1, <2>3 DEF Stage, RemovalAt
  <2> QED
    BY <2>2, <2>3 DEF StaysSo
<1>3. (\A h \in Handlers : pc'[h] \in Settled) => Exactly(w, Len(agents'), online')
  <2>1. (\A h \in Handlers : pc'[h] \in Settled) => \A h \in Handlers : pc[h] \in Settled
    BY DEF StaysSo
  <2> QED
    BY <1>1, <2>1 DEF Held
<1> QED
  BY <1>2, <1>3 DEF Held

(* A handler becomes busy by a message, and with ~raced' alone.            *)
LEMMA Unsettles ==
  ASSUME TInv, NEW g \in Handlers, Acts(g), pc[g] \in Settled, pc'[g] \notin Settled
  PROVE  Announces(g)
<1>0. /\ pc \in [Goroutines -> HandlerAt \cup RefresherAt \cup RemovalAt \cup SortAt]
      /\ g \in Goroutines /\ g \notin Refreshers
      /\ Settled = {"idle", "decide", "send", "signal", "sort", "first", "second"}
  BY Constants DEF TInv, TypeOK, Settled
<1>1. CASE sortAgents(g)
  <2>1. pc'[g] \in {"first", "second", "sort", "idle"}
    <3>1. CASE Compare(g)
      BY <1>0, <3>1 DEF Compare, Step
    <3>2. CASE First(g) \/ Second(g) \/ InnerEnds(g) \/ SortEnds(g)
      BY <1>0, <3>2 DEF First, Second, InnerEnds, SortEnds, Sorted, Step
    <3> QED
      BY <1>1, <3>1, <3>2 DEF sortAgents
  <2> QED
    BY <1>0, <2>1
<1>2. CASE Replaces(g) \/ Adds(g) \/ Removes(g)
  <2>1. pc[g] \in {"list", "fill", "on", "append", "off", "scan", "over", "cut"}
    BY <1>2 DEF Replaces, MakeList, NewList, Fill, FillEnds, Adds, PingNew, AppendNew, Removes, RemoveOld,
                Scan, Overwrite, Cut, ScanEnds, Step
  <2> QED
    BY <1>0, <2>1
<1>3. CASE Signals(g)
  BY <1>0, <1>3 DEF Signals, ChannelMade, Signal, Step
<1> QED
  BY <1>0, <1>1, <1>2, <1>3 DEF Acts

LEMMA Announcing ==
  ASSUME TInv, NEW g \in Handlers, Announces(g), ~raced'
  PROVE  /\ pc[g] = "idle" /\ pc'[g] \in {"list", "on", "off"}
         /\ \A k \in Handlers \ {g} : pc[k] \in Settled /\ pc'[k] \in Settled
         /\ UNCHANGED <<agents, i, j, tmp>>
         /\ raced => pc'[g] = "list"
<1>1. /\ pc \in [Goroutines -> HandlerAt \cup RefresherAt \cup RemovalAt \cup SortAt]
      /\ Handlers \subseteq Goroutines
  BY Constants DEF TInv, TypeOK
<1>2. PICK label \in {"list", "on", "off"} : \E about : Receive(g, label, about)
  BY DEF Announces, ServerList, ServerOn, ServerOff
<1>3. /\ pc[g] = "idle" /\ pc' = [pc EXCEPT ![g] = label]
      /\ ~Busy(g) /\ UNCHANGED <<agents, i, j, tmp>>
      /\ raced => label = "list"
  <2>1. Step(g, "idle", label) /\ raced' = (Busy(g) \/ (raced /\ label # "list"))
        /\ UNCHANGED <<agents, i, j, tmp>>
    BY <1>2 DEF Receive
  <2> QED
    BY <2>1 DEF Step
<1>4. pc'[g] = label /\ \A k \in Handlers \ {g} : pc'[k] = pc[k]
  BY <1>1, <1>3
<1>5. \A k \in Handlers \ {g} : pc[k] \in Settled
  BY <1>3 DEF Busy
<1> QED
  BY <1>3, <1>4, <1>5

(* A goroutine begins to move agents where it looks for others that do.    *)
LEMMA Enters ==
  ASSUME TInv, NEW g \in Goroutines, Acts(g), ~raced', pc'[g] \in Moves, pc[g] \notin Moves
  PROVE  ~raced /\ \A k \in Goroutines \ {g} : pc[k] \notin Moves
<1>0. /\ pc \in [Goroutines -> HandlerAt \cup RefresherAt \cup RemovalAt \cup SortAt]
      /\ Moves = {"fill", "first", "second", "scan", "over", "cut"}
  BY DEF TInv, TypeOK, Moves, RemovalAt
<1>1. ASSUME StartMove(g)
      PROVE  ~raced /\ \A k \in Goroutines \ {g} : pc[k] \notin Moves
  BY <1>1 DEF StartMove, Others
<1>2. CASE sortAgents(g)
  <2>1. CASE Compare(g)
    <3>1. CASE Swaps(At(i[g]), At(j[g]))
      <4>1. StartMove(g)
        BY <2>1, <3>1 DEF Compare
      <4> QED
        BY <1>1, <4>1
    <3>2. CASE ~Swaps(At(i[g]), At(j[g]))
      BY <1>0, <2>1, <3>2 DEF Compare, Step
    <3> QED
      BY <3>1, <3>2
  <2>2. CASE First(g) \/ Second(g)
    BY <1>0, <2>2 DEF First, Second, Step
  <2>3. CASE InnerEnds(g) \/ SortEnds(g)
    BY <1>0, <2>3 DEF InnerEnds, SortEnds, Sorted, Step
  <2> QED
    BY <1>2, <2>1, <2>2, <2>3 DEF sortAgents
<1>3. CASE g \in Handlers /\ Announces(g)
  BY <1>0, <1>3, Announcing
<1>4. CASE g \in Handlers /\ MakeList(g)
  BY <1>1, <1>4 DEF MakeList, NewList
<1>5. CASE g \in Handlers /\ (Fill(g) \/ FillEnds(g) \/ Signals(g) \/ Adds(g))
  BY <1>0, <1>5 DEF Fill, FillEnds, Signals, ChannelMade, Signal, Adds, PingNew, AppendNew, Step
<1>6. CASE g \in Handlers /\ RemoveOld(g)
  BY <1>1, <1>6 DEF RemoveOld
<1>7. CASE g \in Handlers /\ (Scan(g) \/ Overwrite(g) \/ Cut(g) \/ ScanEnds(g))
  BY <1>0, <1>7 DEF Scan, Overwrite, Cut, ScanEnds, Step
<1>8. CASE g \in Refreshers /\ refreshAgents(g)
  <2>1. pc'[g] \in {"make", "test", "store", "sort"}
    <3>1. CASE CheckChannel(g) \/ MakeChannel(g) \/ Timer(g)
      BY <1>0, <3>1 DEF CheckChannel, MakeChannel, Timer, Step
    <3>2. CASE Ping(g) \/ Store(g) \/ AllPinged(g)
      BY <1>0, <3>2 DEF Ping, Store, AllPinged, Step
    <3> QED
      BY <1>8, <3>1, <3>2 DEF refreshAgents
  <2> QED
    BY <1>0, <2>1
<1> QED
  BY <1>2, <1>3, <1>4, <1>5, <1>6, <1>7, <1>8 DEF Acts, Replaces, Removes

(* Who does not move agents leaves those that are listed in their places.  *)
LEMMA KeepsPlaces ==
  ASSUME TInv, NEW g \in Goroutines, Acts(g), pc[g] \notin Moves, pc[g] # "list"
  PROVE  /\ Len(agents') >= Len(agents)
         /\ \A k \in 1 .. Len(agents) : agents'[k].address = agents[k].address
         /\ ~(g \in Handlers /\ AppendNew(g)) => Len(agents') = Len(agents)
<1>0. /\ agents \in Seq(Agents) /\ Len(agents) \in Nat /\ DOMAIN agents = 1 .. Len(agents)
      /\ \A k \in 1 .. Len(agents) : agents[k] \in Agents
      /\ g \in Handlers => msg[g] \in Seq(Addresses) /\ (pc[g] = "append" => Len(msg[g]) = 1)
      /\ measured[g] \in Measures /\ i[g] \in Nat
      /\ Moves = {"fill", "first", "second", "scan", "over", "cut"}
  BY ListFacts DEF TInv, TypeOK, Told, Moves, RemovalAt
<1>1. CASE agents' = agents
  BY <1>0, <1>1
<1>2. CASE g \in Handlers /\ AppendNew(g)
  <2>1. Agent(msg[g][1], measured[g]) \in Agents
    BY <1>0, <1>2, ListFacts, Constants DEF AppendNew, Step
  <2>2. /\ Len(agents') = Len(agents) + 1
        /\ \A k \in 1 .. Len(agents) : agents'[k] = agents[k]
    BY <1>0, <1>2, <2>1, AppendProperties DEF AppendNew
  <2>3. \A k \in 1 .. Len(agents) : agents'[k].address = agents[k].address
    BY <2>2
  <2>4. Len(agents') >= Len(agents)
    BY <1>0, <2>2
  <2> QED
    BY <1>2, <2>3, <2>4
<1>3. CASE g \in Refreshers /\ Store(g)
  <2>1. /\ i[g] < Len(agents)
        /\ agents' = [agents EXCEPT ![i[g] + 1] = [agents[i[g] + 1] EXCEPT !.metric = measured[g]]]
    BY <1>3 DEF Store
  <2>0. \A e \in Agents, m \in Measures : /\ [e EXCEPT !.metric = m] \in Agents
                                         /\ [e EXCEPT !.metric = m].address = e.address
    BY DEF Agents
  <2>2. /\ i[g] + 1 \in 1 .. Len(agents)
        /\ [agents[i[g] + 1] EXCEPT !.metric = measured[g]] \in Agents
        /\ [agents[i[g] + 1] EXCEPT !.metric = measured[g]].address = agents[i[g] + 1].address
    BY <1>0, <2>0, <2>1
  <2>3. /\ Len(agents') = Len(agents)
        /\ agents'[i[g] + 1] = [agents[i[g] + 1] EXCEPT !.metric = measured[g]]
        /\ \A k \in 1 .. Len(agents) : k # i[g] + 1 => agents'[k] = agents[k]
    BY <1>0, <2>1, <2>2, WriteFacts
  <2>4. \A k \in 1 .. Len(agents) : agents'[k].address = agents[k].address
    BY <2>2, <2>3
  <2> QED
    BY <1>0, <2>3, <2>4
<1>4. ~Writes(g) => agents' = agents
  <2>1. CASE Finishes(g)
    BY <2>1, Effects
  <2>2. CASE ~Finishes(g)
    BY <2>2, Effects
  <2> QED
    BY <2>1, <2>2
<1>5. Writes(g) => (g \in Handlers /\ AppendNew(g)) \/ (g \in Refreshers /\ Store(g))
  BY <1>0 DEF Writes, First, Second, MakeList, NewList, Fill, Overwrite, Cut, Step
<1> QED
  BY <1>1, <1>2, <1>3, <1>4, <1>5

(* Only the server's messages change what it has announced.                *)
LEMMA OnlineKept ==
  ASSUME NEW g \in Goroutines, Acts(g), ~(g \in Handlers /\ Announces(g))
  PROVE  online' = online
<1>1. CASE sortAgents(g)
  BY <1>1 DEF sortAgents, Compare, First, Second, InnerEnds, SortEnds, outside
<1>2. CASE g \in Handlers /\ (Replaces(g) \/ Signals(g) \/ Adds(g))
  BY <1>2 DEF Replaces, MakeList, NewList, Fill, FillEnds, Signals, ChannelMade, Signal, Adds, PingNew,
              AppendNew, outside
<1>3. CASE g \in Handlers /\ Removes(g)
  BY <1>3 DEF Removes, RemoveOld, Scan, Overwrite, Cut, ScanEnds, outside
<1>4. CASE g \in Refreshers /\ refreshAgents(g)
  BY <1>4 DEF refreshAgents, CheckChannel, MakeChannel, Ping, Store, AllPinged, Timer, outside
<1> QED
  BY <1>1, <1>2, <1>3, <1>4 DEF Acts

LEMMA Plain ==
  ASSUME Alone, NEW g \in Goroutines, pc[g] \in Moves, pc[g] # "second", NEW v, Shows(v)
  PROVE  /\ \A k \in Goroutines : pc[k] # "second"
         /\ \A k \in 1 .. Len(agents) : v[k] = agents[k].address
<1>1. \A k \in Goroutines : pc[k] # "second"
  BY DEF Alone, Moves
<1> QED
  BY <1>1 DEF Shows

LEMMA ShowsPlain ==
  ASSUME NEW w, \A k \in Goroutines : pc'[k] # "second",
         \A k \in 1 .. Len(agents') : w[k] = agents'[k].address
  PROVE  Shows(w)'
  BY DEF Shows

(* What the lemmas on single steps assume, and of the list's shape.        *)
Shown(v) == TInv /\ ~raced /\ OneBusy /\ Alone /\ (\A g \in Goroutines : Swapping(g)) /\ Shows(v) /\ Held(v)

LEMMA ShownFacts ==
  ASSUME NEW v, Shown(v), NEW g \in Goroutines, Acts(g)
  PROVE  /\ agents \in Seq(Agents) /\ Len(agents) \in Nat /\ DOMAIN agents = 1 .. Len(agents)
         /\ \A k \in 1 .. Len(agents) : agents[k] \in Agents
         /\ i[g] \in Nat /\ j[g] \in Nat /\ tmp[g] \in Agents
         /\ pc \in [Goroutines -> HandlerAt \cup RefresherAt \cup RemovalAt \cup SortAt]
         /\ i \in [Goroutines -> Nat] /\ j \in [Goroutines -> Nat] /\ tmp \in [Goroutines -> Agents]
         /\ msg \in [Handlers -> Seq(Addresses)]
         /\ \A k \in Goroutines \ {g} : Same(k)
         /\ \A h \in Handlers \ {g} : StaysSo(h)
         /\ g \in Handlers /\ pc[g] \notin Settled => \A h \in Handlers \ {g} : pc[h] \in Settled /\ pc'[h] \in Settled
         /\ Handlers \subseteq Goroutines
<1>1. TInv /\ OneBusy
  BY DEF Shown
<1>2. /\ agents \in Seq(Agents) /\ Len(agents) \in Nat /\ DOMAIN agents = 1 .. Len(agents)
      /\ \A k \in 1 .. Len(agents) : agents[k] \in Agents
  BY <1>1, ListFacts DEF TInv, TypeOK
<1>3. /\ pc \in [Goroutines -> HandlerAt \cup RefresherAt \cup RemovalAt \cup SortAt]
      /\ i \in [Goroutines -> Nat] /\ j \in [Goroutines -> Nat] /\ tmp \in [Goroutines -> Agents]
      /\ msg \in [Handlers -> Seq(Addresses)]
  BY <1>1 DEF TInv, TypeOK
<1>4. \A k \in Goroutines \ {g} : Same(k)
  BY <1>1, OthersSame DEF TInv
<1>5. Handlers \subseteq Goroutines
  BY Constants
<1>6. \A h \in Handlers \ {g} : StaysSo(h) /\ pc'[h] = pc[h]
  BY <1>4, <1>5 DEF Same, StaysSo
<1>7. g \in Handlers /\ pc[g] \notin Settled => \A h \in Handlers \ {g} : pc[h] \in Settled
  BY <1>1 DEF OneBusy
<1> QED
  BY <1>2, <1>3, <1>4, <1>5, <1>6, <1>7

(* Steps that neither move an agent nor bring a message any further.       *)
LEMMA QuietShown ==
  ASSUME NEW v, Shown(v), NEW g \in Goroutines, Acts(g), ~(g \in Handlers /\ Announces(g)),
         ~(g \in Handlers /\ AppendNew(g)),
         pc[g] \notin Moves, pc[g] # "list", pc'[g] # "second", g \in Handlers => StaysSo(g)
  PROVE  Shows(v)' /\ Held(v)'
<1>1. /\ Len(agents') = Len(agents) /\ Len(agents) \in Nat
      /\ \A k \in 1 .. Len(agents) : agents'[k].address = agents[k].address
  BY ShownFacts, KeepsPlaces DEF Shown
<1>2. online' = online
  BY OnlineKept
<1>3. \A h \in Handlers : StaysSo(h)
  BY ShownFacts
<1>4. \A k \in Goroutines : /\ pc'[k] = "second" <=> pc[k] = "second"
                            /\ pc[k] = "second" => j'[k] = j[k] /\ tmp'[k] = tmp[k]
  BY ShownFacts DEF Same, Moves
<1>5. Shows(v)'
  BY <1>1, <1>4, ShowsKept DEF Shown
<1>6. Held(v)'
  BY <1>1, <1>2, <1>3, HeldKept DEF Shown
<1> QED
  BY <1>5, <1>6

LEMMA FirstShown ==
  ASSUME NEW v, Shown(v), NEW g \in Goroutines, Acts(g), First(g)
  PROVE  \E w : Shows(w)' /\ Held(w)'
<1>0. /\ agents \in Seq(Agents) /\ Len(agents) \in Nat
      /\ \A k \in 1 .. Len(agents) : agents[k] \in Agents
      /\ i[g] \in Nat /\ j[g] \in Nat /\ tmp[g] \in Agents
      /\ pc \in [Goroutines -> HandlerAt \cup RefresherAt \cup RemovalAt \cup SortAt]
  BY ShownFacts
<1>1. /\ pc[g] = "first" /\ pc'[g] = "second" /\ UNCHANGED <<i, j, tmp>>
      /\ agents' = [agents EXCEPT ![i[g] + 1] = agents[j[g] + 1]] /\ i[g] < Len(agents)
  BY <1>0 DEF First, Step, At
<1>2. i[g] < j[g] /\ j[g] < Len(agents) /\ tmp[g].address = agents[i[g] + 1].address
  BY <1>1 DEF Shown, Swapping
<1> DEFINE p == i[g] + 1
           q == j[g] + 1
<1>3. p \in 1 .. Len(agents) /\ q \in 1 .. Len(agents) /\ p # q
  BY <1>0, <1>2
<1>4. /\ Len(agents') = Len(agents) /\ agents'[p] = agents[q]
      /\ \A k \in 1 .. Len(agents) : k # p => agents'[k] = agents[k]
  BY <1>0, <1>1, <1>3, WriteFacts
<1>5. /\ \A k \in Goroutines : pc[k] # "second"
      /\ \A k \in 1 .. Len(agents) : v[k] = agents[k].address
  BY <1>1, Plain DEF Shown, Moves
<1>6. \A k \in Goroutines : pc'[k] = "second" => k = g
  BY <1>5, ShownFacts DEF Same
<1>7. \E w : w = [k \in 1 .. Len(agents) |-> IF k = p THEN v[q] ELSE IF k = q THEN v[p] ELSE v[k]]
  OBVIOUS
<1>8. PICK w : w = [k \in 1 .. Len(agents) |-> IF k = p THEN v[q] ELSE IF k = q THEN v[p] ELSE v[k]]
  BY <1>7
<1>9. w[p] = v[q] /\ w[q] = v[p] /\ \A k \in 1 .. Len(agents) : k # p /\ k # q => w[k] = v[k]
  BY <1>3, <1>8
<1>10. Shows(w)'
  <2>1. w[q] = tmp[g].address
    BY <1>2, <1>3, <1>5, <1>9
  <2>2. \A k \in 1 .. Len(agents) : k # q => w[k] = agents'[k].address
    BY <1>3, <1>4, <1>5, <1>9
  <2>3. \A k \in Goroutines : pc'[k] = "second" => w[j'[k] + 1] = tmp'[k].address
    BY <1>1, <1>6, <2>1
  <2>4. ASSUME NEW k \in 1 .. Len(agents'), \A l \in Goroutines : pc'[l] = "second" => k # j'[l] + 1
        PROVE  w[k] = agents'[k].address
    <3>1. k # q /\ k \in 1 .. Len(agents)
      BY <1>1, <1>4, <2>4
    <3> QED
      BY <2>2, <3>1
  <2> QED
    BY <2>3, <2>4 DEF Shows
<1>11. Held(w)'
  <2>1. online' = online
    BY <1>1 DEF First, outside
  <2>2. \A h \in Handlers : StaysSo(h)
    BY <1>1, ShownFacts DEF StaysSo, Settled
  <2>3. \A h \in Handlers : pc[h] \notin RemovalAt \cup {"fill"}
    BY <1>1, Constants DEF Shown, Alone, Moves, RemovalAt
  <2> HIDE DEF p, q
  <2> QED
    BY <1>0, <1>3, <1>4, <1>9, <2>1, <2>2, <2>3, HeldSwapped DEF Shown
<1> QED
  BY <1>10, <1>11

LEMMA SecondShown ==
  ASSUME NEW v, Shown(v), NEW g \in Goroutines, Acts(g), Second(g)
  PROVE  Shows(v)' /\ Held(v)'
<1>0. /\ agents \in Seq(Agents) /\ Len(agents) \in Nat
      /\ j[g] \in Nat /\ tmp[g] \in Agents
      /\ pc \in [Goroutines -> HandlerAt \cup RefresherAt \cup RemovalAt \cup SortAt]
  BY ShownFacts
<1>1. /\ pc[g] = "second" /\ pc'[g] = "sort" /\ online' = online
      /\ agents' = [agents EXCEPT ![j[g] + 1] = tmp[g]] /\ j[g] < Len(agents)
  BY <1>0 DEF Second, Step, outside
<1>2. /\ Len(agents') = Len(agents) /\ agents'[j[g] + 1] = tmp[g]
      /\ \A k \in 1 .. Len(agents) : k # j[g] + 1 => agents'[k] = agents[k]
  BY <1>0, <1>1, WriteFacts
<1>3. \A k \in Goroutines : pc[k] = "second" => k = g
  BY <1>1 DEF Shown, Alone, Moves
<1>4. \A k \in Goroutines : pc'[k] # "second"
  BY <1>1, <1>3, ShownFacts DEF Same
<1>5. \A k \in 1 .. Len(agents) : v[k] = agents'[k].address
  <2>1. v[j[g] + 1] = tmp[g].address
    BY <1>1 DEF Shown, Shows
  <2>2. \A k \in 1 .. Len(agents) : k # j[g] + 1 => v[k] = agents[k].address
    BY <1>3 DEF Shown, Shows
  <2> QED
    BY <1>2, <2>1, <2>2
<1>6. \A h \in Handlers : StaysSo(h)
  BY <1>1, ShownFacts DEF StaysSo, Settled
<1> QED
  BY <1>1, <1>2, <1>4, <1>5, <1>6, ShowsPlain, HeldKept DEF Shown

LEMMA AnnouncedShown ==
  ASSUME NEW v, Shown(v), NEW g \in Handlers, Acts(g), Announces(g), ~raced', pc'[g] # "list"
  PROVE  Shows(v)' /\ Held(v)'
<1>0. /\ g \in Goroutines /\ msg \in [Handlers -> Seq(Addresses)]
      /\ pc \in [Goroutines -> HandlerAt \cup RefresherAt \cup RemovalAt \cup SortAt]
      /\ Len(agents) \in Nat /\ \A k \in Goroutines \ {g} : Same(k)
  BY ShownFacts, Constants
<1>1. /\ pc[g] = "idle" /\ pc'[g] \in {"on", "off"} /\ UNCHANGED <<agents, i, j, tmp>>
      /\ \A k \in Handlers \ {g} : pc[k] \in Settled /\ pc'[k] \in Settled
  BY Announcing DEF Shown
<1>2. Shows(v)'
  <2>1. \A k \in Goroutines : pc'[k] = "second" <=> pc[k] = "second"
    BY <1>0, <1>1 DEF Same
  <2> QED
    BY <1>0, <1>1, <2>1, ShowsKept DEF Shown
<1>3. Exactly(v, Len(agents), online)
  <2>1. \A h \in Handlers : pc[h] \in Settled
    BY <1>1 DEF Settled
  <2> QED
    BY <2>1 DEF Shown, Held
<1>4. Stage(g, v)'
  <2>1. PICK a \in scope.addresses : ServerOn(g, a) \/ ServerOff(g, a)
    <3>1. \A set : ~ServerList(g, set)
      BY <1>0, <1>1 DEF ServerList, Receive, Step
    <3> QED
      BY <3>1 DEF Announces
  <2>2. CASE ServerOn(g, a)
    <3>1. /\ a \notin online /\ online' = online \cup {a} /\ pc'[g] = "on" /\ msg'[g] = <<a>>
      BY <1>0, <2>2 DEF ServerOn, Receive, Step
    <3>2. msg'[g][1] = a /\ online' \ {a} = online
      BY <3>1
    <3> QED
      BY <1>1, <1>3, <3>1, <3>2 DEF Stage
  <2>3. CASE ServerOff(g, a)
    <3>1. /\ a \in online /\ online' = online \ {a} /\ pc'[g] = "off" /\ msg'[g] = <<a>>
      BY <1>0, <2>3 DEF ServerOff, Receive, Step
    <3>2. msg'[g][1] = a /\ online' \cup {a} = online /\ a \notin online'
      BY <3>1
    <3> QED
      BY <1>1, <1>3, <3>1, <3>2 DEF Stage
  <2> QED
    BY <2>1, <2>2, <2>3
<1>5. pc'[g] \notin Settled
  BY <1>1 DEF Settled
<1> QED
  BY <1>1, <1>2, <1>4, <1>5, HeldByOne

(* The one busy handler, which alone moves agents, goes on.                *)
LEMMA BusyFacts ==
  ASSUME NEW v, Shown(v), NEW g \in Handlers, Acts(g), pc[g] \in {"fill"} \cup RemovalAt
  PROVE  /\ \A k \in 1 .. Len(agents) : v[k] = agents[k].address
         /\ \A k \in Goroutines \ {g} : pc[k] # "second" /\ pc'[k] # "second"
         /\ \A h \in Handlers \ {g} : pc[h] \in Settled /\ pc'[h] \in Settled
         /\ Stage(g, v) /\ online' = online
<1>1. g \in Goroutines /\ pc[g] \in Moves /\ pc[g] # "second" /\ pc[g] \notin Settled
  BY Constants DEF Moves, Settled, RemovalAt
<1>2. /\ \A k \in Goroutines : pc[k] # "second"
      /\ \A k \in 1 .. Len(agents) : v[k] = agents[k].address
  BY <1>1, Plain DEF Shown
<1>3. \A k \in Goroutines \ {g} : pc'[k] = pc[k]
  BY <1>1, ShownFacts DEF Same
<1>4. \A h \in Handlers \ {g} : pc[h] \in Settled /\ pc'[h] \in Settled
  BY <1>1, ShownFacts
<1>5. Stage(g, v)
  BY DEF Shown, Held
<1>6. ~Announces(g)
  BY <1>1 DEF Announces, ServerList, ServerOn, ServerOff, Receive, Step, Settled
<1> QED
  BY <1>1, <1>2, <1>3, <1>4, <1>5, <1>6, OnlineKept

LEMMA FillShown ==
  ASSUME NEW v, Shown(v), NEW g \in Handlers, Acts(g), Fill(g)
  PROVE  \E w : Shows(w)' /\ Held(w)'
<1>0. /\ agents \in Seq(Agents) /\ Len(agents) \in Nat /\ i[g] \in Nat /\ g \in Goroutines
      /\ pc \in [Goroutines -> HandlerAt \cup RefresherAt \cup RemovalAt \cup SortAt]
      /\ i \in [Goroutines -> Nat] /\ msg \in [Handlers -> Seq(Addresses)]
  BY ShownFacts, Constants
<1>1. /\ pc[g] = "fill" /\ pc'[g] = "fill" /\ i'[g] = i[g] + 1 /\ msg' = msg
      /\ i[g] < Len(msg[g]) /\ i[g] < Len(agents)
      /\ agents' = [agents EXCEPT ![i[g] + 1] = Agent(msg[g][i[g] + 1], Unreachable)]
  BY <1>0 DEF Fill, Step
<1>2. /\ \A k \in 1 .. Len(agents) : v[k] = agents[k].address
      /\ \A k \in Goroutines \ {g} : pc[k] # "second" /\ pc'[k] # "second"
      /\ \A h \in Handlers \ {g} : pc[h] \in Settled /\ pc'[h] \in Settled
      /\ Stage(g, v) /\ online' = online
  BY <1>1, BusyFacts
<1>3. /\ Len(agents) = Len(msg[g]) /\ Exactly(msg[g], Len(agents), online)
      /\ \A k \in 1 .. Len(agents) : k <= i[g] => v[k] = msg[g][k]
  BY <1>1, <1>2 DEF Stage
<1>4. i[g] + 1 \in 1 .. Len(agents)
  BY <1>0, <1>1
<1>5. Agent(msg[g][i[g] + 1], Unreachable) \in Agents
  <2>1. msg[g] \in Seq(Addresses) /\ i[g] + 1 \in 1 .. Len(msg[g])
    BY <1>0, <1>3, <1>4
  <2> QED
    BY <2>1, ListFacts, Constants
<1>6. /\ Len(agents') = Len(agents)
      /\ agents'[i[g] + 1] = Agent(msg[g][i[g] + 1], Unreachable)
      /\ \A k \in 1 .. Len(agents) : k # i[g] + 1 => agents'[k] = agents[k]
  BY <1>0, <1>1, <1>5, WriteFacts
<1>7. \E w : w = [k \in 1 .. Len(agents) |-> agents'[k].address]
  OBVIOUS
<1>8. PICK w : w = [k \in 1 .. Len(agents) |-> agents'[k].address]
  BY <1>7
<1>9. Shows(w)'
  <2>1. \A k \in 1 .. Len(agents') : w[k] = agents'[k].address
    BY <1>6, <1>8
  <2>2. \A k \in Goroutines : pc'[k] # "second"
    BY <1>1, <1>2
  <2> QED
    BY <2>1, <2>2, ShowsPlain
<1>10. Stage(g, w)'
  <2>1. ASSUME NEW k \in 1 .. Len(agents), k <= i[g] + 1
        PROVE  w[k] = msg[g][k]
    <3>1. CASE k = i[g] + 1
      BY <1>4, <1>6, <1>8, <3>1 DEF Agent
    <3>2. CASE k # i[g] + 1
      <4>1. k <= i[g]
        BY <1>0, <2>1, <3>2
      <4>2. w[k] = v[k]
        BY <1>2, <1>6, <1>8, <3>2
      <4> QED
        BY <1>3, <4>1, <4>2
    <3> QED
      BY <3>1, <3>2
  <2> QED
    BY <1>1, <1>2, <1>3, <1>6, <2>1 DEF Stage
<1>11. pc'[g] \notin Settled
  BY <1>1 DEF Settled
<1> QED
  BY <1>2, <1>9, <1>10, <1>11, HeldByOne

LEMMA FillEndsShown ==
  ASSUME NEW v, Shown(v), NEW g \in Handlers, Acts(g), FillEnds(g)
  PROVE  Shows(v)' /\ Held(v)'
<1>0. /\ Len(agents) \in Nat /\ i[g] \in Nat /\ g \in Goroutines
      /\ pc \in [Goroutines -> HandlerAt \cup RefresherAt \cup RemovalAt \cup SortAt]
  BY ShownFacts, Constants
<1>1. /\ pc[g] = "fill" /\ pc'[g] = "decide" /\ agents' = agents /\ i[g] >= Len(msg[g])
  BY <1>0 DEF FillEnds, Step
<1>2. /\ \A k \in 1 .. Len(agents) : v[k] = agents[k].address
      /\ \A k \in Goroutines \ {g} : pc[k] # "second" /\ pc'[k] # "second"
      /\ \A h \in Handlers \ {g} : pc[h] \in Settled /\ pc'[h] \in Settled
      /\ Stage(g, v) /\ online' = online
  BY <1>1, BusyFacts
<1>3. /\ Len(agents) = Len(msg[g]) /\ Exactly(msg[g], Len(agents), online)
      /\ \A k \in 1 .. Len(agents) : k <= i[g] => v[k] = msg[g][k]
  BY <1>1, <1>2 DEF Stage
<1>4. \A k \in 1 .. Len(agents) : v[k] = msg[g][k]
  BY <1>0, <1>1, <1>3
<1>5. Exactly(v, Len(agents'), online')
  BY <1>1, <1>2, <1>3, <1>4, ExactlySame
<1>6. Shows(v)'
  BY <1>1, <1>2, ShowsPlain
<1>7. \A h \in Handlers : pc'[h] \in Settled
  BY <1>1, <1>2 DEF Settled
<1> QED
  BY <1>5, <1>6, <1>7, HeldByNone

LEMMA AddsShown ==
  ASSUME NEW v, Shown(v), NEW g \in Handlers, Acts(g), Adds(g)
  PROVE  \E w : Shows(w)' /\ Held(w)'
<1>0. /\ agents \in Seq(Agents) /\ Len(agents) \in Nat /\ g \in Goroutines
      /\ msg \in [Handlers -> Seq(Addresses)] /\ j \in [Goroutines -> Nat]
      /\ pc \in [Goroutines -> HandlerAt \cup RefresherAt \cup RemovalAt \cup SortAt]
      /\ \A k \in Goroutines \ {g} : Same(k)
  BY ShownFacts, Constants
<1>1. pc[g] \in {"on", "append"} /\ pc[g] \notin Settled
  BY DEF Adds, PingNew, AppendNew, Step, Settled
<1>2. online' = online
  <2>1. ~Announces(g)
    BY <1>1 DEF Announces, ServerList, ServerOn, ServerOff, Receive, Step
  <2> QED
    BY <1>0, <2>1, OnlineKept
<1>3. \A h \in Handlers \ {g} : pc[h] \in Settled /\ pc'[h] \in Settled
  BY <1>0, <1>1, ShownFacts
<1>4. msg[g][1] \in online /\ Exactly(v, Len(agents), online \ {msg[g][1]})
  BY <1>1 DEF Shown, Held, Stage
<1>5. CASE PingNew(g)
  <2>1. pc'[g] = "append" /\ UNCHANGED <<agents, msg, i, j, tmp>>
    BY <1>0, <1>5 DEF PingNew, Step
  <2>2. Stage(g, v)'
    BY <1>2, <1>4, <2>1 DEF Stage
  <2>3. \A k \in Goroutines : pc'[k] = "second" <=> pc[k] = "second"
    BY <1>0, <1>1, <2>1 DEF Same
  <2>4. Shows(v)'
    BY <1>0, <2>1, <2>3, ShowsKept DEF Shown
  <2>5. pc'[g] \notin Settled
    BY <2>1 DEF Settled
  <2> QED
    BY <1>3, <2>2, <2>4, <2>5, HeldByOne
<1>6. CASE AppendNew(g)
  <2> DEFINE n == Len(agents)
             a == msg[g][1]
  <2>1. /\ pc[g] = "append" /\ pc'[g] = "sort" /\ j' = j /\ tmp' = tmp
        /\ agents' = Append(agents, Agent(a, measured[g]))
    BY <1>0, <1>6 DEF AppendNew, Step
  <2>2. /\ Len(agents') = n + 1 /\ agents'[n + 1].address = a
        /\ \A k \in 1 .. n : agents'[k] = agents[k]
    <3>1. measured[g] \in Measures /\ Len(msg[g]) = 1
      BY <1>0, <2>1 DEF Shown, TInv, TypeOK, Told
    <3>2. Agent(a, measured[g]) \in Agents
      <4>1. msg[g] \in Seq(Addresses) /\ 1 \in 1 .. Len(msg[g])
        BY <1>0, <3>1
      <4>2. msg[g][1] \in Addresses
        BY <4>1, ListFacts
      <4> QED
        BY <3>1, <4>2, Constants
    <3>3. Agent(a, measured[g]).address = a
      BY DEF Agent
    <3> DEFINE e == Agent(a, measured[g])
    <3> HIDE DEF e
    <3>4. /\ Len(agents') = n + 1 /\ agents'[n + 1] = e
          /\ \A k \in 1 .. n : agents'[k] = agents[k]
      <4>1. e \in Agents /\ agents' = Append(agents, e)
        BY <2>1, <3>2 DEF e
      <4> QED
        BY <1>0, <4>1, AppendProperties
    <3> QED
      BY <3>3, <3>4 DEF e
  <2>3. \E w : w = [k \in 1 .. n + 1 |-> IF k = n + 1 THEN a ELSE v[k]]
    OBVIOUS
  <2>4. PICK w : w = [k \in 1 .. n + 1 |-> IF k = n + 1 THEN a ELSE v[k]]
    BY <2>3
  <2>5. w[n + 1] = a /\ \A k \in 1 .. n : w[k] = v[k]
    BY <1>0, <2>4
  <2>6. Shows(w)'
    <3>1. ASSUME NEW k \in Goroutines, pc'[k] = "second"
          PROVE  w[j'[k] + 1] = tmp'[k].address /\ pc[k] = "second" /\ j[k] + 1 \in 1 .. n
      <4>1. pc[k] = "second"
        BY <1>0, <2>1, <3>1 DEF Same
      <4>2. j[k] + 1 \in 1 .. n
        BY <1>0, <4>1 DEF Shown, Swapping
      <4> QED
        BY <2>1, <2>5, <4>1, <4>2 DEF Shown, Shows
    <3>2. ASSUME NEW k \in 1 .. Len(agents'), \A l \in Goroutines : pc'[l] = "second" => k # j'[l] + 1
          PROVE  w[k] = agents'[k].address
      <4>1. CASE k = n + 1
        BY <2>2, <2>5, <4>1
      <4>2. CASE k # n + 1
        <5>1. k \in 1 .. n
          BY <1>0, <2>2, <4>2
        <5>2. \A l \in Goroutines : pc[l] = "second" => k # j[l] + 1
          BY <1>0, <1>1, <2>1, <3>2 DEF Same
        <5> QED
          BY <2>2, <2>5, <5>1, <5>2 DEF Shown, Shows
      <4> QED
        BY <4>1, <4>2
    <3> QED
      BY <3>1, <3>2 DEF Shows
  <2>7. Exactly(w, Len(agents'), online')
    <3>1. Exactly(w, n + 1, (online \ {a}) \cup {a})
      <4> HIDE DEF n, a
      <4>1. n \in Nat /\ Exactly(v, n, online \ {a}) /\ a \notin online \ {a}
        BY <1>0, <1>4 DEF n, a
      <4> QED
        BY <2>5, <4>1, ExactlyAppended
    <3>2. (online \ {a}) \cup {a} = online
      BY <1>4
    <3> QED
      BY <1>2, <2>2, <3>1, <3>2
  <2>8. \A h \in Handlers : pc'[h] \in Settled
    BY <1>3, <2>1 DEF Settled
  <2> QED
    BY <2>6, <2>7, <2>8, HeldByNone
<1> QED
  BY <1>5, <1>6 DEF Adds

LEMMA RemoveOldShown ==
  ASSUME NEW v, Shown(v), NEW g \in Handlers, Acts(g), RemoveOld(g)
  PROVE  Shows(v)' /\ Held(v)'
<1>0. /\ Len(agents) \in Nat /\ i[g] \in Nat /\ g \in Goroutines
      /\ pc \in [Goroutines -> HandlerAt \cup RefresherAt \cup RemovalAt \cup SortAt]
      /\ \A k \in Goroutines \ {g} : Same(k)
  BY ShownFacts, Constants
<1>1. pc[g] = "off" /\ pc'[g] = "scan" /\ UNCHANGED <<agents, online, msg, i, j, tmp>>
  BY <1>0 DEF RemoveOld, Step, outside
<1>2. i[g] = 0
  BY <1>0, <1>1 DEF Shown, TInv, Loops, SortAt, RemovalAt
<1>3. msg[g][1] \notin online /\ Exactly(v, Len(agents), online \cup {msg[g][1]})
  BY <1>1 DEF Shown, Held, Stage
<1>4. Stage(g, v)'
  <2>1. \A k \in 1 .. Len(agents) : ~(k <= i[g])
    BY <1>0, <1>2
  <2> QED
    BY <1>1, <1>3, <2>1 DEF Stage
<1>5. Shows(v)'
  <2>1. \A k \in Goroutines : pc'[k] = "second" <=> pc[k] = "second"
    BY <1>0, <1>1 DEF Same
  <2> QED
    BY <1>0, <1>1, <2>1, ShowsKept DEF Shown
<1>6. \A h \in Handlers \ {g} : pc'[h] \in Settled
  BY <1>0, <1>1, ShownFacts DEF Settled
<1>7. pc'[g] \notin Settled
  BY <1>1 DEF Settled
<1> QED
  BY <1>4, <1>5, <1>6, <1>7, HeldByOne

LEMMA ScanShown ==
  ASSUME NEW v, Shown(v), NEW g \in Handlers, Acts(g), Scan(g) \/ ScanEnds(g)
  PROVE  Shows(v)' /\ Held(v)'
<1>0. /\ Len(agents) \in Nat /\ i[g] \in Nat /\ g \in Goroutines
      /\ pc \in [Goroutines -> HandlerAt \cup RefresherAt \cup RemovalAt \cup SortAt]
      /\ i \in [Goroutines -> Nat]
  BY ShownFacts, Constants
<1>1. pc[g] = "scan" /\ agents' = agents /\ pc'[g] # "second"
  <2>1. CASE Scan(g)
    BY <1>0, <2>1 DEF Scan, Step
  <2>2. CASE ScanEnds(g)
    BY <1>0, <2>2 DEF ScanEnds, Step
  <2> QED
    BY <2>1, <2>2
<1>2. /\ \A k \in 1 .. Len(agents) : v[k] = agents[k].address
      /\ \A k \in Goroutines \ {g} : pc[k] # "second" /\ pc'[k] # "second"
      /\ \A h \in Handlers \ {g} : pc[h] \in Settled /\ pc'[h] \in Settled
      /\ Stage(g, v) /\ online' = online
  BY <1>1, BusyFacts DEF RemovalAt
<1>3. Shows(v)'
  BY <1>1, <1>2, ShowsPlain
<1>4. msg[g][1] \notin online
  BY <1>1, <1>2 DEF Stage
<1>5. \/ Exactly(v, Len(agents), online)
      \/ /\ Exactly(v, Len(agents), online \cup {msg[g][1]})
         /\ \A k \in 1 .. Len(agents) : k <= i[g] => v[k] # msg[g][1]
  BY <1>1, <1>2 DEF Stage
<1>6. CASE ScanEnds(g)
  <2>1. i[g] >= Len(agents) /\ pc'[g] = "sort"
    BY <1>0, <1>6 DEF ScanEnds, InList, Step
  <2>2. Exactly(v, Len(agents), online)
    <3>1. CASE Exactly(v, Len(agents), online)
      BY <3>1
    <3>2. CASE /\ Exactly(v, Len(agents), online \cup {msg[g][1]})
               /\ \A k \in 1 .. Len(agents) : k <= i[g] => v[k] # msg[g][1]
      <4>1. \A k \in 1 .. Len(agents) : v[k] # msg[g][1]
        BY <1>0, <2>1, <3>2
      <4> QED
        BY <1>0, <3>2, <4>1, ExactlyWithout
    <3> QED
      BY <1>5, <3>1, <3>2
  <2>3. \A h \in Handlers : pc'[h] \in Settled
    BY <1>2, <2>1 DEF Settled
  <2> QED
    BY <1>1, <1>2, <1>3, <2>2, <2>3, HeldByNone
<1>7. CASE Scan(g) /\ At(i[g]).address = msg[g][1]
  <2>1. pc'[g] = "over" /\ UNCHANGED <<i, msg>> /\ i[g] < Len(agents)
    BY <1>0, <1>7 DEF Scan, InList, Step
  <2>2. i[g] + 1 \in 1 .. Len(agents) /\ v[i[g] + 1] = msg[g][1]
    BY <1>0, <1>2, <1>7, <2>1 DEF At
  <2>3. Exactly(v, Len(agents), online \cup {msg[g][1]})
    <3>1. ~Exactly(v, Len(agents), online)
      BY <1>4, <2>2 DEF Exactly
    <3> QED
      BY <1>5, <3>1
  <2>4. Stage(g, v)'
    BY <1>1, <1>2, <1>4, <2>1, <2>2, <2>3 DEF Stage
  <2>5. pc'[g] \notin Settled
    BY <2>1 DEF Settled
  <2> QED
    BY <1>2, <1>3, <2>4, <2>5, HeldByOne
<1>8. CASE Scan(g) /\ At(i[g]).address # msg[g][1]
  <2>1. pc'[g] = "scan" /\ i'[g] = i[g] + 1 /\ msg' = msg /\ i[g] < Len(agents)
    BY <1>0, <1>8 DEF Scan, InList, Step
  <2>2. i[g] + 1 \in 1 .. Len(agents) /\ v[i[g] + 1] # msg[g][1]
    BY <1>0, <1>2, <1>8, <2>1 DEF At
  <2>3. (\A k \in 1 .. Len(agents) : k <= i[g] => v[k] # msg[g][1])
          => \A k \in 1 .. Len(agents) : k <= i[g] + 1 => v[k] # msg[g][1]
    BY <1>0, <2>2
  <2>4. Stage(g, v)'
    BY <1>1, <1>2, <1>4, <1>5, <2>1, <2>3 DEF Stage
  <2>5. pc'[g] \notin Settled
    BY <2>1 DEF Settled
  <2> QED
    BY <1>2, <1>3, <2>4, <2>5, HeldByOne
<1> QED
  BY <1>6, <1>7, <1>8

LEMMA OverwriteShown ==
  ASSUME NEW v, Shown(v), NEW g \in Handlers, Acts(g), Overwrite(g)
  PROVE  \E w : Shows(w)' /\ Held(w)'
<1> DEFINE n == Len(agents)
           p == i[g] + 1
<1>0. /\ agents \in Seq(Agents) /\ n \in Nat /\ i[g] \in Nat /\ g \in Goroutines
      /\ pc \in [Goroutines -> HandlerAt \cup RefresherAt \cup RemovalAt \cup SortAt]
  BY ShownFacts, Constants
<1>1. /\ pc[g] = "over" /\ pc'[g] = "cut" /\ i[g] < n /\ msg' = msg
      /\ agents' = [agents EXCEPT ![p] = Last(agents)]
  BY <1>0 DEF Overwrite, Replacement, Step
<1>2. /\ \A k \in 1 .. n : v[k] = agents[k].address
      /\ \A k \in Goroutines \ {g} : pc[k] # "second" /\ pc'[k] # "second"
      /\ \A h \in Handlers \ {g} : pc[h] \in Settled /\ pc'[h] \in Settled
      /\ Stage(g, v) /\ online' = online
  BY <1>1, BusyFacts DEF RemovalAt
<1>3. msg[g][1] \notin online /\ v[p] = msg[g][1] /\ Exactly(v, n, online \cup {msg[g][1]})
  BY <1>1, <1>2 DEF Stage
<1>4. p \in 1 .. n /\ n \in 1 .. n
  BY <1>0, <1>1
<1>5. Last(agents) \in Agents /\ Last(agents) = agents[n]
  <2>1. agents # <<>>
    BY <1>0, <1>4, EmptySeq
  <2> QED
    BY <1>0, <2>1, FrontFacts
<1>6. /\ Len(agents') = n /\ agents'[p] = agents[n]
      /\ \A k \in 1 .. n : k # p => agents'[k] = agents[k]
  BY <1>0, <1>1, <1>5, WriteFacts
<1>7. \E w : w = [k \in 1 .. n |-> agents'[k].address]
  OBVIOUS
<1>8. PICK w : w = [k \in 1 .. n |-> agents'[k].address]
  BY <1>7
<1>9. Shows(w)'
  <2>1. \A k \in 1 .. Len(agents') : w[k] = agents'[k].address
    BY <1>6, <1>8
  <2>2. \A k \in Goroutines : pc'[k] # "second"
    BY <1>1, <1>2
  <2> QED
    BY <2>1, <2>2, ShowsPlain
<1>10. Exactly(w, n - 1, online)
  <2>1. w[p] = v[n] /\ \A k \in 1 .. n : k # p => w[k] = v[k]
    BY <1>2, <1>4, <1>6, <1>8
  <2> HIDE DEF n, p
  <2> QED
    BY <1>0, <1>3, <1>4, <2>1, ExactlyRemoved
<1>11. Stage(g, w)'
  BY <1>0, <1>1, <1>2, <1>3, <1>6, <1>10 DEF Stage
<1>12. pc'[g] \notin Settled
  BY <1>1 DEF Settled
<1> QED
  BY <1>2, <1>9, <1>11, <1>12, HeldByOne

LEMMA CutShown ==
  ASSUME NEW v, Shown(v), NEW g \in Handlers, Acts(g), Cut(g)
  PROVE  Shows(v)' /\ Held(v)'
<1>0. /\ agents \in Seq(Agents) /\ Len(agents) \in Nat /\ i[g] \in Nat /\ g \in Goroutines
      /\ pc \in [Goroutines -> HandlerAt \cup RefresherAt \cup RemovalAt \cup SortAt]
  BY ShownFacts, Constants
<1>1. pc[g] = "cut" /\ pc'[g] = "scan" /\ msg' = msg /\ agents' = Front(agents) /\ agents # <<>>
  BY <1>0 DEF Cut, Step
<1>2. /\ \A k \in 1 .. Len(agents) : v[k] = agents[k].address
      /\ \A k \in Goroutines \ {g} : pc[k] # "second" /\ pc'[k] # "second"
      /\ \A h \in Handlers \ {g} : pc[h] \in Settled /\ pc'[h] \in Settled
      /\ Stage(g, v) /\ online' = online
  BY <1>1, BusyFacts DEF RemovalAt
<1>3. /\ Len(agents') = Len(agents) - 1
      /\ \A k \in 1 .. Len(agents) - 1 : agents'[k] = agents[k]
  BY <1>0, <1>1, FrontFacts
<1>4. Shows(v)'
  <2>1. \A k \in 1 .. Len(agents') : v[k] = agents'[k].address
    BY <1>0, <1>2, <1>3
  <2>2. \A k \in Goroutines : pc'[k] # "second"
    BY <1>1, <1>2
  <2> QED
    BY <2>1, <2>2, ShowsPlain
<1>5. msg[g][1] \notin online /\ Exactly(v, Len(agents) - 1, online)
  BY <1>1, <1>2 DEF Stage
<1>6. Stage(g, v)'
  BY <1>1, <1>2, <1>3, <1>5 DEF Stage
<1>7. pc'[g] \notin Settled
  BY <1>1 DEF Settled
<1> QED
  BY <1>2, <1>4, <1>6, <1>7, HeldByOne

(* A whole list comes, and a new list is made for it.                      *)
LEMMA ListAnnounced ==
  ASSUME TInv, NEW g \in Handlers, Acts(g), Announces(g), ~raced', pc'[g] = "list"
  PROVE  VInv'
<1>0. /\ pc \in [Goroutines -> HandlerAt \cup RefresherAt \cup RemovalAt \cup SortAt]
      /\ msg \in [Handlers -> Seq(Addresses)] /\ g \in Goroutines
      /\ scope.addresses \subseteq Addresses
  BY Constants DEF TInv, TypeOK
<1>1. /\ pc[g] = "idle" /\ \A k \in Handlers \ {g} : pc[k] \in Settled /\ pc'[k] \in Settled
  BY Announcing
<1>2. PICK set \in SUBSET scope.addresses : ServerList(g, set)
  <2>1. \A a : ~ServerOn(g, a) /\ ~ServerOff(g, a)
    BY <1>0, <1>1 DEF ServerOn, ServerOff, Receive, Step
  <2> QED
    BY <2>1 DEF Announces
<1>3. online' = set /\ msg'[g] = SetToSeq(set)
  BY <1>0, <1>2 DEF ServerList, Receive
<1>4. Exactly(msg'[g], Len(msg'[g]), online')
  <2>1. set \in SUBSET Addresses
    BY <1>0
  <2> QED
    BY <1>3, <2>1, SetToSeqFacts DEF Exactly
<1>5. \A h \in Handlers : pc'[h] = "list" => h = g
  BY <1>1 DEF Settled
<1>6. OneBusy'
  BY <1>1 DEF OneBusy
<1> QED
  BY <1>4, <1>5, <1>6 DEF VInv

LEMMA MakeListOrderly ==
  ASSUME TInv, NEW g \in Handlers, Acts(g), MakeList(g), ~raced', OneBusy,
         Exactly(msg[g], Len(msg[g]), online)
  PROVE  Orderly'
<1>0. /\ pc \in [Goroutines -> HandlerAt \cup RefresherAt \cup RemovalAt \cup SortAt]
      /\ i \in [Goroutines -> Nat] /\ g \in Goroutines /\ msg[g] \in Seq(Addresses)
      /\ Handlers \subseteq Goroutines
  BY Constants DEF TInv, TypeOK
<1>1. /\ pc[g] = "list" /\ pc'[g] = "fill" /\ UNCHANGED <<online, msg, i>>
      /\ agents' = [k \in DOMAIN msg[g] |-> NewAgent]
  BY <1>0 DEF MakeList, NewList, Step, outside
<1>2. \A k \in Goroutines \ {g} : pc[k] \notin Moves /\ pc'[k] = pc[k]
  <2>1. \A k \in Goroutines \ {g} : pc[k] \notin Moves
    BY DEF MakeList, NewList, StartMove, Others
  <2> QED
    BY <1>0, <2>1, OthersSame DEF TInv, Same
<1>3. Alone' /\ \A k \in Goroutines : Swapping(k)'
  BY <1>1, <1>2 DEF Alone, Swapping, Moves
<1>4. /\ Len(msg[g]) \in Nat /\ DOMAIN msg[g] = 1 .. Len(msg[g]) /\ Len(agents') = Len(msg[g])
  BY <1>0, ListFacts, Lengths
<1>5. i[g] = 0
  BY <1>0, <1>1 DEF TInv, Loops, SortAt, RemovalAt
<1>6. \E w : w = [k \in 1 .. Len(msg[g]) |-> Blank]
  OBVIOUS
<1>7. PICK w : w = [k \in 1 .. Len(msg[g]) |-> Blank]
  BY <1>6
<1>8. Shows(w)'
  <2>1. \A k \in 1 .. Len(agents') : w[k] = agents'[k].address
    BY <1>1, <1>4, <1>7 DEF NewAgent, Agent
  <2>2. \A k \in Goroutines : pc'[k] # "second"
    BY <1>1, <1>2 DEF Moves
  <2> QED
    BY <2>1, <2>2, ShowsPlain
<1>9. Stage(g, w)'
  <2>1. \A k \in 1 .. Len(msg[g]) : ~(k <= i[g])
    BY <1>4, <1>5
  <2> QED
    BY <1>1, <1>4, <2>1 DEF Stage
<1>10. pc'[g] \notin Settled /\ \A h \in Handlers \ {g} : pc'[h] \in Settled
  BY <1>0, <1>1, <1>2 DEF OneBusy, Settled
<1> QED
  BY <1>3, <1>8, <1>9, <1>10, HeldByOne DEF Orderly

(* What one goroutine does, the others' swaps survive.                     *)
LEMMA SwappingKept ==
  ASSUME TInv, Alone, \A k \in Goroutines : Swapping(k),
         NEW g \in Goroutines, Acts(g), ~raced', pc[g] # "list"
  PROVE  Alone' /\ \A k \in Goroutines : Swapping(k)'
<1>0. /\ agents \in Seq(Agents) /\ Len(agents) \in Nat
      /\ pc \in [Goroutines -> HandlerAt \cup RefresherAt \cup RemovalAt \cup SortAt]
      /\ i \in [Goroutines -> Nat] /\ j \in [Goroutines -> Nat] /\ tmp \in [Goroutines -> Agents]
      /\ \A k \in Goroutines \ {g} : Same(k)
      /\ pc[g] \in SortAt => i[g] <= j[g]
  BY OthersSame, ListFacts DEF TInv, TypeOK, Loops
<1>1. Alone'
  <2>1. SUFFICES ASSUME NEW k \in Goroutines, NEW l \in Goroutines,
                        pc'[k] \in Moves, pc'[l] \in Moves, k # l
                 PROVE  FALSE
    BY DEF Alone
  <2>2. \A m \in Goroutines \ {g} : pc'[m] = pc[m]
    BY <1>0 DEF Same
  <2>3. pc'[g] \in Moves /\ pc[g] \notin Moves => \A m \in Goroutines \ {g} : pc[m] \notin Moves
    BY Enters
  <2> QED
    BY <2>1, <2>2, <2>3 DEF Alone
<1>2. ASSUME NEW k \in Goroutines \ {g}
      PROVE  Swapping(k)'
  <2>1. Same(k) /\ Swapping(k)
    BY <1>0
  <2>2. CASE pc[k] \notin {"first", "second"}
    BY <2>1, <2>2 DEF Same, Swapping
  <2>3. CASE pc[k] \in {"first", "second"}
    <3>1. pc[g] \notin Moves
      BY <2>3 DEF Alone, Moves
    <3>2. /\ Len(agents') >= Len(agents) /\ Len(agents') \in Nat
          /\ \A m \in 1 .. Len(agents) : agents'[m].address = agents[m].address
      BY <3>1, KeepsPlaces, Lengths
    <3>3. pc[k] = "first" => i[k] + 1 \in 1 .. Len(agents)
      BY <1>0, <2>1 DEF Swapping
    <3>4. i[k] \in Nat /\ j[k] \in Nat
      BY <1>0
    <3> QED
      BY <1>0, <2>1, <3>2, <3>3, <3>4 DEF Same, Swapping
  <2> QED
    BY <2>2, <2>3
<1>3. Swapping(g)'
  <2>1. CASE Compare(g) /\ Swaps(At(i[g]), At(j[g]))
    <3>1. /\ pc[g] = "sort" /\ pc'[g] = "first" /\ UNCHANGED <<agents, i, j>>
          /\ j[g] < Len(agents) /\ tmp'[g] = agents[i[g] + 1]
          /\ Swaps(agents[i[g] + 1], agents[j[g] + 1])
      BY <1>0, <2>1 DEF Compare, Step, InList, At
    <3>2. i[g] # j[g]
      <4>1. j[g] + 1 \in 1 .. Len(agents)
        BY <1>0, <3>1
      <4>2. agents[j[g] + 1].metric \in Int
        <5>1. agents[j[g] + 1] \in Agents
          BY <1>0, <4>1, ListFacts
        <5> QED
          BY <5>1 DEF Agents, Measures, Unreachable
      <4> QED
        BY <3>1, <4>2 DEF Swaps
    <3>3. i[g] < j[g]
      BY <1>0, <3>1, <3>2 DEF SortAt
    <3> QED
      BY <3>1, <3>3 DEF Swapping
  <2>2. CASE First(g)
    <3>1. pc[g] = "first" /\ pc'[g] = "second" /\ j' = j /\ j[g] < Len(agents)
      BY <1>0, <2>2 DEF First, Step
    <3>2. Len(agents') = Len(agents)
      BY <1>0, <2>2, Lengths DEF First, Step, MakeList, NewList, Cut, AppendNew
    <3> QED
      BY <3>1, <3>2 DEF Swapping
  <2>3. CASE ~First(g) /\ ~(Compare(g) /\ Swaps(At(i[g]), At(j[g])))
    <3>1. pc'[g] \notin {"first", "second"}
      <4>1. CASE sortAgents(g)
        <5>1. CASE Compare(g)
          BY <1>0, <2>3, <5>1 DEF Compare, Step
        <5>2. CASE Second(g) \/ InnerEnds(g) \/ SortEnds(g)
          BY <1>0, <5>2 DEF Second, InnerEnds, SortEnds, Sorted, Step
        <5> QED
          BY <2>3, <4>1, <5>1, <5>2 DEF sortAgents
      <4>2. CASE g \in Handlers /\ Announces(g)
        BY <4>2, Announcing
      <4>3. CASE g \in Handlers /\ (Replaces(g) \/ Signals(g) \/ Adds(g))
        BY <1>0, <4>3 DEF Replaces, MakeList, NewList, Fill, FillEnds, Signals, ChannelMade, Signal, Adds,
                          PingNew, AppendNew, Step
      <4>4. CASE g \in Handlers /\ Removes(g)
        BY <1>0, <4>4 DEF Removes, RemoveOld, Scan, Overwrite, Cut, ScanEnds, Step
      <4>5. CASE g \in Refreshers /\ refreshAgents(g)
        BY <1>0, <4>5 DEF refreshAgents, CheckChannel, MakeChannel, Ping, Store, AllPinged, Timer,
                          Step
      <4> QED
        BY <4>1, <4>2, <4>3, <4>4, <4>5 DEF Acts
    <3> QED
      BY <3>1 DEF Swapping
  <2> QED
    BY <2>1, <2>2, <2>3
<1> QED
  BY <1>1, <1>2, <1>3

LEMMA ShownGoesOn ==
  ASSUME NEW v, Shown(v), NEW g \in Goroutines, Acts(g), ~raced', pc[g] # "list",
         \A h \in Handlers : pc'[h] # "list"
  PROVE  \E w : Shows(w)' /\ Held(w)'
<1>0. /\ pc \in [Goroutines -> HandlerAt \cup RefresherAt \cup RemovalAt \cup SortAt]
      /\ g \in Handlers => g \notin Refreshers
  BY ShownFacts, Constants
<1>1. ASSUME ~(g \in Handlers /\ Announces(g)), ~(g \in Handlers /\ AppendNew(g)),
             pc[g] \notin Moves, pc'[g] # "second", g \in Handlers => StaysSo(g)
      PROVE  \E w : Shows(w)' /\ Held(w)'
  BY <1>1, QuietShown
<1>2. CASE sortAgents(g)
  <2>1. ~(g \in Handlers /\ Announces(g)) /\ ~(g \in Handlers /\ AppendNew(g))
    <3>1. pc[g] \in {"sort", "first", "second"}
      BY <1>2 DEF sortAgents, Compare, First, Second, InnerEnds, SortEnds, Step
    <3> QED
      BY <3>1 DEF Announces, ServerList, ServerOn, ServerOff, Receive, AppendNew, Step
  <2>2. CASE Compare(g) \/ InnerEnds(g) \/ SortEnds(g)
    <3>1. pc[g] = "sort" /\ pc'[g] \in {"first", "sort", "idle", "select"}
          /\ (g \in Handlers => pc'[g] # "select")
      <4>1. CASE Compare(g)
        BY <1>0, <4>1 DEF Compare, Step
      <4>2. CASE InnerEnds(g) \/ SortEnds(g)
        BY <1>0, <4>2 DEF InnerEnds, SortEnds, Sorted, Step
      <4> QED
        BY <2>2, <4>1, <4>2
    <3>2. g \in Handlers => StaysSo(g)
      BY <3>1 DEF StaysSo, Settled
    <3>3. pc[g] \notin Moves
      BY <3>1 DEF Moves, RemovalAt
    <3> QED
      BY <1>1, <2>1, <3>1, <3>2, <3>3
  <2>3. CASE First(g)
    BY <2>3, FirstShown
  <2>4. CASE Second(g)
    BY <2>4, SecondShown
  <2> QED
    BY <1>2, <2>2, <2>3, <2>4 DEF sortAgents
<1>3. CASE g \in Handlers /\ Announces(g)
  BY <1>3, AnnouncedShown
<1>4. CASE g \in Handlers /\ Replaces(g)
  <2>1. ~MakeList(g)
    BY DEF MakeList, NewList, Step
  <2> QED
    BY <1>4, <2>1, FillShown, FillEndsShown DEF Replaces
<1>5. CASE g \in Handlers /\ Adds(g)
  BY <1>5, AddsShown
<1>6. CASE g \in Handlers /\ Removes(g)
  BY <1>6, RemoveOldShown, ScanShown, OverwriteShown, CutShown DEF Removes
<1>7. CASE g \in Handlers /\ Signals(g)
  <2>1. pc[g] \in {"decide", "send"} /\ pc'[g] \in {"send", "signal"}
    BY <1>0, <1>7 DEF Signals, ChannelMade, Signal, Step
  <2>2. ~Announces(g) /\ ~AppendNew(g)
    BY <2>1 DEF Announces, ServerList, ServerOn, ServerOff, Receive, AppendNew, Step
  <2>3. StaysSo(g) /\ pc[g] \notin Moves
    BY <2>1 DEF StaysSo, Settled, Moves, RemovalAt
  <2> QED
    BY <1>1, <2>1, <2>2, <2>3
<1>8. CASE g \in Refreshers /\ refreshAgents(g)
  <2>1. pc[g] \in {"check", "make", "test", "store", "select"}
    BY <1>8 DEF refreshAgents, CheckChannel, MakeChannel, Ping, Store, AllPinged, Timer, Step
  <2>2. pc'[g] \in {"make", "test", "store", "sort"}
    <3>1. CASE CheckChannel(g) \/ MakeChannel(g) \/ Timer(g)
      BY <1>0, <3>1 DEF CheckChannel, MakeChannel, Timer, Step
    <3>2. CASE Ping(g) \/ Store(g) \/ AllPinged(g)
      BY <1>0, <3>2 DEF Ping, Store, AllPinged, Step
    <3> QED
      BY <1>8, <3>1, <3>2 DEF refreshAgents
  <2>3. g \notin Handlers /\ pc[g] \notin Moves
    BY <1>0, <1>8, <2>1 DEF Moves, RemovalAt
  <2> QED
    BY <1>1, <2>2, <2>3
<1> QED
  BY <1>2, <1>3, <1>4, <1>5, <1>6, <1>7, <1>8 DEF Acts

LEMMA ActListed ==
  ASSUME TInv, VInv, NEW g \in Goroutines, Acts(g), ~raced'
  PROVE  VInv'
<1>0. /\ pc \in [Goroutines -> HandlerAt \cup RefresherAt \cup RemovalAt \cup SortAt]
      /\ Handlers \subseteq Goroutines /\ \A k \in Goroutines \ {g} : Same(k)
  BY OthersSame, Constants DEF TInv, TypeOK
<1>1. CASE g \in Handlers /\ Announces(g) /\ pc'[g] = "list"
  BY <1>1, ListAnnounced
<1>2. CASE ~(g \in Handlers /\ Announces(g) /\ pc'[g] = "list")
  <2>1. ~raced
    <3>1. CASE g \in Handlers /\ Announces(g)
      BY <1>2, <3>1, Announcing
    <3>2. CASE ~(g \in Handlers /\ Announces(g))
      <4>1. raced => raced'
        <5>1. CASE sortAgents(g)
          <6>1. CASE Compare(g)
            BY <6>1 DEF Compare, StartMove
          <6>2. CASE First(g) \/ Second(g) \/ InnerEnds(g) \/ SortEnds(g)
            BY <6>2 DEF First, Second, InnerEnds, SortEnds, history
          <6> QED
            BY <5>1, <6>1, <6>2 DEF sortAgents
        <5>2. CASE g \in Handlers /\ (Replaces(g) \/ Signals(g) \/ Adds(g))
          BY <5>2 DEF Replaces, MakeList, NewList, StartMove, Fill, FillEnds, Signals, ChannelMade, Signal,
                      Adds, PingNew, AppendNew, history
        <5>3. CASE g \in Handlers /\ Removes(g)
          BY <5>3 DEF Removes, RemoveOld, StartMove, Scan, Overwrite, Cut, ScanEnds, history
        <5>4. CASE g \in Refreshers /\ refreshAgents(g)
          BY <5>4 DEF refreshAgents, CheckChannel, MakeChannel, Ping, Store, AllPinged, Timer,
                      history
        <5> QED
          BY <3>2, <5>1, <5>2, <5>3, <5>4 DEF Acts
      <4> QED
        BY <4>1
    <3> QED
      BY <3>1, <3>2
  <2>2. /\ OneBusy
        /\ \A h \in Handlers : pc[h] = "list" => Exactly(msg[h], Len(msg[h]), online)
        /\ (\A h \in Handlers : pc[h] # "list") => Orderly
    BY <2>1 DEF VInv
  <2>3. OneBusy'
    <3>1. CASE g \in Handlers /\ Announces(g)
      BY <3>1, Announcing DEF OneBusy
    <3>2. CASE ~(g \in Handlers /\ Announces(g))
      <4>1. \A h \in Handlers : pc[h] \in Settled => pc'[h] \in Settled
        BY <1>0, <3>2, Unsettles DEF Same
      <4> QED
        BY <2>2, <4>1 DEF OneBusy
    <3> QED
      BY <3>1, <3>2
  <2>4. pc'[g] # "list"
    <3>1. CASE sortAgents(g)
      <4>1. CASE Compare(g)
        BY <1>0, <4>1 DEF Compare, Step
      <4>2. CASE First(g) \/ Second(g) \/ InnerEnds(g) \/ SortEnds(g)
        BY <1>0, <4>2 DEF First, Second, InnerEnds, SortEnds, Sorted, Step
      <4> QED
        BY <3>1, <4>1, <4>2 DEF sortAgents
    <3>2. CASE g \in Handlers /\ Announces(g)
      BY <1>2, <3>2
    <3>3. CASE g \in Handlers /\ (Replaces(g) \/ Signals(g) \/ Adds(g))
      BY <1>0, <3>3 DEF Replaces, MakeList, NewList, Fill, FillEnds, Signals, ChannelMade, Signal, Adds,
                        PingNew, AppendNew, Step
    <3>4. CASE g \in Handlers /\ Removes(g)
      BY <1>0, <3>4 DEF Removes, RemoveOld, Scan, Overwrite, Cut, ScanEnds, Step
    <3>5. CASE g \in Refreshers /\ refreshAgents(g)
      BY <1>0, <3>5 DEF refreshAgents, CheckChannel, MakeChannel, Ping, Store, AllPinged, Timer,
                        Step
    <3> QED
      BY <3>1, <3>2, <3>3, <3>4, <3>5 DEF Acts
  <2>5. ASSUME NEW h \in Handlers, pc'[h] = "list"
        PROVE  Exactly(msg'[h], Len(msg'[h]), online')
    <3>1. h # g /\ pc[h] = "list" /\ msg'[h] = msg[h]
      BY <1>0, <2>4, <2>5 DEF Same
    <3>2. ~(g \in Handlers /\ Announces(g))
      BY <3>1, Announcing DEF Settled
    <3> QED
      BY <2>2, <3>1, <3>2, OnlineKept
  <2>6. ASSUME \A h \in Handlers : pc'[h] # "list"
        PROVE  Orderly'
    <3>1. CASE g \in Handlers /\ pc[g] = "list"
      <4>1. MakeList(g)
        <5>1. ~sortAgents(g)
          BY <3>1 DEF sortAgents, Compare, First, Second, InnerEnds, SortEnds, Step
        <5>2. ~Announces(g) /\ ~Fill(g) /\ ~FillEnds(g) /\ ~Signals(g) /\ ~Adds(g)
          BY <3>1 DEF Announces, ServerList, ServerOn, ServerOff, Receive, Fill, FillEnds,
                      Signals, ChannelMade, Signal, Adds, PingNew, AppendNew, Step
        <5>3. ~Removes(g)
          BY <3>1 DEF Removes, RemoveOld, Scan, Overwrite, Cut, ScanEnds, Step
        <5> QED
          BY <3>1, <5>1, <5>2, <5>3, Constants DEF Acts, Replaces
      <4> QED
        BY <2>2, <3>1, <4>1, MakeListOrderly
    <3>2. CASE ~(g \in Handlers /\ pc[g] = "list")
      <4>1. \A h \in Handlers : pc[h] # "list"
        BY <1>0, <2>6, <3>2 DEF Same
      <4>2. Orderly /\ pc[g] # "list"
        <5>1. pc[g] = "list" => g \in Handlers
          BY DEF TInv, Placed, RefresherAt, SortAt
        <5> QED
          BY <2>2, <3>2, <4>1, <5>1
      <4>3. PICK v : Shows(v) /\ Held(v)
        BY <4>2 DEF Orderly
      <4>4. Shown(v)
        BY <2>1, <2>2, <4>2, <4>3 DEF Shown, Orderly
      <4>5. Alone' /\ \A k \in Goroutines : Swapping(k)'
        BY <4>2, SwappingKept DEF Orderly
      <4>6. \E w : Shows(w)' /\ Held(w)'
        BY <2>6, <4>2, <4>4, ShownGoesOn
      <4> QED
        BY <4>5, <4>6 DEF Orderly
    <3> QED
      BY <3>1, <3>2
  <2> QED
    BY <2>3, <2>5, <2>6 DEF VInv
<1> QED
  BY <1>1, <1>2

LEMMA NextListed == TInv /\ VInv /\ [Next]_vars => VInv'
<1> SUFFICES ASSUME TInv, VInv, [Next]_vars, ~raced'
             PROVE  VInv'
  BY DEF VInv
<1>1. ASSUME UNCHANGED <<online, agents, pc, msg, i, j, tmp, raced>>
      PROVE  VInv'
  <2>1. ASSUME NEW v, Shows(v)
        PROVE  Shows(v)'
    BY <1>1, <2>1 DEF Shows
  <2>2. ASSUME NEW v, Held(v)
        PROVE  Held(v)'
    BY <1>1, <2>2, HeldKept DEF StaysSo
  <2>3. OneBusy => OneBusy'
    BY <1>1 DEF OneBusy
  <2>4. Alone /\ (\A g \in Goroutines : Swapping(g)) => (Alone /\ \A g \in Goroutines : Swapping(g))'
    BY <1>1 DEF Alone, Swapping
  <2> QED
    BY <1>1, <2>1, <2>2, <2>3, <2>4 DEF VInv, Orderly
<1>2. CASE UNCHANGED vars
  BY <1>1, <1>2 DEF vars, work, outside, history
<1>3. ASSUME NEW g \in Goroutines, OutOfRange(g)
      PROVE  VInv'
  BY <1>1, <1>3 DEF OutOfRange, Panic, work, outside, history
<1>4. ASSUME NEW h \in Handlers, NEW r \in Refreshers, StartRefresher(h, r) \/ Signalled(r, h)
      PROVE  VInv'
  <2>1. /\ \/ pc[h] = "decide" /\ pc[r] = "none" /\ pc'[r] = "check"
           \/ pc[h] = "signal" /\ pc[r] = "select" /\ pc'[r] = "test"
        /\ pc'[h] = "idle" /\ \A g \in Goroutines \ {h, r} : pc'[g] = pc[g]
        /\ UNCHANGED <<online, agents, msg, i, j, tmp, raced>>
    BY <1>4, JointStep DEF outside, history
  <2>2. \A k \in Handlers : k # r /\ k \in Goroutines
    BY Constants
  <2>3. \A k \in Handlers : StaysSo(k) /\ (pc'[k] \in Settled <=> pc[k] \in Settled)
    BY <2>1, <2>2 DEF StaysSo, Settled
  <2>4. \A k \in Handlers : pc'[k] = "list" <=> pc[k] = "list"
    BY <2>1, <2>2
  <2>5. \A k \in Goroutines : /\ pc'[k] \in Moves <=> pc[k] \in Moves
                              /\ pc'[k] = "second" <=> pc[k] = "second"
                              /\ pc'[k] = "first" <=> pc[k] = "first"
    BY <2>1 DEF Moves, RemovalAt
  <2>6. OneBusy' /\ \A k \in Handlers : pc'[k] = "list" => Exactly(msg'[k], Len(msg'[k]), online')
    BY <2>1, <2>3, <2>4 DEF VInv, OneBusy
  <2>7. ASSUME Orderly
        PROVE  Orderly'
    <3>1. Alone' /\ \A k \in Goroutines : Swapping(k)'
      BY <2>1, <2>5, <2>7 DEF Orderly, Alone, Swapping
    <3>2. PICK v : Shows(v) /\ Held(v)
      BY <2>7 DEF Orderly
    <3>3. Shows(v)' /\ Held(v)'
      <4>1. Len(agents) \in Nat
        BY ListFacts DEF TInv, TypeOK
      <4> QED
        BY <2>1, <2>3, <2>5, <3>2, <4>1, ShowsKept, HeldKept
    <3> QED
      BY <3>1, <3>3 DEF Orderly
  <2> QED
    BY <2>1, <2>4, <2>6, <2>7 DEF VInv
<1> QED
  BY <1>2, <1>3, <1>4, Steps, ActListed

LEMMA InitListed == Init => VInv
<1> SUFFICES ASSUME Init
             PROVE  VInv
  OBVIOUS
<1>1. /\ \A g \in Goroutines : pc[g] \in {"idle", "none"}
      /\ \A h \in Handlers : pc[h] = "idle" /\ h \in Goroutines
      /\ agents = <<>> /\ online = {}
  BY Constants DEF Init
<1>2. OneBusy /\ Alone /\ \A g \in Goroutines : Swapping(g)
  BY <1>1 DEF OneBusy, Alone, Swapping, Settled, Moves, RemovalAt
<1>3. Shows(<<>>)
  BY <1>1 DEF Shows
<1>4. Held(<<>>)
  <2>1. Exactly(<<>>, Len(agents), online)
    BY <1>1 DEF Exactly
  <2>2. \A h \in Handlers : Stage(h, <<>>)
    BY <1>1 DEF Stage
  <2> QED
    BY <2>1, <2>2 DEF Held
<1> QED
  BY <1>1, <1>2, <1>3, <1>4 DEF VInv, Orderly

(* At rest the list holds the agents the server announced, each once,      *)
(* whatever the refreshers ping, store, compare and swap between any two   *)
(* reads or writes of a handler.  The named exceptions last until a whole  *)
(* list comes: two messages handled at once, two goroutines that moved     *)
(* agents at once (handlers.go:256-296, agents.go:24-41).                  *)
THEOREM AgentsListed == Spec => []ListFollowsServer
<1>1. TInv /\ VInv => ListFollowsServer
  <2> SUFFICES ASSUME TInv, VInv, Quiet, ~raced
               PROVE  /\ {agents[k].address : k \in DOMAIN agents} = online
                      /\ \A k, l \in DOMAIN agents :
                           agents[k].address = agents[l].address => k = l
    BY DEF ListFollowsServer
  <2>1. /\ \A h \in Handlers : pc[h] = "idle"
        /\ \A g \in Goroutines : pc[g] # "second"
    BY DEF Quiet, Goroutines
  <2>2. PICK v : Shows(v) /\ Held(v)
    BY <2>1 DEF VInv, Orderly
  <2>3. DOMAIN agents = 1 .. Len(agents)
    BY ListFacts DEF TInv, TypeOK
  <2>4. \A k \in 1 .. Len(agents) : v[k] = agents[k].address
    BY <2>1, <2>2 DEF Shows
  <2>5. Exactly(v, Len(agents), online)
    BY <2>1, <2>2 DEF Held, Settled
  <2> QED
    BY <2>3, <2>4, <2>5 DEF Exactly
<1>2. Init => TInv /\ VInv
  BY InitTyped, InitListed
<1>3. TInv /\ VInv /\ [Next]_vars => (TInv /\ VInv)'
  BY NextTyped, NextListed
<1> QED
  BY <1>1, <1>2, <1>3, PTL DEF Spec
=============================================================================
