# clvisit: TLA+ models, checks and proofs

The communicator of clvisit lets one machine watch another through VNC. It
keeps a TCP connection to a main server, shows a local panel (a web page), and
on request joins two byte streams: one to a data server, one to a local VNC
program. This directory models the parts of it that run concurrently, fail half
way or outlive the process, checks them with TLC and proves the core of them
with TLAPS. Line numbers refer to `src/internal/pkg/` unless a path says more.

## 1. Inventory

| Component | Code | State | Operations | Modelled in |
|---|---|---|---|---|
| Visit relay | `processor/main.go` 308-519, `handlers.go` 83-134 | `connections.count`, `pConn` slots, `peerBuff1/2`, sockets | `processConnect`, `connectVisit`, `connectClient`, `connectServer`, `localDataHandler`, `hideInfo`, `showInfo` | `Visit`, `Disclosure` |
| Proxy dialer | `proxy/main.go` | the socket to the proxy | `Dial` | step by step in `Link`, by outcome in `Visit` |
| VNC manager | `vnc/main.go`, `vnc/utils_windows.go`, `vnc/utils_linux.go` | `arrayVNC`, `ActiveVncId`, `ReInstallVNC`, `vnc.list`, server processes | `ProcessVNC`, `CloseVNC`, `handleVNC`, `startVNC` | `VncManager` |
| Agents | `processor/agents.go`, `handlers.go` 255-296 | `agents`, `ChRefreshAgents` | `processServers`, `refreshAgents`, `sortAgents` | `Agents` |
| Credentials, options | `common/utils.go` 128-235 and 365-413, `processor/common.go` 216-252, `handlers.go` 37-66 and 304-333 | `Pass`, `CleanPass`, `Pid`, `options.cfg` | `GetPass`, `SetPass`, `SaveOptions`, `LoadOptions`, `processAuth`, `processLocalInfo`, `EncXOR`, `DecXOR` | `Credentials`, `Cipher` |
| Server link | `processor/main.go` 52-169 | `myClient.Conn`, `Flags.Reload` | `MainClient`, `processDeauth`, `processLocalProxy` | `Link` |
| Local servers | `processor/main.go` 171-306, `common.go` 436-447 | `LocalServ`, `DataServ`, `localConnections` | `Thread`, `DataThread`, `localHandler`, `sendMessageToLocalCons` | `Link`; the list of panels in `Panels`; an accepted viewer in `Visit` |
| Dispatcher | `processor/main.go` 20-39, `common.go` 112-168 | places in a queue of six | `takeQ`, `backQ` | bound of `Link` |
| Reload, terminate | `processor/common.go` 254-268 and 358-393 | flags, processes | `ReloadMe`, `TerminateMe` | `Link`, `Visit`, `Panels`, `VncManager` |
| Self update | `processor/common.go` 270-356 | five files of the parent folder | `UpdateMe` | `SelfUpdate` |
| Web server, window | `web/main.go`, `cmd/communicator/window.go`, `web/resources/index.html` | `lastPing`, the token | `/alert`, the token check, the watchdog | `Window` |
| Contacts, profile | `handlers.go`, `common/profile.go` | none of its own | messages passed on | no |
| Alerts | `common/utils.go` 438-455, `handlers.go` 236-253 | one channel | `processStandardAlert`, `SetAlert`, `GetAlert` | `Window` |
| Helpers, packaging | `common/helper.go`, `Makefile` | none | logs, zip, random strings | no |

How they meet. `MainClient` and one goroutine per panel read messages; every
message is handled in a goroutine of its own, at most six at a time. Handlers,
relays, listeners and the refresher share package variables. One mutex guards
`connections.count` and one `lastPing`; everything else is read and written
without a lock. `options.cfg`, `vnc.list`, the renamed programs and the VNC
server's process outlive the communicator.

What is hard, and the property that makes a component right:

- A visit has two goroutines, two sockets, a counter and messages to panels.
  The counter must come back on every way out, panels must not stay masked, the
  server must hear of a failure once, both sides must come down.
- Watched visits pass their slots through two globals. A viewer must be paired
  with the two ends of one visit, and never with nil.
- A reinstallation of VNC takes long and can die anywhere. When a visit is
  accepted the active package must exist, and the flag must come down.
- The list of agents changes, place by place, under goroutines that ping and
  sort its members. It must end sorted and complete, and nobody must block for good.
- Password, its clear copy and its file change one after another. At rest they
  must agree, and a restart must bring back what was in use.
- The link is closed by handlers, peers and reloads. It must be dialled anew,
  no socket be lost, and the process leave only when it means to.
- The list of panels is appended to, removed from and walked without a lock.
  Panels that are connected must be in it, and what they were told last about
  the credentials must fit the visits.
- Polls, checks of the last poll and alerts meet by the clock. An open window
  must stay, a closed one be noticed, an alert be heard by who waits for it.
- An update fails between any two renames. A program that runs must remain.

`PROJECT.json` lists forty hazards at their lines.

## 2. Modules

A variable has the code's name where there is one; `pc`, `lpc`, `rpc` say where
a goroutine is. One step is what runs between two accesses to shared state: the
accesses that the code makes without a lock are separate steps, and a local
computation is part of the step before or after it. What a goroutine does not
read again is set back to its initial value (`EndWait` in `Visit`, `Forget` in
`Agents`), which keeps the state spaces small and loses nothing.

**Visit** (`MCVisit` instantiates it). A visit `s` has the slots `<<s, 1>>`
(toward the data server) and `<<s, 2>>` (toward VNC); a goroutine and the
connection it opened share a name. `conn[t]` is `open`, `eof` (the remote end
left), `closed` or `none`; `slot` is `pConn.Pointer`. `processConnect` checks in
the code's order and starts two goroutines; `DialOk`, `DialFail`, `DialPanic`,
`WriteCode`, `HideCount`, `HideSend`, the wait loop, the copy loop, `ShowCount`,
`ShowRead`, `ShowSend` and `Close` are `connectClient` with its deferred calls;
`Accept` to `Bind` are `localDataHandler`, whose four reads and writes of the
globals are four steps. `outcome` and `told` are history. What panels are sent is abstracted to
the last message about the credentials. `MainClient` sends such messages too,
without a look at the counter: `Dial` is its "1" (`main.go:60`), `Connected` its
"0" (`main.go:106`), at any moment and any number of times; `dialling` says that it
has no connection. What else `MainClient` does is `Link`'s subject.

**Disclosure** is what panels see of it: visits become active, are owed a
"show" and settle; the link goes down, which hides the credentials, and comes up,
which shows them even while a visit is active. `Visit` implements it
(`PanelsSpec`) with `active` the counted visits and `owed` those that ended and
have not yet told the panels. What it promises is one-sided: a "hide" is never left
behind by a visit. It does not promise that the credentials are hidden during
every visit, and the code does not either.

**Panels** (`MCPanels`). `localConnections` is a `container/list`, modelled pointer by
pointer: `PushAt` to `PushOwn` are `PushBack`, `RemoveLink` to `RemoveOwn` are
`Remove`, `Front` and `After` are `Front` and `Next`. Each panel is one
`localHandler`, from the append over its greeting to the removal; `MainClient`,
the visits, `processAuth` and `TerminateMe` walk the list, one element a step.
`Visit` keeps one word for what all panels show; here each panel has its own, and
`real` are those that were sent the credentials, with their greeting or by
`processAuth`, which looks at no counter. `raced` notes that two
operations on the list overlapped or that `Front` read it half linked, `cut` that a
walk ended before the last element, `late` that during a visit a "0" arrived, or
an answer of `processAuth` at a panel that does not hide; after the first two what panels were told is not followed any longer.

**VncManager** (`MCVnc`). A package is its index. `ProcessVNC` tests the flag,
raises it, closes the server, runs `handleVNC`, starts the server and lowers the
flag. On Windows `handleVNC` is a loop (load the list, fetch it, extract, save
options, save list); on Linux it fills the list with its one package and makes
it active when its program is there. `platform` is chosen at the start. `Kill` cuts a
file that is being written; a save that fails, which `handleVNC` does not notice,
leaves the old file or a part of the new one (`OptionsAfterSave`, `ListAfterSave`).
Lists are as long as the server chooses.

**Agents** (`MCAgents`). `processServers` for a whole list, "on" and "off";
the refreshers with their channels, their loop and their timer; `sortAgents`, which
both run. Every write to the slice is a step: the new list (`MakeList`), each place
of it (`Fill`), the append, the overwrite and the cut of a removal, both writes of
a swap (`First`, `Second`), the store of a metric. What a goroutine reads up to its next write, a test of
the length, a comparison, `tmp := agents[i]`, is one step with the last of those reads.
An index that is out of range by the time it is used ends the process
(`OutOfRange`). A ping is any answer. The append is one step; in Go it may copy the
list first, and an append or a swap by another goroutine meanwhile is then lost: from
the answer of its ping to its end an append counts as a move for `raced`, which
excepts both. A metric stored meanwhile may be lost too, which no property tells from
a ping that failed. An element is written whole, although in Go the address and the metric are several words; the
reads of `printAgentsMetric` for the log are left out, the panic they might end in too.
`raced` says that since the last whole list two messages were handled at once, or
two goroutines were moving agents at once (a swap, a removal, a fill, an append); `spoiled` that
the last sort or fill to end was written into by another goroutine (`disturbed`);
`shrunk` that the list became shorter while another goroutine held an index.
`Scopes` bounds an instance: which goroutines and addresses take part, and how many
messages come.

**Cipher** is `EncXOR` and `DecXOR` on bytes: the length as a rune before the text, the
key repeated, one byte kept of each rune, the control number, the padding; and
on the way back the decrypted bytes as runes, and the reads that may pass the
end. No recursion: folds and sets, so that what it computes can be proved about.

**Credentials** (`MCCredentials`) extends it. A cipher in the state is the text
and the identifier it was made with, and what it opens as under another
identifier is what `Cipher` computes. `SaveOptions` is two steps, truncate and
write, and each can fail (`CreateFails`, `WriteFails`): no caller looks at what it
returns, the handler goes on and the file is the old one, empty or torn (`unsaved`).
The process may stop between any two steps. Nothing is assumed of identifiers, nor of
the password a user sets, which may be empty.

**Link**. `MainClient` (check, dial, the proxy's CONNECT, read, close, forget), `Thread` and
`DataThread`, the handlers that close `myClient.Conn`, and `ReloadMe` to its
exit, with the instance it starts taking ports meanwhile. `failed` is history:
`startProcess` has failed, as it always does on Linux.

**Window**. The page's timer, the watchdog's sleep and the age of the last poll
are clocks that advance together; what falls on one tick comes in any order. A
poll waits up to a second in `GetAlert`; the handlers of two alerts run rounds of
`SetAlert` meanwhile; a page of an earlier process polls with its old token.

**SelfUpdate**. `UpdateMe` by file: every rename, write, extraction and roll
back may fail, and so may `ReloadMe` at its end, after which the old process runs
on; the process may die between any two steps. Renames follow Windows.

**VisitProofs**, **LinkProofs**, **WindowProofs**, **SelfUpdateProofs**,
**VncManagerProofs**, **PanelsProofs**, **CredentialsProofs** and **AgentsProofs** hold
the theorems about the module they are named after (section 5).

`Agents` and `Credentials` carry history variables (`raced`, `spoiled`,
`shrunk`; `overlap`, `unsaved`), as `Panels` does. No guard reads them. Some properties are
stated for behaviours that they do not mark, because the code has no lock, or no test of
an error, that would give them otherwise; section 6 says what happens then.

## 3. Runs

| Run | Instance | Shows |
|---|---|---|
| `Visits` | one visit served, one watched, one viewer, one poll, `MainClient`'s link lost and found, `TerminateMe` | counter, reports of failure, no nil peer, every finished goroutine left its sockets closed; `Visit` implements `Disclosure` |
| `VisitViewers` | one watched visit, two viewers, a proxy, fairness | viewers are paired or turned away; a broken relay comes down on both sides |
| `VisitPairs` | two watched visits, one viewer | a violation: slots of different visits are paired |
| `Panels` | two panels, `MainClient`, one visit, one `processAuth`, `TerminateMe` | without a race the list holds the connected panels, none is left hiding, and none shows credentials during a visit unless a "0" or an answer came late; only a race crashes; no walk goes round for ever |
| `VncOneCaller` | both platforms, one caller, lists of 0 to 2, indexes -2 to 3, three requests a life, three starts, saves that fail, fairness | an accepted visit has a package; a reinstallation ends with one |
| `VncTwice` | two callers | a violation: two reinstallations at once |
| `Agents` | four scopes: two handlers, a refresher, two agents and two messages; one handler, a refresher, two agents and three messages; one handler and two refreshers with one agent and three messages, or two and two; fairness | order and content of the list, but after what `spoiled` and `raced` mark; a panic means a list shortened under an index; no handler blocks for good but on a channel that was replaced |
| `Credentials` | two handlers, four identifiers, four passwords, three messages a life, two lives, saves that fail, fairness | the file follows the password unless the last save failed, the clear copy is what the cipher opens as; `GetPass` returns, and dies of a generated password only after one kind of change of the identifier; ASCII comes back from the cipher |
| `LinkReload` | one handler, all three messages, a proxy, two tries, both outcomes of a start, errors, fairness | no socket is lost, nobody leaves early, the link and a reload go on |
| `LinkProxy` | the proxy text that does not parse | a violation: `MainClient` ends for good |
| `WindowOpen` | four ticks a second, polls one to three seconds apart, two alerts, an old page, fairness | an open window stays, a closed one is noticed; alerts are heard |
| `UpdateSerial` | three updates, two deaths, reloads that fail | a communicator and a client survive |

Why the bounds are enough. Two visits are the least for which one may begin
while another ends, and two pairs of slots the least that can mix; two viewers
the least that compete. In `Visits` one visit of each kind passes through every
branch, and the theorems of section 5 carry its properties to any number. One
poll makes a wait end both ways; the number of polls is otherwise only a delay.
Two panels make every overlap of two list operations, and a list of two is the
least with a first, a last and a neighbour. Lists of 0 to 2
packages with indexes on both sides of them cover the comparisons of
`getAndExtractVNC` and `handleVNC`. The scopes of `MCAgents` are the least for two messages handled at once
beside a refresher, for a list, an "on" and an "off" in turn beside one that sorts,
and for two refreshers, each with a channel, and a handler that signals; two agents
with three metrics make every swap, and a list with a place that answers and one that
does not. The theorems carry them to any number. The passwords of
`MCCredentials` are one the program generates, the empty one, one that never opens again and one
that breaks `DecXOR`; its identifiers differ in the first byte and in the others,
which decide whether a cipher opens as nothing, as itself or as another text, and two begin with `C` and `b`,
with which `DecXOR` reads past the end.
`Samples` are all texts of up to three of three letters and one text of each length to 40, so that
the padding ends on both sides. Two lives let one tear the file, or leave it
old, and the next start from that. Two tries are the least for which a listener is
opened again and then given up. Four ticks a second put polls and checks at
every offset that a comparison with whole seconds tells apart; an alert arrives at
most once a tick. `Errors`, `Proxy` and `Starts` turn failures on. One handler of
`Link` runs beside three other goroutines and the new instance.

`CHECK_DEADLOCK FALSE` stands in every configuration: visits, messages and
lives of a process are bounded, and a process that left does nothing more.

Symmetry is used where no liveness is checked: guests in `VisitPairs`, panels in
`Panels`.

Every property of a passing run has a mutant in `PROJECT.json`: a definition
changed as a plausible bug would, which the run then refutes.

## 4. Fairness

Goroutines that can run do run, timers fire, dials and pings return, and a
`Read` of a closed connection returns: the Go scheduler and the network stack
give that, hence weak fairness for each goroutine. Strong fairness appears
twice. In `Agents`, a sender that waits on a channel is served before the
refresher's timer wins for ever, since the runtime queues senders and `select`
chooses at random among those ready. In `VncManager`, a server that is asked
again and again serves its longest list, and a package of it, in the end:
`ReinstallEnds` says that nothing in this program, rather than the server, keeps
the loop running. In `Window` time passes, and no tick passes over what is due.
Nothing is assumed of a proxy that was sent CONNECT, nor of peers, panels, users or
the messages they send. `FairSpec` is used only where a run lists a liveness property.

## 5. Proofs

Every safety property of the passing runs but `MainClientLives` is a theorem
for all values of the constants. Where a theorem has a hypothesis, a run or section 6 shows
what the code does without it. TLC checked every inductive invariant on the runs'
instances before it was proved.

### Visit

`VisitProofs`, for any finite set of visits, any set of viewers and any
`WaitCount`:

- `TypeCorrect`: `Spec => []TypeOK`.
- `CounterCorrect`: `Spec => []CountsVisits`, the counter is the number of
  visits between `hideInfo` and `showInfo`.
- `PanelsRecovered`: `Spec => []Panels!Accounted`, panels that hide the credentials
  do so for a visit that is counted or about to settle, or because the server is dialled.
- `PanelsRefined`: `Spec => PanelsSpec`, `Visit` implements `Disclosure`: initial states
  map to initial states, every step to a step or a stutter.
- `ReportedOnce`: `Spec => []OneReason`, the server hears once of a visit that failed and
  never of one that relayed.
- `NoNilPeer`: with one viewer and no proxy, `Spec => []NoPanic`: `localDataHandler`
  never dereferences a nil peer, for any number of visits.
- `TornDownAlone`: with one viewer, `Spec => []TornDown`: a goroutine that ended left
  its connections closed.

They rest on the module's assumptions: hosts and guests are disjoint, viewers
and `Nil` are not slots, visits are finite in number, `WaitCount` is a natural
number. The last two need their hypothesis: with two viewers the code does
dereference nil, and a viewer that takes a pair already bound replaces what the
slot names.

None but the first is inductive. The invariant of the counter is

    CInv == TypeOK /\ CodedOnly /\ CountsVisits /\ PanelsRecover

`CodedOnly` says that only the goroutine toward the data server (`Coded`) is
ever between `WriteCode` and the deferred `showInfo`; without it a step of
another goroutine could enter or leave `Counted` and the counter would not
follow. `PanelsRecover` (defined in `VisitProofs`) says that panels which hide the
credentials do so because `MainClient` dials or for a visit in `Counted` or
`Settling`; `Dial` and `Connected` keep it by themselves. `CountsVisits` is needed for it: `HideSend` masks the panels
because `count > 0`, and only the counter's meaning turns this into a visit that
is counted; `ShowRead` skips the message because `count # 0`, and again that
means another visit answers for it. `TypeOK` makes `count` a number and the sets
finite, so that the cardinality lemmas apply. The proof goes by the disjuncts of
`Next`: two lemmas say what a step does that leaves every goroutine where it
was (`CStill`), or moves one outside the counted part (`CStep`), and what remains
are the five steps that touch the counter or the panels. The same lemmas say which
step of `Disclosure` each of them is, so that `NextCInv` gives the refinement with
the invariant.

`ReportedOnce` rests on `OInv == TypeOK /\ Untried /\ OneReason`: a goroutine
that is still before its end has no outcome yet, so the message sent there is the first. `NoNilPeer`
rests on `NInv == TypeOK /\ PairWhole`: what the one viewer has taken, and what it
is about to take, has no hole, because `connectServer` only ever replaces a slot by
a slot and the viewer alone clears them. `TornDownAlone` rests on
`TInv == NInv /\ SocketsFollow /\ SlotsFilled /\ RelayEnds`: a slot names a
goroutine that is past its dial and, once filled, keeps that name, because the one
viewer binds once, to a slot that was empty; so what `StopRelay` closed is still what
`Target` names when the goroutine has ended. `TStep` says what every step of one
goroutine has in common, and leaves the part of that goroutine to each action.

### Panels

`PanelsProofs`, for any finite sets of panels and visits:

- `TypeCorrect`, with bounds of the length and of the counter that hold even
  after races (`TInv`).
- `WalksEnd`: `Spec => []NoLoop`. However many goroutines link and unlink at once, no
  links lead round without the root.
- `ListIsPanels`: `Spec => []AllStored`, and `OnlyRacesCrash`: `Spec => []CrashIsRace`.
- `CredentialsShownAgain`: `Spec => []Recovered`, and `CredentialsCovered`:
  `Spec => []Covered`, over every interleaving of the walks of `MainClient`, the visits,
  any number of `processAuth` and `TerminateMe` with panels that come and go.

Three inductive invariants. `OInv` is for `NoLoop`, where races are let in: there
is a strict order of the panels (`beyond`) that every link follows forwards and
every link back backwards, but for the one back that a new element was given
first; a new element goes to the end of the order, wherever the race put it. In
an order of finitely many some panel is last, so no set of panels is closed under
`After`. `RInv` describes the list while nothing raced: one panel at most is in
the middle of an operation (`Alone`), the length is the number of owners (`Length`), and
`next` and `prev` are a ring through the root, except for what the stage of that
panel still owes (`Shape`). `Ring` quantifies over sets closed under a link in place
of an induction along the list: a part of the ring that contains the root and is closed is the whole.
`HInv` adds what a walk has before it: a panel that hides the credentials is
ahead of a walk that shows them, or such a walk is still to come (`HideEnds`); dually
for `HideComes`. `Ahead` says that the links lead from the walk's element to the
panel before the root, and the longest part of the proof is that no operation on
the list takes a panel out of a walk's way, which is where `cut` is needed.

### Link

`LinkProofs`, for any handlers, messages, proxies, errors and tries:
`TypeCorrect`, `NoSocketLost` (`NoOrphan`), `GivesUpOnlyLate` (`GivesUpLate`), from
`LInv == TypeOK /\ Opened /\ Counted /\ GivesUpLate`. `Opened` says by `MainClient`'s
place which sockets are open; `NoOrphan` alone does not tell that the socket of
the dial becomes that of `myClient.Conn`. `Counted` bounds the tries of a listener that goes on.
`MainClientLives` is no theorem: it is false for an address as `processLocalProxy`
stores it (`LinkProxy`), and with every text that parses it says little; `LinkReload`
checks it where there is one proxy that parses.

### Window

`WindowProofs`, for every granularity of the clock: `TypeCorrect`; `AlertsHeard`
(`Heard`) from `Served`, an alert in the loop of `SetAlert` was handed over or a poll still
waits; `PunctualStaysUp` (`OpenStaysUp`) for a page that polls at least every three
seconds, from `Young`, the last poll is as old as the page's clock says. The
script polls each second; a page that is later than three is taken for closed.

### SelfUpdate

`SelfUpdateProofs`: `TypeCorrect` for any number of updaters; `ProgramsKept`
(`KeepsPrograms`) and `ReloadsUnpacked` (`ReloadsNew`) for one at a time, any number of
updates, failures and deaths. `Safe` says by the place of `UpdateMe` which files can
be run; the property alone does not survive the second rename. The code does not keep a second
message from starting a second update: two at once are not claimed to be safe.

### VncManager

`VncManagerProofs`, for lists and indexes of any size: `TypeCorrect` for any
callers, `VisitsServable` (`ReadyIsServable`) for one, from `Fits`: while the flag is down
the active package is in the list, and the flag is up at every point of a
reinstallation where it need not be. With two callers the flag of one is lowered
by the other (`VncTwice`).

### Credentials

`CredentialsProofs`, for any handlers, identifiers and passwords:

- `TypeCorrect`; `OnePassword` (`CopiesAgree`), from
  `CInv == TInv /\ (life = "up" /\ ~overlap => Apart)`, which says what the one handler
  at work finds where file, cipher and clear copy may differ, and that the file is
  behind only with `unsaved`, so that a death at any
  step leaves a file that the next start can take. Both hold whatever `EncXOR` makes
  of a password.
- `DecUndoesEnc`: `DecXOR` gives back every text of ASCII of up to 127 bytes under every
  key, padded or not, and so `SamplesOpen` (`RoundTrip`) for any `Samples` of such texts. From
  128 bytes on the length is a rune of two bytes, of which one is kept. The argument: `Xor` is a sum
  of eight bits and so undoes itself (`XorBack`); the size of such a text is its length
  (`SizeOfAscii`), so the key does not skip; and what `DecXOR` puts together begins with the
  length and the text (`FlattenOnes`), whatever the bytes of the control number and the
  padding decrypt to.
- `GetPassStaysUp` (`StaysUp`), for all identifiers: a generated password has
  `LengthPass` letters or digits, six, its cipher has 40 bytes, and `DecXOR` reads past them only
  when the length decrypts to 39; that happens exactly when the first bytes of the old
  and the new identifier differ in the bits of 33, as `C` and `b` do. The source does
  not say what identifiers look like, and the theorem assumes nothing of them: it names
  the change that kills the process.

`Total`, `Xor` and `FlattenSeq` are folds of the community modules, that is, functions defined by
recursion on sets and numbers. `SumsOnce` proves that two sums over a finite set that satisfy the
recursion agree, by the least cardinality on which they would not; `FlattenExists` that a
solution exists.

### Agents

`AgentsProofs`, for any finite sets of addresses and refreshers, any metrics,
handlers and scopes, any lists; every proof goes by the steps of one goroutine, each with at most one
write to the slice:

- `TypeCorrect`, from `TInv`: the types, who can be at which label, which loop
  variables are reset, and one refresher past `MakeChannel` for every channel made.
- `PanicsExplained` (`PanicsOnlyIfShrunk`), from `CInv`: as long as `shrunk` is
  false, the place that a goroutine is about to write is in the list (`Reach`).
- `AgentsSorted` (`SortedWhenQuiet`), from `SInv`: a goroutine that sorts, and is not
  in `disturbed`, has its first `i` places before all others (`Before`) and place `i`
  before those up to `j` (`Leads`). The sort never moves an unreachable agent back, so it
  is not a sort of the whole list, and unreachable agents do not count in the order.
  A sort nobody wrote into makes the whole list ordered, whatever it found.
- `AgentsListed` (`ListFollowsServer`), from `VInv`: without a race one handler is
  busy at most and one goroutine moves agents at most, and there is a view of the
  addresses (the list as it will be when the swap under way has written its second
  place, `Shows`) which holds what was announced, each once, but for what the busy
  handler still owes it at its stage (`Held`): the place it will fill, append,
  overwrite or cut. A swap keeps the view; a removal goes on at the second place, which is harmless
  only because no address is there twice.

### Only model-checked

Every liveness property (`ViewerServed`, `Teardown`, `ReinstallEnds`, `HandlersEnd`,
`GetPassEnds`, `Reconnects`, `ReloadEnds`, `ClosedIsNoticed`): fairness needs ENABLED, which the prover does not
have; and `MainClientLives`. What two handlers at once leave of the copies of the
password, or of the list of agents, is modelled, but no property is stated of it.

## 6. Disagreements between the code and what it says

Checked by a run and listed under `findings`: `VisitPairs`, `VncTwice`,
`LinkProxy`. These came up while modelling too. The models contain each of them;
no property forbids it, or a property names it as an exception.

- `vnc/main.go:262` rejects `i > len(arrayVNC)`, so a request for the package one
  past the end (0 with an empty list) indexes past it (`ExtractPanics`).
- `vnc/main.go:90` leaves the start of the VNC server to a goroutine. It may run
  after `CloseVNC` or for another package: two servers run.
- `processor/handlers.go:33`, also 562 and `common.go:365`: the connection is tested
  and fetched again; `MainClient` may have set it to nil in between (`NilConn`).
- `processor/main.go:199`: `Flags.Reload` is read again after the loop; when
  `startProcess` failed meanwhile, the process exits with "could not start at all"
  after one try. Or `MainClient` and the listeners have ended by then, and
  nothing starts them again (`failed`).
- `processor/common.go:373` tests `myClient.WebServ`, which nothing sets: a quick new
  instance finds the web port taken and panics (`BindPanics`).
- `processor/common.go:282` calls `err.Error()` when the status is not 200 and `err` is
  nil (`GetRefused`).
- `processor/common.go:286`: the download is made read-only on Windows and not removed
  when an update is rolled back, so the next one cannot open it (`ReadOnly`).
- `cmd/communicator/main.go:39`: `-password` calls `SetPass` before there is an
  identifier, and `EncXOR` divides by its length (`Start`).
- `handlers.go:265`: an "off" that arrives while the "on" before it pings is lost:
  the agent stays in the list. `raced` excludes it from `ListFollowsServer`.
- `agents.go:28-30`: the slice has no lock. A swap that meets a removal, a fill or
  another swap loses or doubles an agent until the server sends a whole list
  (`raced`); a sort that another goroutine writes into may leave the list out of order
  until the next one (`spoiled`); an index tested before another goroutine shortened
  the list panics (`shrunk`); a ping that was under way when agents were
  swapped is stored with the wrong one, until the next refresh.
- `agents.go:68`, `handlers.go:291`: two whole lists handled before the first
  refresher made its channel start two, and the second channel replaces the first. A
  handler that sends to the first, while both refreshers select on the second, is blocked
  for good, with its place in the queue (`HandlersEnd` excepts it).
- `common/utils.go:201-218`: `SaveOptions` says whether it saved, and `handlers.go:59`,
  325 and `common.go:244` do not look: after a failed save the old password is back at
  the next start, or none is (`unsaved`). `common/utils.go:153` removes `options.cfg` from the
  current folder, whichever that is, and does not look either.
- `handlers.go:62`: `processAuth` sends every panel the credentials without a look at
  `connections.count`: a panel that was greeted masked during a visit has them
  when the link comes back (`late` in `Panels`).
- `web/main.go:35`: a window closed before its first poll is not noticed, although
  `window.go:14` says the communicator must close with it.
- `main.go:465` and 477 publish the slot before 481 writes the code; the peer's bytes
  could come first but for a pause.
- `main.go:492` takes a connection that has been given up for a peer.
- `main.go:325-331`: two viewers that take the same pair overwrite each other's slot;
  the first may hang in a `Read` (`Shared` in `Teardown`), or one dereferences nil
  (`NilPeerPanic`).
- The list of panels: `processor/common.go:109` says that all local panels are kept there.
  Two appends at once lose one; then `Front` may return the root, whose value is no
  connection, and the type assertion of `common.go:442` panics (`WalkPanic`). A `Remove` that meets
  a `Front` does the same with no second panel involved (`raced`). A panel that leaves
  while the list is walked cuts the walk (`cut`).
- `main.go:106`: `MainClient`, when it is connected again, tells the panels to show the
  credentials, also while a visit is counted (`late`; `Connected` in `Visit`).
- `common/utils.go:402` compares with `<=` and reads one past the end. It happens with
  sound ciphers: a password of fifteen letters of two bytes, or of at least
  twenty-one ASCII letters and one of two bytes, makes `GetPass` panic after
  every restart (`GetPanics`); an even number of at least twenty-two ASCII letters does
  under some other identifier, and so does a generated password when the identifier
  changes as `StaysUp` says.
- `common/utils.go:392-393` turn bytes into runes and back, so a password that is not
  ASCII does not come back after a restart; `GetPass` replaces it.
- `common/utils.go:406` compares sums below 100: a cipher may open under another
  identifier, as another text (`CopiesAgree`).
- `vnc/utils_linux.go` sets the list before the active package: at the first start a
  `GetActiveVNC` in between indexes -1 (`IndexPanic`).
- `proxy/main.go:87` waits for the proxy's answer without a limit: a silent proxy stops
  `MainClient` for good, and setting another one does not help, since there is no
  `myClient.Conn` to close. When it hangs up instead, `recoverMainClient` is given the
  nil of the start (its argument is evaluated at the `defer`), the socket is left
  behind and nobody dials again (`ProxyHangsUp`).
- `common/utils.go:438`: an alert that arrives between two polls is lost, and so may one
  of two that arrive together be.
- `handlers.go:120` takes a `uiClient` that left for one that is there, and the viewer is
  not started; nothing sets it back. Not modelled.

## 7. Not modelled, and why

- The commands of the VNC packages and `RunVNCClient`, which starts one: external
  programs.
- Modes 3 and 4 of `connectVisit`, which no message asks for.
- What a reinstallation does to a visit that was accepted before it began
  (`handlers.go:105`): `Visit` and `VncManager` are not composed.
- The bytes of messages and streams: framing, JSON, what the proxy's buffered
  reader may keep. Only outcomes are kept. The server is taken to send as many
  fields as a handler indexes; `handlers.go:94` and others would panic otherwise.
- A message that `takeQ` drops (`main.go:30`): a message that never came, which every
  module allows.
- Contacts and profiles, which the program passes on without deciding anything;
  the login data is saved with the options (`OtherSave` in `Credentials`).
- Logs, zip, system information, packaging: input and output without protocol.
- Time, except in `Window`: waits count polls, pauses are steps.

## 8. Plan

Modelled and checked: every component of section 1 but those of section 7. Proved:
the safety properties of the passing runs. What is left, most important first.

1. `VncManager` with two callers: what survives them (`TypeOK` is proved), as a
   property of its own.
2. `SelfUpdate` with two updaters: that a communicator is left, if it is.
3. `Credentials` under overlap: which of the copies still agree. The same for
   `Agents`: what a race can make of the list, and that a whole list repairs it.
4. `Cipher`: which texts of two-byte letters open, and which make `DecXOR` read past
   the end (TLC: ten letters never open, fifteen do that), for every length.

## Running

    tlc -workers 2 -config Visits.cfg MCVisit.tla
    tlapm VisitProofs.tla      (the other *Proofs modules likewise)

The longest runs are `Visits`, `VisitViewers`, `LinkReload`, `VncOneCaller`, `Agents`, `Credentials`
and `Panels`, one to three minutes each with two workers; the others take seconds.
The proofs take about seven minutes together.
