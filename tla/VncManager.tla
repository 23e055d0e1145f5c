----------------------------- MODULE VncManager -----------------------------
(***************************************************************************)
(* internal/pkg/vnc: the list of VNC packages, the active one and the      *)
(* server that runs for it, while ProcessVNC reinstalls it for whoever     *)
(* asks: main at start-up, "revnc" from the server or the UI, the reset of *)
(* the options, a reload that could not start a new instance.              *)
(* A package is its index in the list; a VNC server outlives the process.  *)
(* Only how handleVNC fills the list differs between the platforms.        *)
(***************************************************************************)
EXTENDS Integers, FiniteSets

CONSTANTS
  Callers,      \* goroutines that may run ProcessVNC
  Asked,        \* the indexes a "revnc" message may carry
  Offers,       \* the lengths of the lists the main server may serve
  MaxRequests,  \* bound: requests made in one life of the process
  MaxBoots      \* bound: starts of the process

ASSUME OffersAssumption == Offers \subseteq Nat
ASSUME AskedAssumption == Asked \subseteq Int
ASSUME BoundsAssumption == MaxRequests \in Nat /\ MaxBoots \in Nat

VARIABLES
  life,         \* "down", "up" or "crashed"
  reinstall,    \* common.Flags.ReInstallVNC
  active,       \* common.Options.ActiveVncId
  listed,       \* len(arrayVNC)
  savedActive,  \* ActiveVncId in options.cfg, -1 when no such file can be read
  savedList,    \* length of the list in vnc.list, or one of the next two
  running,      \* the packages whose server process runs
  launching,    \* how many "go runVNCServer()" have not run yet
  pc, arg,      \* where a caller is in ProcessVNC, and its argument
  then,         \* what it does after CloseVNC
  requests, boots,
  platform      \* what the program was built for

Absent == -1
Torn == -2

files == <<savedActive, savedList>>
servers == <<running, launching>>
bounds == <<requests, boots, platform>>
vars == <<life, reinstall, active, listed, files, servers, pc, arg, then, bounds>>

Labels ==
  {"idle", "clear", "check", "set", "close", "closeAct", "handle", "fetch",
   "activate", "extract", "saveOptions", "saveList", "start", "config", "unset", "info",
   "exit"}

TypeOK ==
  /\ life \in {"down", "up", "crashed"}
  /\ reinstall \in BOOLEAN
  /\ active \in Int /\ active >= -1
  /\ listed \in Nat
  /\ savedActive \in Int /\ savedList \in Int
  /\ running \subseteq Nat
  /\ launching \in Nat
  /\ pc \in [Callers -> Labels]
  /\ arg \in [Callers -> Int]
  /\ then \in [Callers -> {"handle", "check", "exit"}]
  /\ requests \in 0 .. MaxRequests /\ boots \in 0 .. MaxBoots
  /\ platform \in {"windows", "linux"}

Init ==
  /\ life = "down"
  /\ reinstall = FALSE
  /\ active = -1
  /\ listed = 0
  /\ savedActive = -1 /\ savedList = Absent
  /\ running = {} /\ launching = 0
  /\ pc = [c \in Callers |-> "idle"]
  /\ arg = [c \in Callers |-> 0]
  /\ then = [c \in Callers |-> "handle"]
  /\ requests = 0 /\ boots = 0
  /\ platform \in {"windows", "linux"}

-----------------------------------------------------------------------------
Step(c, l, m) ==
  /\ life = "up"
  /\ pc[c] = l
  /\ pc' = [pc EXCEPT ![c] = m]

(* A panic in a goroutine takes the process down; the servers stay.        *)
Panic ==
  /\ life' = "crashed"
  /\ UNCHANGED <<reinstall, active, listed, files, servers, pc, arg, then, bounds>>

(* GetActiveVNC answers with an empty VNC past the end of the list, and    *)
(* indexes the list with -1 when no package is active.                     *)
ActivePanics == listed > 0 /\ active < 0
ActiveListed == active \in 0 .. listed - 1

(* A new process: the options are loaded, the list is empty, and main runs *)
(* ProcessVNC with the saved index.                                        *)
Boot(c) ==
  /\ life \in {"down", "crashed"}
  /\ boots < MaxBoots
  /\ life' = "up"
  /\ reinstall' = FALSE
  /\ active' = savedActive
  /\ listed' = 0
  /\ launching' = 0
  /\ pc' = [[d \in Callers |-> "idle"] EXCEPT ![c] = "check"]
  /\ arg' = [arg EXCEPT ![c] = savedActive]
  /\ boots' = boots + 1
  /\ requests' = 0
  /\ UNCHANGED <<files, running, then, platform>>

Request(c, label) ==
  /\ Step(c, "idle", label)
  /\ requests < MaxRequests
  /\ requests' = requests + 1
  /\ UNCHANGED <<life, reinstall, active, listed, files, servers, boots, platform>>

(* processManage and processLocalMyManage: "revnc" with any number.        *)
Revnc(c, i) ==
  /\ Request(c, "check")
  /\ arg' = [arg EXCEPT ![c] = i]
  /\ UNCHANGED then

OptionClear(c) ==
  /\ Request(c, "clear")
  /\ arg' = [arg EXCEPT ![c] = 0]
  /\ UNCHANGED then

(* ReloadMe closes the server and, when the new instance cannot be         *)
(* started, goes on as before; TerminateMe closes it and exits.            *)
ReloadMe(c) ==
  /\ Request(c, "close")
  /\ then' = [then EXCEPT ![c] = "check"]
  /\ UNCHANGED arg

TerminateMe(c) ==
  /\ Request(c, "close")
  /\ then' = [then EXCEPT ![c] = "exit"]
  /\ UNCHANGED arg

(* SetDefaultOptions forgets the active package and removes options.cfg,   *)
(* if it can.                                                              *)
SetDefaultOptions(c) ==
  /\ Step(c, "clear", "check")
  /\ active' = -1
  /\ savedActive' \in {savedActive, Absent}
  /\ UNCHANGED <<life, reinstall, listed, savedList, servers, arg, then, bounds>>

(* A save that could not create its file leaves the old one, one that      *)
(* could not write it leaves a part; no caller looks at which it was.      *)
OptionsAfterSave == {active, savedActive, Absent}
ListAfterSave == {listed, savedList, Torn}

processLocalSave ==
  /\ life = "up"
  /\ savedActive' \in OptionsAfterSave
  /\ UNCHANGED <<life, reinstall, active, listed, savedList, servers, pc, arg,
                 then, bounds>>

-----------------------------------------------------------------------------
(* ProcessVNC: the flag is tested and then raised.                         *)
CheckFlag(c) ==
  /\ Step(c, "check", IF reinstall THEN "info" ELSE "set")
  /\ UNCHANGED <<life, reinstall, active, listed, files, servers, arg, then, bounds>>

RaiseFlag(c) ==
  /\ Step(c, "set", "close")
  /\ reinstall' = TRUE
  /\ then' = [then EXCEPT ![c] = "handle"]
  /\ UNCHANGED <<life, active, listed, files, servers, arg, bounds>>

(* After CloseVNC, ReloadMe reads the active package for its ProcessVNC.   *)
AfterClose(c) ==
  arg' = IF then[c] = "check" THEN [arg EXCEPT ![c] = active] ELSE arg

(* CloseVNC first looks whether there is anything to close ...             *)
CloseNothing(c) ==
  /\ listed = 0 \/ active = -1
  /\ Step(c, "close", then[c])
  /\ AfterClose(c)
  /\ UNCHANGED <<life, reinstall, active, listed, files, servers, then, bounds>>

CloseSomething(c) ==
  /\ listed > 0 /\ active # -1
  /\ Step(c, "close", "closeAct")
  /\ UNCHANGED <<life, reinstall, active, listed, files, servers, arg, then, bounds>>

(* ... and then stops, removes and kills the server of the active package. *)
CloseVNC(c) ==
  /\ ~ActivePanics
  /\ Step(c, "closeAct", then[c])
  /\ AfterClose(c)
  /\ running' = running \ (IF ActiveListed THEN {active} ELSE {})
  /\ UNCHANGED <<life, reinstall, active, listed, files, launching, then, bounds>>

-----------------------------------------------------------------------------
(* The handleVNC of Linux: a list of one package, made active without a    *)
(* look at the wish, whose programs must be installed (log.Fatalf exits).  *)
FillList(c) ==
  /\ platform = "linux"
  /\ Step(c, "handle", "activate")
  /\ listed' = 1
  /\ UNCHANGED <<life, reinstall, active, files, servers, arg, then, bounds>>

ActivateNone == active                         \* mutant: the index is left alone
Activated == 0
Activate(c) ==
  /\ Step(c, "activate", "start")
  /\ active' = Activated
  /\ UNCHANGED <<life, reinstall, listed, files, servers, arg, then, bounds>>

NotInstalled(c) ==
  /\ life = "up"
  /\ pc[c] = "activate"
  /\ active' = Activated
  /\ life' = "down"
  /\ UNCHANGED <<reinstall, listed, files, servers, pc, arg, then, bounds>>

(* The handleVNC of Windows, a loop.  A round ends it when the list on disk    *)
(* holds the wanted package and that one is active already.                *)
FirstIfNone(n) == IF n > 0 /\ active < 0 THEN 0 ELSE active
LoadedIsWanted(c, id, n) == id = arg[c]        \* mutant: the length unchecked
LoadedIs(c, id, n) == id = arg[c] /\ id <= n - 1

LoadList(c) ==
  /\ platform = "windows"
  /\ savedList >= 0
  /\ Step(c, "handle", IF LoadedIs(c, FirstIfNone(savedList), savedList)
                         THEN "start" ELSE "fetch")
  /\ listed' = savedList
  /\ active' = FirstIfNone(savedList)
  /\ UNCHANGED <<life, reinstall, files, servers, arg, then, bounds>>

LoadFails(c) ==
  /\ platform = "windows"
  /\ savedList < 0
  /\ Step(c, "handle", "fetch")
  /\ active' = IF savedList = Absent THEN -1 ELSE active
  /\ UNCHANGED <<life, reinstall, listed, files, servers, arg, then, bounds>>

(* getListVNC; a list too short for the active package turns the wish      *)
(* itself into the first package.                                          *)
getListVNC(c, n) ==
  /\ Step(c, "fetch", "extract")
  /\ listed' = n
  /\ active' = FirstIfNone(n)
  /\ arg' = [arg EXCEPT ![c] = IF FirstIfNone(n) > n - 1 THEN 0 ELSE @]
  /\ UNCHANGED <<life, reinstall, files, servers, then, bounds>>

getListFails(c) ==
  /\ Step(c, "fetch", "handle")
  /\ UNCHANGED <<life, reinstall, active, listed, files, servers, arg, then, bounds>>

(* getAndExtractVNC, whose test lets the length of the list pass.          *)
IndexRaw(c) == arg[c]                          \* mutant: not clamped
Index(c) == IF arg[c] < 0 THEN 0 ELSE arg[c]
RejectedLast(c) == arg[c] >= listed - 1        \* mutant: off by one
Rejected(c) == arg[c] > listed

ExtractOk(c) ==
  /\ ~Rejected(c)
  /\ Index(c) < listed
  /\ Step(c, "extract", "saveOptions")
  /\ active' = Index(c)
  /\ UNCHANGED <<life, reinstall, listed, files, servers, arg, then, bounds>>

ExtractFails(c) ==
  /\ Rejected(c) \/ Index(c) < listed
  /\ Step(c, "extract", "handle")
  /\ UNCHANGED <<life, reinstall, active, listed, files, servers, arg, then, bounds>>

ExtractPanics(c) ==
  /\ life = "up"
  /\ pc[c] = "extract"
  /\ ~Rejected(c) /\ Index(c) >= listed
  /\ Panic

SaveOptions(c) ==
  /\ Step(c, "saveOptions", "saveList")
  /\ savedActive' \in OptionsAfterSave
  /\ UNCHANGED <<life, reinstall, active, listed, savedList, servers, arg, then, bounds>>

saveListVNC(c) ==
  /\ Step(c, "saveList", "start")
  /\ savedList' \in ListAfterSave
  /\ UNCHANGED <<life, reinstall, active, listed, savedActive, servers, arg, then, bounds>>

-----------------------------------------------------------------------------
(* startVNC: its test, its configuration, and the goroutine it leaves.     *)
StartVNC(c) ==
  /\ Step(c, "start", IF listed = 0 \/ active = -1 THEN "unset" ELSE "config")
  /\ UNCHANGED <<life, reinstall, active, listed, files, servers, arg, then, bounds>>

Configure(c) ==
  /\ ~ActivePanics
  /\ Step(c, "config", "unset")
  /\ launching' = launching + 1
  /\ UNCHANGED <<life, reinstall, active, listed, files, running, arg, then, bounds>>

LowerFlag(c) ==
  /\ Step(c, "unset", "info")
  /\ reinstall' = FALSE
  /\ UNCHANGED <<life, active, listed, files, servers, arg, then, bounds>>

(* Whoever called ProcessVNC tells the panels of the active package.       *)
SendInfo(c) ==
  /\ ~ActivePanics
  /\ Step(c, "info", "idle")
  /\ UNCHANGED <<life, reinstall, active, listed, files, servers, arg, then, bounds>>

(* runVNCServer looks at the active package when it runs.                  *)
runVNCServer(ok) ==
  /\ life = "up"
  /\ launching > 0
  /\ ~ActivePanics
  /\ launching' = launching - 1
  /\ running' = running \cup (IF ok /\ ActiveListed THEN {active} ELSE {})
  /\ UNCHANGED <<life, reinstall, active, listed, files, pc, arg, then, bounds>>

IndexPanic ==
  /\ life = "up"
  /\ launching > 0 \/ \E c \in Callers : pc[c] \in {"closeAct", "config", "info"}
  /\ ActivePanics
  /\ Panic

(* A VNC server may end on its own.                                        *)
ServerEnds(id) ==
  /\ id \in running
  /\ running' = running \ {id}
  /\ UNCHANGED <<life, reinstall, active, listed, files, launching, pc, arg, then, bounds>>

Exit(c) ==
  /\ life = "up"
  /\ pc[c] = "exit"
  /\ life' = "down"
  /\ UNCHANGED <<reinstall, active, listed, files, servers, pc, arg, then, bounds>>

(* The machine or the process dies; a file being written may be cut short, *)
(* and options.cfg cut short is as good as none.                           *)
Kill ==
  /\ life = "up"
  /\ life' = "down"
  /\ savedActive' \in
       {savedActive} \cup IF \E c \in Callers : pc[c] = "saveOptions" THEN {-1} ELSE {}
  /\ savedList' \in
       {savedList} \cup IF \E c \in Callers : pc[c] = "saveList" THEN {Torn} ELSE {}
  /\ UNCHANGED <<reinstall, active, listed, servers, pc, arg, then, bounds>>

ProcessVNC(c) ==
  \/ SetDefaultOptions(c) \/ CheckFlag(c) \/ RaiseFlag(c)
  \/ CloseNothing(c) \/ CloseSomething(c) \/ CloseVNC(c)
  \/ FillList(c) \/ Activate(c) \/ NotInstalled(c)
  \/ LoadList(c) \/ LoadFails(c) \/ getListFails(c) \/ ExtractFails(c)
  \/ (\E n \in Offers : getListVNC(c, n)) \/ ExtractOk(c)
  \/ SaveOptions(c) \/ saveListVNC(c)
  \/ StartVNC(c) \/ Configure(c) \/ LowerFlag(c) \/ SendInfo(c)
  \/ ExtractPanics(c) \/ Exit(c)

Requests(c) ==
  \/ \E i \in Asked : Revnc(c, i)
  \/ OptionClear(c) \/ ReloadMe(c) \/ TerminateMe(c)

Next ==
  \/ \E c \in Callers : ProcessVNC(c) \/ Requests(c) \/ Boot(c)
  \/ \E ok \in BOOLEAN : runVNCServer(ok)
  \/ \E id \in running : ServerEnds(id)
  \/ IndexPanic \/ processLocalSave \/ Kill

Spec == Init /\ [][Next]_vars

(* The goroutine runs, and the server that is asked again and again serves *)
(* its longest list, and a package of the list, in the end.                *)
Longest(n) == \A k \in Offers : k <= n
Fairness ==
  \A c \in Callers :
    /\ WF_vars(ProcessVNC(c) \/ IndexPanic)
    /\ SF_vars(\E n \in Offers : Longest(n) /\ getListVNC(c, n))
    /\ SF_vars(ExtractOk(c))

FairSpec == Spec /\ Fairness

-----------------------------------------------------------------------------
(* processConnect accepts a visit when no reinstallation is under way and  *)
(* a package is active (handlers.go:105): then the package is in the list, *)
(* so that the visit is sent to a real port and not to an empty one.  With *)
(* an empty list, before the first ProcessVNC, nothing is claimed.         *)
ReadyIsServable ==
  life = "up" /\ listed > 0 /\ ~reinstall /\ active # -1 => ActiveListed

(* A reinstallation (of a package that one of the server's lists has) ends, *)
(* so that visits are accepted again: the loop of handleVNC is left, a     *)
(* package of the list is active and the flag comes down.                  *)
Servable(c) == platform = "linux" \/ \E n \in Offers : arg[c] < n
ReinstallEnds ==
  \A c \in Callers :
    pc[c] = "handle" /\ Servable(c) ~>
      life # "up" \/ (pc[c] = "info" /\ ~reinstall /\ ActiveListed)

(* One reinstallation at a time (vnc/main.go:338 and 342).                 *)
Reinstalling(c) ==
  \/ pc[c] \in {"close", "closeAct"} /\ then[c] = "handle"
  \/ pc[c] \in {"handle", "activate", "fetch", "extract", "saveOptions", "saveList", "start",
                "config", "unset"}
OneReinstall ==
  life = "up" => \A c, d \in Callers : Reinstalling(c) /\ Reinstalling(d) => c = d
=============================================================================
