------------------------------- MODULE Panels -------------------------------
(***************************************************************************)
(* The list of local panels, localConnections, a container/list that many  *)
(* goroutines use without a lock: every panel's localHandler appends and   *)
(* removes its element, MainClient, the visits and TerminateMe walk it to  *)
(* tell the panels to hide or show the credentials (or to leave), and      *)
(* processAuth to send them the credentials.                               *)
(*                                                                         *)
(* An element and its panel share a name; Root is the sentinel of the      *)
(* ring.  The list is modelled pointer by pointer, since its races are     *)
(* races between pointers.                                                 *)
(***************************************************************************)
EXTENDS Integers, FiniteSets

CONSTANTS
  Panels,     \* connections to the local server, each accepted once
  Visits,     \* visits served or watched, each counted once
  Answers,    \* goroutines that handle the server's answers to TMessAuth
  Root, Nil

ASSUME PanelsAssumption ==
  IsFiniteSet(Panels) /\ Root \notin Panels /\ Nil \notin Panels \cup {Root}
ASSUME VisitsAssumption == IsFiniteSet(Visits) /\ Visits \cap {"main", "quit"} = {}
ASSUME AnswersAssumption == Answers \cap (Visits \cup {"main", "quit"}) = {}

Nodes == Panels \cup {Root}

(* The goroutines that broadcast: MainClient, a visit's connectClient, the *)
(* one that runs TerminateMe and those that run processAuth.               *)
Walkers == Visits \cup Answers \cup {"main", "quit"}

VARIABLES
  life,       \* of the process
  pc,         \* where each panel's localHandler is
  next, prev, \* Element.next and Element.prev, Root's among them
  owner,      \* Element.list is set
  len,        \* List.len
  wpc,        \* where each broadcasting goroutine is
  at,         \* the element its walk sent to last; Nil before the first
  count,      \* connections.count
  hide,       \* panels whose last TMessLocalInfoHide said "1"
  real,       \* panels whose last TMessLocalInfo was not masked
  late,       \* while a visit was counted a panel was told "0", or one that
              \* did not hide them was sent the credentials by processAuth
  raced,      \* a list operation met another one half way
  cut         \* a walk to hide or show ended before the last element

ring == <<next, prev, owner, len>>
told == <<hide, real, late>>
history == <<told, raced, cut>>
vars == <<life, pc, ring, wpc, at, count, history>>

Linking == {"push2", "push3", "push4", "push5", "remove2", "remove3"}
Labels == {"none", "greet", "masked", "real", "read", "done"} \cup Linking
Walking == {"hide", "show", "logout", "leave", "auth"}
WalkerLabels ==
  Walking \cup {"idle", "look", "held", "showLook", "offline", "dial", "online",
                "done", "panicked"}

TypeOK ==
  /\ life \in {"up", "terminated", "exited", "crashed"}
  /\ pc \in [Panels -> Labels]
  /\ next \in [Nodes -> Nodes \cup {Nil}]
  /\ prev \in [Nodes -> Nodes \cup {Nil}]
  /\ owner \in [Panels -> BOOLEAN]
  /\ len \in -Cardinality(Panels) .. Cardinality(Panels)
  /\ wpc \in [Walkers -> WalkerLabels]
  /\ at \in [Walkers -> Nodes \cup {Nil}]
  /\ count \in 0 .. Cardinality(Visits)
  /\ hide \subseteq Panels
  /\ real \subseteq Panels
  /\ raced \in BOOLEAN /\ cut \in BOOLEAN /\ late \in BOOLEAN

Init ==
  /\ life = "up"
  /\ pc = [p \in Panels |-> "none"]
  /\ next = [n \in Nodes |-> IF n = Root THEN Root ELSE Nil]
  /\ prev = next
  /\ owner = [p \in Panels |-> FALSE]
  /\ len = 0
  /\ wpc = [w \in Walkers |-> IF w = "main" THEN "offline" ELSE "idle"]
  /\ at = [w \in Walkers |-> Nil]
  /\ count = 0
  /\ hide = {} /\ real = {}
  /\ raced = FALSE /\ cut = FALSE /\ late = FALSE

-----------------------------------------------------------------------------
Running == life \in {"up", "terminated"}

Step(p, l, m) ==
  /\ Running
  /\ pc[p] = l
  /\ pc' = [pc EXCEPT ![p] = m]

(* Some panel but p is in the middle of an operation on the list.          *)
Meets(p) == \E q \in Panels \ {p} : pc[q] \in Linking

(* What the panels were told is kept until a race or a cut walk, when the  *)
(* properties that read it promise nothing more.                           *)
Tell(h, r, l) ==
  IF raced' \/ cut'
    THEN hide' = {} /\ real' = {} /\ late' = FALSE
    ELSE hide' = h /\ real' = r /\ late' = l

(* A step of a panel's goroutine leaves the others where they are ...      *)
Quiet == UNCHANGED <<life, wpc, at, count, cut>>

(* ... and one of its operations on the list notes when it meets another.  *)
Operates(p, l, m) ==
  /\ Step(p, l, m)
  /\ raced' = (raced \/ Meets(p))
  /\ Quiet
  /\ Tell(hide, real, late)

(* len++ and len-- read and write: one that overlaps may be overwritten.   *)
Adds(p, d) ==
  \/ len' = len + d
  \/ /\ \E q \in Panels \ {p} : pc[q] \in {"push5", "remove3"}
     /\ len' = len

-----------------------------------------------------------------------------
(* localConnections.PushBack: insertValue(conn, root.prev).                *)
PushAt(p) ==
  /\ Operates(p, "none", "push2")
  /\ prev' = [prev EXCEPT ![p] = prev[Root]]
  /\ UNCHANGED <<next, owner, len>>

PushNext(p) ==
  /\ prev[p] # Nil
  /\ Operates(p, "push2", "push3")
  /\ next' = [next EXCEPT ![p] = next[prev[p]]]
  /\ UNCHANGED <<prev, owner, len>>

PushLink(p) ==
  /\ prev[p] # Nil
  /\ Operates(p, "push3", "push4")
  /\ next' = [next EXCEPT ![prev[p]] = p]
  /\ UNCHANGED <<prev, owner, len>>

PushBackLink(p) ==
  /\ next[p] # Nil
  /\ Operates(p, "push4", "push5")
  /\ prev' = [prev EXCEPT ![next[p]] = p]
  /\ UNCHANGED <<next, owner, len>>

PushOwn(p) ==
  /\ Operates(p, "push5", "greet")
  /\ owner' = [owner EXCEPT ![p] = TRUE]
  /\ Adds(p, 1)
  /\ UNCHANGED <<next, prev>>

(* The connection ends: localConnections.Remove, by the element's owner.   *)
RemoveLinkForgotten(p) ==                \* mutant: the element stays
  /\ Operates(p, "read", "done")
  /\ UNCHANGED ring
RemoveLink(p) ==
  /\ prev[p] # Nil
  /\ Operates(p, "read", "remove2")
  /\ next' = [next EXCEPT ![prev[p]] = next[p]]
  /\ UNCHANGED <<prev, owner, len>>

RemoveBackLink(p) ==
  /\ next[p] # Nil
  /\ Operates(p, "remove2", "remove3")
  /\ prev' = [prev EXCEPT ![next[p]] = prev[p]]
  /\ UNCHANGED <<next, owner, len>>

RemoveOwn(p) ==
  /\ Step(p, "remove3", "done")
  /\ raced' = (raced \/ Meets(p))
  /\ next' = [next EXCEPT ![p] = Nil]
  /\ prev' = [prev EXCEPT ![p] = Nil]
  /\ owner' = [owner EXCEPT ![p] = FALSE]
  /\ Adds(p, -1)
  /\ Quiet
  /\ Tell(hide \ {p}, real \ {p}, late)

(* A neighbour's half done operation left a nil where a link is followed.  *)
NilLink(p) ==
  \/ pc[p] \in {"push4", "remove2"} /\ next[p] = Nil
  \/ pc[p] \in {"push2", "push3", "read"} /\ prev[p] = Nil

LinkPanic(p) ==
  /\ Running
  /\ NilLink(p)
  /\ life' = "crashed"
  /\ UNCHANGED <<pc, ring, wpc, at, count, history>>

-----------------------------------------------------------------------------
(* localHandler greets the panel with processLocalInfo, reads until the    *)
(* connection ends, removes its element and closes.                        *)
MasksNever == FALSE                      \* mutant: the counter is not read
Masks == count > 0

GreetLook(p) ==
  /\ Step(p, "greet", IF Masks THEN "masked" ELSE "real")
  /\ UNCHANGED <<ring, told, raced>> /\ Quiet

GreetSend(p) ==
  /\ pc[p] \in {"masked", "real"}
  /\ Step(p, pc[p], "read")
  /\ UNCHANGED <<ring, raced>>
  /\ Quiet
  /\ Tell(hide, IF pc[p] = "real" THEN real \cup {p} ELSE real, late)

localHandler(p) ==
  \/ PushNext(p) \/ PushLink(p) \/ PushBackLink(p) \/ PushOwn(p)
  \/ GreetLook(p) \/ GreetSend(p)
  \/ RemoveBackLink(p) \/ RemoveOwn(p)
-----------------------------------------------------------------------------
(* sendMessageToLocalCons: Front, then Next until it returns nil.  One     *)
(* step takes an element and sends to it.                                  *)
FrontAlways == next[Root]                \* mutant: the length is not read
Front == IF len = 0 THEN Nil ELSE next[Root]

AfterRound(e) ==                         \* mutant: the root does not end it
  IF ~owner[e] THEN Nil ELSE IF next[e] = Root THEN next[Root] ELSE next[e]
After(e) ==
  IF owner[e] /\ next[e] # Root THEN next[e] ELSE Nil

Element(w) == IF at[w] = Nil THEN Front ELSE After(at[w])

(* The walk ended although its element is not, or no longer, the last.     *)
CutAt(e) == e # Nil /\ ~(owner[e] /\ next[e] = Root)

(* What a panel p is told by a walk.                                       *)
Told(w, p) ==
  CASE wpc[w] = "hide" -> Tell(hide \cup {p}, real, late)
    [] wpc[w] = "show" -> Tell(hide \ {p}, real, late \/ count > 0)
    [] wpc[w] = "auth" -> Tell(hide, real \cup {p}, late \/ (count > 0 /\ p \notin hide))
    [] OTHER -> Tell(hide, real, late)

(* Front reads the length and the root: a list operation under way races.  *)
Reads(w) ==
  raced' = (raced \/ (at[w] = Nil /\ \E q \in Panels : pc[q] \in Linking))

WalkTo(w) ==
  /\ Running
  /\ wpc[w] \in Walking
  /\ Element(w) \in Panels
  /\ at' = [at EXCEPT ![w] = Element(w)]
  /\ Reads(w)
  /\ UNCHANGED <<life, pc, ring, wpc, count, cut>>
  /\ Told(w, Element(w))

(* The element is the root, whose value is no connection: the assertion    *)
(* panics.  Only MainClient recovers, and ends.                            *)
WalkPanic(w) ==
  /\ Running
  /\ wpc[w] \in Walking
  /\ Element(w) = Root
  /\ IF w = "main"
       THEN wpc' = [wpc EXCEPT ![w] = "panicked"] /\ life' = life
       ELSE life' = "crashed" /\ wpc' = wpc
  /\ Reads(w)
  /\ UNCHANGED <<pc, ring, at, count, cut>>
  /\ Tell(hide, real, late)

(* Where a goroutine goes on when its walk is over.                        *)
AfterWalk(w) ==
  CASE wpc[w] = "hide" -> IF w = "main" THEN "dial" ELSE "held"
    [] wpc[w] = "show" -> IF w = "main" THEN "online" ELSE "done"
    [] wpc[w] = "logout" -> "offline"
    [] wpc[w] = "leave" -> "done"
    [] wpc[w] = "auth" -> "idle"

WalkEnd(w) ==
  /\ Running
  /\ wpc[w] \in Walking
  /\ Element(w) = Nil
  /\ wpc' = [wpc EXCEPT ![w] = AfterWalk(w)]
  /\ at' = [at EXCEPT ![w] = Nil]
  /\ cut' = (cut \/ (wpc[w] \in {"hide", "show"} /\ CutAt(at[w])))
  /\ life' = IF wpc[w] = "leave" THEN "exited" ELSE life
  /\ Reads(w)
  /\ UNCHANGED <<pc, ring, count>>
  /\ Tell(hide, real, late)

sendMessageToLocalCons(w) == WalkTo(w) \/ WalkPanic(w) \/ WalkEnd(w)

-----------------------------------------------------------------------------
(* A step of a broadcasting goroutine outside its walks.                   *)
Goes(w, l, m) ==
  /\ Running
  /\ wpc[w] = l
  /\ wpc' = [wpc EXCEPT ![w] = m]
  /\ UNCHANGED <<pc, ring, at, history>>

(* MainClient: every round hides, dials, shows and, when the link is lost, *)
(* logs the panels out.                                                    *)
AfterDialSilent == "online"              \* mutant: no "0" after the dial
AfterDial == "show"
MainDials ==
  /\ \/ Goes("main", "offline", "hide")
     \/ Goes("main", "dial", "offline")
     \/ Goes("main", "dial", AfterDial)
  /\ UNCHANGED <<life, count>>

MainLoses ==
  /\ Goes("main", "online", "logout")
  /\ UNCHANGED <<life, count>>

(* processAuth: an answer was read while the link was up; its handler may  *)
(* run later.  It sends every panel the credentials, and does not look at  *)
(* the counter.                                                            *)
processAuth(a) ==
  /\ wpc["main"] = "online"
  /\ Goes(a, "idle", "auth")
  /\ UNCHANGED <<life, count>>

(* hideInfo and showInfo of a visit.                                       *)
HideCountBoth(s) ==                      \* mutant: each goroutine counts
  /\ Goes(s, "idle", "look")
  /\ count' = count + 2
  /\ UNCHANGED life
HideCount(s) ==
  /\ Goes(s, "idle", "look")
  /\ count' = count + 1
  /\ UNCHANGED life

HideLook(s) ==
  /\ Goes(s, "look", IF count > 0 THEN "hide" ELSE "held")
  /\ UNCHANGED <<life, count>>

ShowCount(s) ==
  /\ Goes(s, "held", "showLook")
  /\ count' = count - 1
  /\ UNCHANGED life

LastOut == count = 0

ShowLook(s) ==
  /\ Goes(s, "showLook", IF LastOut THEN "show" ELSE "done")
  /\ UNCHANGED <<life, count>>

(* TerminateMe: refused while several panels are connected; otherwise the  *)
(* flag is raised, the panels are told and the process exits.              *)
Several == len > 1

TerminateMe(force) ==
  /\ force \/ ~Several
  /\ Goes("quit", "idle", "leave")
  /\ life' = "terminated"
  /\ UNCHANGED count

Broadcasts ==
  \/ \E w \in Walkers : sendMessageToLocalCons(w)
  \/ MainDials \/ MainLoses
  \/ \E a \in Answers : processAuth(a)
  \/ \E s \in Visits : HideCount(s) \/ HideLook(s) \/ ShowCount(s) \/ ShowLook(s)
  \/ \E force \in BOOLEAN : TerminateMe(force)

Next ==
  \/ \E p \in Panels : PushAt(p) \/ localHandler(p) \/ RemoveLink(p) \/ LinkPanic(p)
  \/ Broadcasts

Spec == Init /\ [][Next]_vars

-----------------------------------------------------------------------------
(* The panels whose element is in the list, by where their goroutine is.   *)
Stored == {p \in Panels : pc[p] \in {"greet", "masked", "real", "read"}}
Settled == \A p \in Panels : pc[p] \notin Linking
NoWalk == \A w \in Walkers : wpc[w] \notin Walking \cup {"look", "showLook"}

(* The ring through Root holds the elements of S, forwards and backwards.  *)
IsRing(S) ==
  /\ \A n \in S : next[n] \in S /\ prev[n] \in S /\ prev[next[n]] = n
  /\ \A T \in SUBSET S : (Root \in T /\ \A n \in T : next[n] \in T) => T = S

(* The list is what its comment in common.go says, all the panels: as long *)
(* as no two operations on it overlapped, whoever walks it or asks for its *)
(* length finds the connected panels and no other (localHandler).          *)
AllStored ==
  ~raced /\ Settled /\ Running =>
    /\ len = Cardinality(Stored)
    /\ IsRing(Stored \cup {Root})

(* A walk or an operation meets a nil or the root only after a race.       *)
CrashIsRace == (life = "crashed" \/ wpc["main"] = "panicked") => raced

(* Once the link is up, visits are over and walks have ended no panel is   *)
(* left hiding the credentials, unless a walk was cut short by a panel     *)
(* that left (MainClient, showInfo).                                       *)
Recovered ==
  /\ Running /\ NoWalk /\ wpc["main"] = "online" /\ count = 0
  /\ ~raced /\ ~cut
  => Stored \cap hide = {}

(* During a visit no panel that got the credentials shows them, whether it *)
(* was connected when the visit began or came later, and whether they came *)
(* with its greeting or with an earlier answer of the server (hideInfo,    *)
(* processLocalInfo).  The exceptions: a "0" that reached it late, and an  *)
(* answer that processAuth sent, during the visit, to a panel that had     *)
(* been greeted masked (handlers.go:62); and a walk cut short.             *)
Covered ==
  /\ Running /\ NoWalk /\ count > 0
  /\ ~raced /\ ~cut /\ ~late
  => \A p \in Stored : p \in real => p \in hide

(* A walk ends, whatever panels come and go and even over a damaged list:  *)
(* no elements lead round in a ring that leaves the root out.              *)
NoLoop ==
  \A T \in SUBSET Panels : T # {} => \E e \in T : After(e) \notin T
=============================================================================
