---------------------------- MODULE PanelsProofs ----------------------------
(***************************************************************************)
(* Theorems about Panels, for any finite sets of panels and visits: the    *)
(* types; the list, pointer by pointer, before and after its operations    *)
(* race; and what the panels show of the credentials.                      *)
(***************************************************************************)
EXTENDS Panels, FiniteSetTheorems, WellFoundedInduction, TLAPS

(* The visits the counter stands for, the panels that left, and those      *)
(* whose element the length was told of.                                   *)
Counted == {v \in Visits : wpc[v] \in {"look", "hide", "held"}}
Gone == {p \in Panels : pc[p] = "done"}
Came ==
  {p \in Panels : pc[p] \in {"greet", "masked", "real", "read", "remove2", "remove3", "done"}}

Sizes ==
  /\ count = Cardinality(Counted)
  /\ -Cardinality(Gone) <= len
  /\ len <= Cardinality(Came)

TInv == TypeOK /\ Sizes

LEMMA SubsetSize ==
  /\ \A S \in SUBSET Panels :
       IsFiniteSet(S) /\ Cardinality(S) \in Nat /\ Cardinality(S) <= Cardinality(Panels)
  /\ \A S \in SUBSET Visits :
       IsFiniteSet(S) /\ Cardinality(S) \in Nat /\ Cardinality(S) <= Cardinality(Visits)
  /\ Cardinality(Panels) \in Nat /\ Cardinality(Visits) \in Nat
  BY PanelsAssumption, VisitsAssumption, FS_Subset, FS_CardinalityType

(* What the panels were told stays of its type.                            *)
LEMMA TellTyped ==
  ASSUME TypeOK, NEW h \in SUBSET Panels, NEW r \in SUBSET Panels, NEW l \in BOOLEAN,
         Tell(h, r, l)
  PROVE  hide' \subseteq Panels /\ real' \subseteq Panels /\ late' \in BOOLEAN
  BY DEF Tell, TypeOK

LEMMA InitTInv == Init => TInv
<1> SUFFICES ASSUME Init PROVE TInv
  OBVIOUS
<1>1. /\ pc \in [Panels -> Labels] /\ owner \in [Panels -> BOOLEAN]
      /\ next \in [Nodes -> Nodes \cup {Nil}] /\ prev \in [Nodes -> Nodes \cup {Nil}]
  BY DEF Init, Labels, Nodes
<1>2. wpc \in [Walkers -> WalkerLabels] /\ at \in [Walkers -> Nodes \cup {Nil}]
  BY DEF Init, WalkerLabels
<1>3. /\ life \in {"up", "terminated", "exited", "crashed"}
      /\ hide \subseteq Panels /\ real \subseteq Panels
      /\ raced \in BOOLEAN /\ cut \in BOOLEAN /\ late \in BOOLEAN
  BY DEF Init
<1>4. Counted = {} /\ Gone = {} /\ Came \in SUBSET Panels
  BY VisitsAssumption DEF Init, Counted, Gone, Came, Walkers
<1>5. Sizes
  BY <1>4, SubsetSize, FS_EmptySet DEF Init, Sizes
<1>6. /\ len \in -Cardinality(Panels) .. Cardinality(Panels)
      /\ count \in 0 .. Cardinality(Visits)
  BY SubsetSize DEF Init
<1> QED
  BY <1>1, <1>2, <1>3, <1>5, <1>6 DEF TInv, TypeOK

(* The length stays between what left and what came when a panel's step    *)
(* changes neither, and when it adds or takes away one of each.            *)
LEMMA LengthTyped ==
  ASSUME TInv, NEW p \in Panels, NEW m \in Labels, pc' = [pc EXCEPT ![p] = m],
         \/ /\ pc[p] = "push5" /\ m = "greet"
            /\ Adds(p, 1)
         \/ /\ pc[p] = "remove3" /\ m = "done"
            /\ Adds(p, -1)
         \/ /\ len' = len
            /\ pc[p] # "done" /\ m # "done"
            /\ pc[p] \in {"greet", "masked", "real", "read", "remove2", "remove3"}
                 <=> m \in {"greet", "masked", "real", "read", "remove2", "remove3"}
  PROVE  /\ -Cardinality(Gone') <= len' /\ len' <= Cardinality(Came')
         /\ len' \in -Cardinality(Panels) .. Cardinality(Panels)
<1>0. /\ Gone \in SUBSET Panels /\ Gone' \in SUBSET Panels
      /\ Came \in SUBSET Panels /\ Came' \in SUBSET Panels
      /\ len \in Int /\ -Cardinality(Gone) <= len /\ len <= Cardinality(Came)
  BY DEF Gone, Came, TInv, TypeOK, Sizes
<1>1. pc'[p] = m /\ \A q \in Panels \ {p} : pc'[q] = pc[q]
  BY DEF TInv, TypeOK
<1>2. CASE pc[p] = "push5" /\ m = "greet" /\ Adds(p, 1)
  <2>1. Gone' = Gone /\ Came' = Came \cup {p} /\ p \notin Came
    BY <1>1, <1>2 DEF Gone, Came
  <2>2. Cardinality(Came') = Cardinality(Came) + 1
    BY <1>0, <2>1, SubsetSize, FS_AddElement
  <2>3. len' = len + 1 \/ len' = len
    BY <1>2 DEF Adds
  <2> QED
    BY <1>0, <2>1, <2>2, <2>3, SubsetSize
<1>3. CASE pc[p] = "remove3" /\ m = "done" /\ Adds(p, -1)
  <2>1. Came' = Came /\ Gone' = Gone \cup {p} /\ p \notin Gone
    BY <1>1, <1>3 DEF Gone, Came
  <2>2. Cardinality(Gone') = Cardinality(Gone) + 1
    BY <1>0, <2>1, SubsetSize, FS_AddElement
  <2>3. len' = len + (-1) \/ len' = len
    BY <1>3 DEF Adds
  <2> QED
    BY <1>0, <2>1, <2>2, <2>3, SubsetSize
<1>4. CASE /\ len' = len
           /\ pc[p] # "done" /\ m # "done"
           /\ pc[p] \in {"greet", "masked", "real", "read", "remove2", "remove3"}
                <=> m \in {"greet", "masked", "real", "read", "remove2", "remove3"}
  <2>1. Gone' = Gone /\ Came' = Came
    BY <1>1, <1>4 DEF Gone, Came
  <2> QED
    BY <1>0, <1>4, <2>1, SubsetSize
<1> QED
  BY <1>2, <1>3, <1>4

(* A step of a panel's goroutine.                                          *)
LEMMA PanelTyped ==
  ASSUME TInv, NEW p \in Panels,
         PushAt(p) \/ localHandler(p) \/ RemoveLink(p) \/ LinkPanic(p)
  PROVE  TInv'
<1> USE DEF TInv
<1>0. /\ Root \in Nodes /\ p \in Nodes /\ Panels \subseteq Nodes
      /\ next \in [Nodes -> Nodes \cup {Nil}] /\ prev \in [Nodes -> Nodes \cup {Nil}]
      /\ hide \in SUBSET Panels /\ real \in SUBSET Panels /\ late \in BOOLEAN
  BY DEF Nodes, TypeOK
<1>1. ASSUME Running, NEW m \in Labels, pc' = [pc EXCEPT ![p] = m],
             next' \in [Nodes -> Nodes \cup {Nil}], prev' \in [Nodes -> Nodes \cup {Nil}],
             owner' \in [Panels -> BOOLEAN], raced' \in BOOLEAN, Quiet,
             NEW h \in SUBSET Panels, NEW r \in SUBSET Panels, Tell(h, r, late),
             \/ /\ pc[p] = "push5" /\ m = "greet"
                /\ Adds(p, 1)
             \/ /\ pc[p] = "remove3" /\ m = "done"
                /\ Adds(p, -1)
             \/ /\ len' = len
                /\ pc[p] # "done" /\ m # "done"
                /\ pc[p] \in {"greet", "masked", "real", "read", "remove2", "remove3"}
                     <=> m \in {"greet", "masked", "real", "read", "remove2", "remove3"}
      PROVE  TInv'
  <2>1. /\ -Cardinality(Gone') <= len' /\ len' <= Cardinality(Came')
        /\ len' \in -Cardinality(Panels) .. Cardinality(Panels)
    BY <1>1, LengthTyped
  <2>2. hide' \subseteq Panels /\ real' \subseteq Panels /\ late' \in BOOLEAN
    BY <1>0, <1>1, TellTyped
  <2>3. UNCHANGED <<life, wpc, at, count, cut>> /\ Counted' = Counted
    BY <1>1 DEF Quiet, Counted
  <2>4. pc' \in [Panels -> Labels]
    BY <1>1 DEF TypeOK
  <2>5. /\ life' \in {"up", "terminated", "exited", "crashed"}
        /\ wpc' \in [Walkers -> WalkerLabels] /\ at' \in [Walkers -> Nodes \cup {Nil}]
        /\ count' \in 0 .. Cardinality(Visits) /\ cut' \in BOOLEAN
    BY <2>3 DEF TypeOK
  <2>6. count' = Cardinality(Counted')
    BY <2>3 DEF Sizes
  <2> QED
    BY <1>1, <2>1, <2>2, <2>4, <2>5, <2>6 DEF TypeOK, Sizes
<1>2. ASSUME NEW l, NEW m \in Labels, Operates(p, l, m),
             next' \in [Nodes -> Nodes \cup {Nil}], prev' \in [Nodes -> Nodes \cup {Nil}],
             owner' \in [Panels -> BOOLEAN],
             \/ /\ l = "push5" /\ m = "greet"
                /\ Adds(p, 1)
             \/ /\ len' = len
                /\ l # "done" /\ m # "done"
                /\ l \in {"greet", "masked", "real", "read", "remove2", "remove3"}
                     <=> m \in {"greet", "masked", "real", "read", "remove2", "remove3"}
      PROVE  TInv'
  <2>1. Running /\ pc[p] = l /\ pc' = [pc EXCEPT ![p] = m] /\ Quiet /\ Tell(hide, real, late)
    BY <1>2 DEF Operates, Step
  <2>2. raced' \in BOOLEAN
    BY <1>2 DEF Operates, TypeOK, Meets
  <2> QED
    BY <1>0, <1>1, <1>2, <2>1, <2>2
<1>3. owner \in [Panels -> BOOLEAN] /\ raced \in BOOLEAN
  BY DEF TypeOK
<1>4. {"push2", "push3", "push4", "push5", "greet", "masked", "real", "read",
       "remove2", "remove3", "done"} \subseteq Labels
  BY DEF Labels, Linking
<1>5. CASE PushAt(p)
  BY <1>0, <1>2, <1>3, <1>4, <1>5 DEF PushAt
<1>6. CASE PushNext(p)
  BY <1>0, <1>2, <1>3, <1>4, <1>6 DEF PushNext
<1>7. CASE PushLink(p)
  BY <1>0, <1>2, <1>3, <1>4, <1>7 DEF PushLink
<1>8. CASE PushBackLink(p)
  BY <1>0, <1>2, <1>3, <1>4, <1>8 DEF PushBackLink
<1>9. CASE PushOwn(p)
  BY <1>0, <1>2, <1>3, <1>4, <1>9 DEF PushOwn
<1>10. CASE RemoveLink(p)
  BY <1>0, <1>2, <1>3, <1>4, <1>10 DEF RemoveLink
<1>11. CASE RemoveBackLink(p)
  BY <1>0, <1>2, <1>3, <1>4, <1>11 DEF RemoveBackLink
<1>12. CASE RemoveOwn(p)
  <2>1. /\ Running /\ pc[p] = "remove3" /\ pc' = [pc EXCEPT ![p] = "done"] /\ Quiet
        /\ Tell(hide \ {p}, real \ {p}, late) /\ Adds(p, -1)
    BY <1>12 DEF RemoveOwn, Step
  <2>2. /\ next' \in [Nodes -> Nodes \cup {Nil}] /\ prev' \in [Nodes -> Nodes \cup {Nil}]
        /\ owner' \in [Panels -> BOOLEAN] /\ raced' \in BOOLEAN
    BY <1>0, <1>3, <1>12 DEF RemoveOwn, Meets
  <2>3. hide \ {p} \in SUBSET Panels /\ real \ {p} \in SUBSET Panels
    BY <1>0
  <2> QED
    BY <1>1, <1>4, <2>1, <2>2, <2>3
<1>13. CASE GreetLook(p)
  <2>1. PICK m \in {"masked", "real"} :
          Running /\ pc[p] = "greet" /\ pc' = [pc EXCEPT ![p] = m]
    BY <1>13 DEF GreetLook, Step
  <2>2. Quiet /\ UNCHANGED <<next, prev, owner, len, hide, real, late, raced, cut>>
    BY <1>13 DEF GreetLook, Quiet, ring, told
  <2>4. pc' \in [Panels -> Labels]
    BY <1>4, <2>1 DEF TypeOK
  <2>5. /\ -Cardinality(Gone') <= len' /\ len' <= Cardinality(Came')
        /\ len' \in -Cardinality(Panels) .. Cardinality(Panels)
    BY <1>4, <2>1, <2>2, LengthTyped
  <2>6. Counted' = Counted /\ UNCHANGED <<life, wpc, at, count, cut>>
    BY <2>2 DEF Quiet, Counted
  <2> QED
    BY <2>2, <2>4, <2>5, <2>6 DEF TypeOK, Sizes
<1>14. CASE GreetSend(p)
  <2>1. /\ Running /\ pc[p] \in {"masked", "real"} /\ pc' = [pc EXCEPT ![p] = "read"] /\ Quiet
        /\ UNCHANGED <<next, prev, owner, len, raced>>
    BY <1>14 DEF GreetSend, Step, ring
  <2>2. PICK r \in SUBSET Panels : Tell(hide, r, late)
    BY <1>0, <1>14 DEF GreetSend
  <2> QED
    BY <1>0, <1>1, <1>3, <1>4, <2>1, <2>2
<1>15. CASE LinkPanic(p)
  BY <1>15 DEF LinkPanic, TypeOK, Sizes, Gone, Came, Counted, ring, history, told
<1> QED
  BY <1>5, <1>6, <1>7, <1>8, <1>9, <1>10, <1>11, <1>12, <1>13, <1>14, <1>15 DEF localHandler

(* A step of a broadcasting goroutine: the visits that count stay those    *)
(* that the counter counts.                                                *)
LEMMA WalkTyped ==
  ASSUME TInv, NEW w \in Walkers, sendMessageToLocalCons(w)
  PROVE  TInv'
<1> USE DEF TInv
<1>0. /\ hide \in SUBSET Panels /\ real \in SUBSET Panels /\ late \in BOOLEAN
      /\ raced \in BOOLEAN /\ cut \in BOOLEAN /\ wpc \in [Walkers -> WalkerLabels]
      /\ at \in [Walkers -> Nodes \cup {Nil}] /\ Panels \subseteq Nodes
      /\ life \in {"up", "terminated", "exited", "crashed"}
  BY DEF TypeOK, Nodes
<1>1. ASSUME UNCHANGED <<pc, ring, count>>, wpc' \in [Walkers -> WalkerLabels],
             at' \in [Walkers -> Nodes \cup {Nil}], cut' \in BOOLEAN, raced' \in BOOLEAN,
             life' \in {"up", "terminated", "exited", "crashed"}, Counted' = Counted,
             NEW h \in SUBSET Panels, NEW r \in SUBSET Panels, NEW l \in BOOLEAN, Tell(h, r, l)
      PROVE  TInv'
  <2>1. hide' \subseteq Panels /\ real' \subseteq Panels /\ late' \in BOOLEAN
    BY <1>1, TellTyped
  <2>2. UNCHANGED <<next, prev, owner, len>> /\ Gone' = Gone /\ Came' = Came
    BY <1>1 DEF ring, Gone, Came
  <2> QED
    BY <1>1, <2>1, <2>2 DEF TypeOK, Sizes
<1>2. CASE WalkTo(w)
  <2>1. /\ UNCHANGED <<pc, ring, count, wpc, life, cut>> /\ Element(w) \in Panels
        /\ at' = [at EXCEPT ![w] = Element(w)] /\ raced' \in BOOLEAN
    BY <1>0, <1>2 DEF WalkTo, Reads
  <2>2. PICK h \in SUBSET Panels, r \in SUBSET Panels, l \in BOOLEAN : Tell(h, r, l)
    <3>1. /\ hide \cup {Element(w)} \in SUBSET Panels /\ hide \ {Element(w)} \in SUBSET Panels
          /\ real \cup {Element(w)} \in SUBSET Panels /\ (late \/ count > 0) \in BOOLEAN
          /\ (late \/ (count > 0 /\ Element(w) \notin hide)) \in BOOLEAN
      BY <1>0, <2>1
    <3>2. Told(w, Element(w))
      BY <1>2 DEF WalkTo
    <3>3. \/ Tell(hide \cup {Element(w)}, real, late)
          \/ Tell(hide \ {Element(w)}, real, late \/ count > 0)
          \/ Tell(hide, real \cup {Element(w)}, late \/ (count > 0 /\ Element(w) \notin hide))
          \/ Tell(hide, real, late)
      BY <3>2 DEF Told
    <3> QED
      BY <1>0, <3>1, <3>3
  <2>3. at' \in [Walkers -> Nodes \cup {Nil}] /\ Counted' = Counted
    BY <1>0, <2>1 DEF Counted
  <2> QED
    BY <1>0, <1>1, <2>1, <2>2, <2>3
<1>3. CASE WalkPanic(w)
  <2>1. /\ UNCHANGED <<pc, ring, count, at, cut>> /\ raced' \in BOOLEAN
        /\ Tell(hide, real, late) /\ life' \in {life, "crashed"}
        /\ wpc' = wpc \/ (w = "main" /\ wpc' = [wpc EXCEPT ![w] = "panicked"])
    BY <1>0, <1>3 DEF WalkPanic, Reads
  <2>2. wpc' \in [Walkers -> WalkerLabels] /\ Counted' = Counted
    BY <1>0, <2>1, VisitsAssumption DEF WalkerLabels, Counted, Walkers
  <2> QED
    BY <1>0, <1>1, <2>1, <2>2
<1>4. CASE WalkEnd(w)
  <2>1. /\ UNCHANGED <<pc, ring, count>> /\ raced' \in BOOLEAN /\ cut' \in BOOLEAN
        /\ wpc' = [wpc EXCEPT ![w] = AfterWalk(w)] /\ at' = [at EXCEPT ![w] = Nil]
        /\ Tell(hide, real, late) /\ life' \in {life, "exited"} /\ wpc[w] \in Walking
    BY <1>0, <1>4 DEF WalkEnd, Reads
  <2>2. AfterWalk(w) \in WalkerLabels
    BY <2>1 DEF AfterWalk, WalkerLabels, Walking
  <2>3. w \in Visits =>
          (wpc[w] \in {"look", "hide", "held"} <=> AfterWalk(w) \in {"look", "hide", "held"})
    BY <2>1, VisitsAssumption DEF AfterWalk, Walking
  <2>4. Counted' = Counted
    BY <1>0, <2>1, <2>3 DEF Counted, Walkers
  <2>5. wpc' \in [Walkers -> WalkerLabels] /\ at' \in [Walkers -> Nodes \cup {Nil}]
    BY <1>0, <2>1, <2>2
  <2> QED
    BY <1>0, <1>1, <2>1, <2>4, <2>5
<1> QED
  BY <1>2, <1>3, <1>4 DEF sendMessageToLocalCons

LEMMA NextTInv == TInv /\ [Next]_vars => TInv'
<1> SUFFICES ASSUME TInv, [Next]_vars
             PROVE  TInv'
  OBVIOUS
<1> USE DEF TInv
<1>0. /\ wpc \in [Walkers -> WalkerLabels] /\ Counted \in SUBSET Visits
      /\ life \in {"up", "terminated", "exited", "crashed"} /\ count = Cardinality(Counted)
      /\ "main" \in Walkers /\ "quit" \in Walkers /\ Visits \subseteq Walkers
      /\ \A s \in Visits : s # "main" /\ s # "quit"
      /\ \A a \in Answers : a \in Walkers /\ a \notin Visits
  BY VisitsAssumption, AnswersAssumption DEF TypeOK, Sizes, Counted, Walkers
<1>1. ASSUME NEW w \in Walkers, NEW l, NEW m \in WalkerLabels, Goes(w, l, m),
             life' \in {"up", "terminated", "exited", "crashed"},
             count' = Cardinality(Counted')
      PROVE  TInv'
  <2>1. count' \in 0 .. Cardinality(Visits)
    <3>1. Counted' \in SUBSET Visits
      BY DEF Counted
    <3> QED
      BY <1>1, <3>1, SubsetSize
  <2>2. UNCHANGED <<pc, next, prev, owner, len, at, hide, real, late, raced, cut>>
        /\ wpc' \in [Walkers -> WalkerLabels]
    BY <1>0, <1>1 DEF Goes, ring, history, told
  <2>3. Gone' = Gone /\ Came' = Came
    BY <2>2 DEF Gone, Came
  <2> QED
    BY <1>1, <2>1, <2>2, <2>3 DEF TypeOK, Sizes
<1>2. ASSUME NEW w \in Walkers, NEW l, NEW m \in WalkerLabels, Goes(w, l, m),
             life' \in {"up", "terminated", "exited", "crashed"}, count' = count,
             w \in Visits => (l \in {"look", "hide", "held"} <=> m \in {"look", "hide", "held"})
      PROVE  TInv'
  <2>1. Counted' = Counted
    BY <1>0, <1>2 DEF Goes, Counted
  <2> QED
    BY <1>0, <1>1, <1>2, <2>1
<1>3. {"idle", "look", "held", "showLook", "offline", "dial", "online", "done", "hide",
       "show", "logout", "leave", "auth"} \subseteq WalkerLabels
  BY DEF WalkerLabels, Walking
<1>4. CASE MainDials
  <2>1. Goes("main", "offline", "hide") \/ Goes("main", "dial", "offline")
        \/ Goes("main", "dial", "show")
    BY <1>4 DEF MainDials, AfterDial
  <2> QED
    BY <1>0, <1>2, <1>3, <1>4, <2>1 DEF MainDials
<1>5. CASE MainLoses
  BY <1>0, <1>2, <1>3, <1>5 DEF MainLoses
<1>6. ASSUME NEW s \in Visits, HideCount(s)
      PROVE  TInv'
  <2>1. Counted' = Counted \cup {s} /\ s \notin Counted
    BY <1>0, <1>6 DEF HideCount, Goes, Counted
  <2>2. count' = Cardinality(Counted')
    BY <1>0, <1>6, <2>1, SubsetSize, FS_AddElement DEF HideCount
  <2> QED
    BY <1>0, <1>1, <1>3, <1>6, <2>2 DEF HideCount
<1>7. ASSUME NEW s \in Visits, HideLook(s)
      PROVE  TInv'
  <2>1. Goes(s, "look", "hide") \/ Goes(s, "look", "held")
    BY <1>7 DEF HideLook
  <2> QED
    BY <1>0, <1>2, <1>3, <1>7, <2>1 DEF HideLook
<1>8. ASSUME NEW s \in Visits, ShowCount(s)
      PROVE  TInv'
  <2>1. Counted' = Counted \ {s} /\ s \in Counted
    BY <1>0, <1>8 DEF ShowCount, Goes, Counted
  <2>2. count' = Cardinality(Counted')
    BY <1>0, <1>8, <2>1, SubsetSize, FS_RemoveElement DEF ShowCount
  <2> QED
    BY <1>0, <1>1, <1>3, <1>8, <2>2 DEF ShowCount
<1>9. ASSUME NEW s \in Visits, ShowLook(s)
      PROVE  TInv'
  <2>1. Goes(s, "showLook", "show") \/ Goes(s, "showLook", "done")
    BY <1>9 DEF ShowLook
  <2> QED
    BY <1>0, <1>2, <1>3, <1>9, <2>1 DEF ShowLook
<1>10. ASSUME NEW force \in BOOLEAN, TerminateMe(force)
       PROVE  TInv'
  BY <1>0, <1>2, <1>3, <1>10 DEF TerminateMe
<1>11. ASSUME NEW a \in Answers, processAuth(a)
       PROVE  TInv'
  BY <1>0, <1>2, <1>3, <1>11 DEF processAuth
<1>12. CASE UNCHANGED vars
  BY <1>12 DEF vars, ring, history, told, TypeOK, Sizes, Counted, Gone, Came
<1> QED
  BY <1>4, <1>5, <1>6, <1>7, <1>8, <1>9, <1>10, <1>11, <1>12, PanelTyped, WalkTyped
     DEF Next, Broadcasts

-----------------------------------------------------------------------------
(* The links agree on an order of the panels, however many operations on   *)
(* the list overlap: a link leads forwards and a link back leads backwards *)
(* in it, but for the one back that a new element got first.  Nothing      *)
(* leads to an element before it is linked.                                *)
Fresh ==
  \A p \in Panels : pc[p] \in {"none", "push2"} => \A n \in Nodes : next[n] # p /\ prev[n] # p

Order(beyond) ==
  /\ beyond \in [Panels -> SUBSET Panels]
  /\ \A e \in Panels : e \notin beyond[e]
  /\ \A e \in Panels : \A f \in beyond[e] : beyond[f] \subseteq beyond[e]

Follows(beyond) ==
  \A e, f \in Panels :
    /\ next[e] = f => f \in beyond[e]
    /\ prev[f] = e /\ pc[f] # "push2" => f \in beyond[e]

Ordered == \E beyond : Order(beyond) /\ Follows(beyond)

OInv == TInv /\ Fresh /\ Ordered

(* A link is set to where another one leads, to nothing, or to an element  *)
(* that is new no more.                                                    *)
LEMMA FreshKept ==
  ASSUME Fresh, NEW p \in Panels,
         \A q \in Panels : pc'[q] \in {"none", "push2"} => pc[q] \in {"none", "push2"},
         \A n \in Nodes : \/ next'[n] = Nil
                          \/ next'[n] = p /\ pc'[p] \notin {"none", "push2"}
                          \/ \E m \in Nodes : next'[n] = next[m] \/ next'[n] = prev[m],
         \A n \in Nodes : \/ prev'[n] = Nil
                          \/ prev'[n] = p /\ pc'[p] \notin {"none", "push2"}
                          \/ \E m \in Nodes : prev'[n] = next[m] \/ prev'[n] = prev[m]
  PROVE  Fresh'
<1> SUFFICES ASSUME NEW q \in Panels, pc'[q] \in {"none", "push2"}, NEW n \in Nodes
             PROVE  next'[n] # q /\ prev'[n] # q
  BY DEF Fresh
<1>1. pc[q] \in {"none", "push2"} /\ q # Nil
  BY PanelsAssumption
<1>2. \A m \in Nodes : next[m] # q /\ prev[m] # q
  BY <1>1 DEF Fresh
<1> QED
  BY <1>1, <1>2

(* A new element goes right after the last one, wherever a race put that.  *)
Placed(beyond, x, p) ==
  [e \in Panels |->
    IF e = p THEN (IF x \in Panels THEN beyond[x] ELSE Panels) \ {p}
    ELSE IF x \in Panels /\ (e = x \/ x \in beyond[e]) THEN beyond[e] \cup {p}
    ELSE beyond[e] \ {p}]

LEMMA PlacedOrder ==
  ASSUME NEW beyond, Order(beyond), NEW p \in Panels, NEW x, x # p
  PROVE  Order(Placed(beyond, x, p))
<1> DEFINE new == Placed(beyond, x, p)
<1>0. /\ beyond \in [Panels -> SUBSET Panels]
      /\ \A e \in Panels : e \notin beyond[e]
      /\ \A e \in Panels : \A f \in beyond[e] : beyond[f] \subseteq beyond[e]
  BY DEF Order
<1>1. new \in [Panels -> SUBSET Panels]
  BY <1>0 DEF Placed
<1>2. /\ new[p] = (IF x \in Panels THEN beyond[x] ELSE Panels) \ {p}
      /\ \A e \in Panels \ {p} :
           new[e] = IF x \in Panels /\ (e = x \/ x \in beyond[e])
                      THEN beyond[e] \cup {p} ELSE beyond[e] \ {p}
  BY DEF Placed
<1> HIDE DEF new
<1>3. ASSUME NEW e \in Panels
      PROVE  e \notin new[e]
  BY <1>0, <1>2
<1>4. ASSUME NEW e \in Panels, NEW f \in new[e]
      PROVE  new[f] \subseteq new[e]
  <2>1. f \in Panels
    BY <1>1
  <2>2. CASE e = p
    <3>1. f # p
      BY <1>2, <2>2
    <3>2. CASE x \in Panels
      <4>1. f \in beyond[x] /\ beyond[f] \subseteq beyond[x]
        BY <1>0, <1>2, <2>2, <3>1, <3>2
      <4>2. f # x /\ x \notin beyond[f]
        BY <1>0, <3>2, <4>1
      <4> QED
        BY <1>2, <2>1, <2>2, <3>1, <3>2, <4>1, <4>2
    <3>3. CASE x \notin Panels
      <4>1. new[f] = beyond[f] \ {p}
        BY <1>2, <2>1, <3>1, <3>3
      <4> QED
        BY <1>0, <1>2, <2>1, <2>2, <3>3, <4>1
    <3> QED
      BY <3>2, <3>3
  <2>3. CASE e # p /\ f = p
    <3>1. x \in Panels /\ (e = x \/ x \in beyond[e])
      BY <1>0, <1>2, <2>3
    <3>2. beyond[x] \subseteq beyond[e]
      BY <1>0, <3>1
    <3> QED
      BY <1>2, <2>3, <3>1, <3>2
  <2>4. CASE e # p /\ f # p
    <3>1. f \in beyond[e] /\ beyond[f] \subseteq beyond[e]
      BY <1>0, <1>2, <2>4
    <3>2. x \in Panels /\ (f = x \/ x \in beyond[f]) => x \in beyond[e]
      BY <3>1
    <3> QED
      BY <1>2, <2>1, <2>4, <3>1, <3>2
  <2> QED
    BY <2>2, <2>3, <2>4
<1>5. Order(new)
  BY <1>1, <1>3, <1>4 DEF Order
<1> QED
  BY <1>5 DEF new

LEMMA PushNextOrdered ==
  ASSUME OInv, NEW p \in Panels, PushNext(p)
  PROVE  Ordered'
<1>0. /\ Panels \subseteq Nodes /\ p \in Nodes /\ Nil \notin Panels /\ Root \notin Panels
      /\ next \in [Nodes -> Nodes \cup {Nil}] /\ pc \in [Panels -> Labels]
  BY PanelsAssumption DEF Nodes, OInv, TInv, TypeOK
<1>1. PICK beyond : Order(beyond) /\ Follows(beyond)
  BY DEF OInv, Ordered
<1>2. /\ pc[p] = "push2" /\ pc' = [pc EXCEPT ![p] = "push3"]
      /\ next' = [next EXCEPT ![p] = next[prev[p]]] /\ prev' = prev /\ prev[p] # Nil
  BY DEF PushNext, Operates, Step
<1>3. \A n \in Nodes : next[n] # p /\ prev[n] # p
  BY <1>2 DEF OInv, Fresh
<1> DEFINE x == prev[p]
<1>4. x # p /\ x \in Nodes
  BY <1>0, <1>2, <1>3 DEF OInv, TInv, TypeOK
<1>5. PICK new : new = Placed(beyond, x, p) /\ Order(new)
  BY <1>1, <1>4, PlacedOrder
<1>6. /\ new[p] = (IF x \in Panels THEN beyond[x] ELSE Panels) \ {p}
      /\ \A e \in Panels \ {p} :
           new[e] = IF x \in Panels /\ (e = x \/ x \in beyond[e])
                      THEN beyond[e] \cup {p} ELSE beyond[e] \ {p}
  BY <1>5 DEF Placed
<1>7. ASSUME NEW e \in Panels, NEW f \in Panels, next'[e] = f
      PROVE  f \in new[e]
  <2>1. CASE e = p
    <3>1. f = next[x] /\ f # p
      BY <1>0, <1>2, <1>3, <1>4, <1>7, <2>1
    <3>2. x \in Panels => f \in beyond[x]
      BY <1>1, <3>1 DEF Follows
    <3> QED
      BY <1>6, <2>1, <3>1, <3>2
  <2>2. CASE e # p
    <3>1. next[e] = f /\ f # p
      BY <1>0, <1>2, <1>3, <1>7, <2>2
    <3>2. f \in beyond[e]
      BY <1>1, <3>1 DEF Follows
    <3> QED
      BY <1>6, <2>2, <3>1, <3>2
  <2> QED
    BY <2>1, <2>2
<1>8. ASSUME NEW e \in Panels, NEW f \in Panels, prev'[f] = e, pc'[f] # "push2"
      PROVE  f \in new[e]
  <2>1. e # p /\ prev[f] = e
    BY <1>0, <1>2, <1>3, <1>8
  <2>2. CASE f = p
    BY <1>6, <2>1, <2>2
  <2>3. CASE f # p
    <3>1. f \in beyond[e]
      BY <1>0, <1>1, <1>2, <1>8, <2>1, <2>3 DEF Follows
    <3> QED
      BY <1>6, <2>1, <2>3, <3>1
  <2> QED
    BY <2>2, <2>3
<1>9. Follows(new)'
  BY <1>7, <1>8 DEF Follows
<1>10. Order(new)'
  BY <1>5 DEF Order
<1> QED
  BY <1>9, <1>10 DEF Ordered

(* The other steps of a panel leave the order as it is.                    *)
LEMMA OrderKept ==
  ASSUME OInv, NEW beyond, Order(beyond), Follows(beyond), NEW p \in Panels,
         PushAt(p) \/ RemoveLink(p) \/ LinkPanic(p) \/ (localHandler(p) /\ ~PushNext(p))
  PROVE  Follows(beyond)'
<1>0. /\ Panels \subseteq Nodes /\ p \in Nodes /\ Nil \notin Panels /\ Root \notin Panels
      /\ next \in [Nodes -> Nodes \cup {Nil}] /\ prev \in [Nodes -> Nodes \cup {Nil}]
      /\ pc \in [Panels -> Labels]
  BY PanelsAssumption DEF Nodes, OInv, TInv, TypeOK
<1>1. \A e, f \in Panels : next[e] = f => f \in beyond[e]
  BY DEF Follows
<1>2. \A e, f \in Panels : prev[f] = e /\ pc[f] # "push2" => f \in beyond[e]
  BY DEF Follows
<1>3. \A e, f, g \in Panels : f \in beyond[e] /\ g \in beyond[f] => g \in beyond[e]
  BY DEF Order
<1>4. ASSUME NEW m, m # "push2", pc' = [pc EXCEPT ![p] = m], UNCHANGED <<next, prev>>,
             pc[p] # "push2"
      PROVE  Follows(beyond)'
  BY <1>0, <1>1, <1>2, <1>4 DEF Follows
<1>5. CASE PushAt(p)
  <2>1. pc'[p] = "push2" /\ UNCHANGED next
        /\ \A f \in Panels \ {p} : prev'[f] = prev[f] /\ pc'[f] = pc[f]
    BY <1>0, <1>5 DEF PushAt, Operates, Step
  <2> QED
    BY <1>1, <1>2, <2>1 DEF Follows
<1>6. ASSUME pc[p] # "push2", NEW m, m # "push2", pc' = [pc EXCEPT ![p] = m],
             NEW x \in Nodes, NEW y \in Nodes,
             \/ next' = [next EXCEPT ![x] = y] /\ prev' = prev
             \/ prev' = [prev EXCEPT ![y] = x] /\ next' = next,
             x \in Panels /\ y \in Panels => y \in beyond[x]
      PROVE  Follows(beyond)'
  <2>1. \A f \in Panels : pc'[f] # "push2" => pc[f] # "push2"
    BY <1>0, <1>6
  <2>2. \A n \in Nodes : /\ next'[n] = next[n] \/ (n = x /\ next'[n] = y)
                         /\ prev'[n] = prev[n] \/ (n = y /\ prev'[n] = x)
    BY <1>0, <1>6
  <2>3. ASSUME NEW e \in Panels, NEW f \in Panels, next'[e] = f
        PROVE  f \in beyond[e]
    BY <1>0, <1>1, <1>6, <2>2, <2>3
  <2>4. ASSUME NEW e \in Panels, NEW f \in Panels, prev'[f] = e, pc'[f] # "push2"
        PROVE  f \in beyond[e]
    BY <1>0, <1>2, <1>6, <2>1, <2>2, <2>4
  <2> QED
    BY <2>3, <2>4 DEF Follows
<1>7. CASE PushLink(p)
  <2>1. /\ pc[p] = "push3" /\ pc' = [pc EXCEPT ![p] = "push4"] /\ prev[p] # Nil
        /\ next' = [next EXCEPT ![prev[p]] = p] /\ prev' = prev
    BY <1>7 DEF PushLink, Operates, Step
  <2> QED
    BY <1>0, <1>2, <1>6, <2>1
<1>8. CASE PushBackLink(p)
  <2>1. /\ pc[p] = "push4" /\ pc' = [pc EXCEPT ![p] = "push5"] /\ next[p] # Nil
        /\ prev' = [prev EXCEPT ![next[p]] = p] /\ next' = next
    BY <1>8 DEF PushBackLink, Operates, Step
  <2> QED
    BY <1>0, <1>1, <1>6, <2>1
<1>9. prev[p] \in Panels /\ next[p] \in Panels /\ pc[p] # "push2" => next[p] \in beyond[prev[p]]
  <2> SUFFICES ASSUME prev[p] \in Panels, next[p] \in Panels, pc[p] # "push2"
               PROVE  next[p] \in beyond[prev[p]]
    OBVIOUS
  <2>1. p \in beyond[prev[p]]
    BY <1>2
  <2>2. next[p] \in beyond[p]
    BY <1>1
  <2> QED
    BY <1>3, <2>1, <2>2
<1>10. CASE RemoveLink(p)
  <2>1. /\ pc[p] = "read" /\ pc' = [pc EXCEPT ![p] = "remove2"] /\ prev[p] # Nil
        /\ next' = [next EXCEPT ![prev[p]] = next[p]] /\ prev' = prev
    BY <1>10 DEF RemoveLink, Operates, Step
  <2>2. CASE next[p] = Nil
    <3>1. \A e \in Panels : next'[e] = next[e] \/ next'[e] = Nil
      BY <1>0, <2>1, <2>2
    <3>2. \A f \in Panels : pc'[f] # "push2" => pc[f] # "push2"
      BY <1>0, <2>1
    <3> QED
      BY <1>0, <1>1, <1>2, <2>1, <3>1, <3>2 DEF Follows
  <2>3. CASE next[p] # Nil
    <3>1. prev[p] \in Nodes /\ next[p] \in Nodes
      BY <1>0, <2>1, <2>3
    <3> QED
      BY <1>6, <1>9, <2>1, <3>1
  <2> QED
    BY <2>2, <2>3
<1>11. CASE RemoveBackLink(p)
  <2>1. /\ pc[p] = "remove2" /\ pc' = [pc EXCEPT ![p] = "remove3"] /\ next[p] # Nil
        /\ prev' = [prev EXCEPT ![next[p]] = prev[p]] /\ next' = next
    BY <1>11 DEF RemoveBackLink, Operates, Step
  <2>2. CASE prev[p] = Nil
    <3>1. \A f \in Panels : prev'[f] = prev[f] \/ prev'[f] = Nil
      BY <1>0, <2>1, <2>2
    <3>2. \A f \in Panels : pc'[f] # "push2" => pc[f] # "push2"
      BY <1>0, <2>1
    <3> QED
      BY <1>0, <1>1, <1>2, <2>1, <3>1, <3>2 DEF Follows
  <2>3. CASE prev[p] # Nil
    <3>1. prev[p] \in Nodes /\ next[p] \in Nodes
      BY <1>0, <2>1, <2>3
    <3> QED
      BY <1>6, <1>9, <2>1, <3>1
  <2> QED
    BY <2>2, <2>3
<1>12. CASE RemoveOwn(p)
  <2>1. /\ pc' = [pc EXCEPT ![p] = "done"]
        /\ next' = [next EXCEPT ![p] = Nil] /\ prev' = [prev EXCEPT ![p] = Nil]
    BY <1>12 DEF RemoveOwn, Step
  <2>2. \A e \in Panels : /\ next'[e] = next[e] \/ next'[e] = Nil
                          /\ prev'[e] = prev[e] \/ prev'[e] = Nil
                          /\ pc'[e] # "push2" => pc[e] # "push2" \/ prev'[e] = Nil
    BY <1>0, <2>1
  <2> QED
    BY <1>0, <1>1, <1>2, <2>2 DEF Follows
<1>13. CASE PushOwn(p) \/ GreetLook(p) \/ GreetSend(p)
  <2>1. PICK m \in {"greet", "masked", "real", "read"} :
          /\ pc[p] # "push2" /\ pc' = [pc EXCEPT ![p] = m]
          /\ UNCHANGED <<next, prev>>
    BY <1>13 DEF PushOwn, GreetLook, GreetSend, Operates, Step, ring
  <2> QED
    BY <1>4, <2>1
<1>14. CASE LinkPanic(p)
  BY <1>14 DEF LinkPanic, ring, Follows
<1> QED
  BY <1>5, <1>7, <1>8, <1>10, <1>11, <1>12, <1>13, <1>14 DEF localHandler

LEMMA PanelFresh ==
  ASSUME OInv, NEW p \in Panels,
         PushAt(p) \/ localHandler(p) \/ RemoveLink(p) \/ LinkPanic(p)
  PROVE  Fresh'
<1>0. /\ Panels \subseteq Nodes /\ p \in Nodes /\ Root \in Nodes /\ p # Nil
      /\ next \in [Nodes -> Nodes \cup {Nil}] /\ prev \in [Nodes -> Nodes \cup {Nil}]
      /\ pc \in [Panels -> Labels] /\ Fresh
  BY PanelsAssumption DEF Nodes, OInv, TInv, TypeOK
<1>1. ASSUME NEW m, pc' = [pc EXCEPT ![p] = m],
             m \in {"none", "push2"} => pc[p] \in {"none", "push2"},
             NEW x \in Nodes, NEW v,
             \/ v = Nil
             \/ v = p /\ m \notin {"none", "push2"}
             \/ \E n \in Nodes : v = next[n] \/ v = prev[n],
             next' = next \/ next' = [next EXCEPT ![x] = v],
             prev' = prev \/ prev' = [prev EXCEPT ![x] = v]
      PROVE  Fresh'
  <2>1. \A q \in Panels : pc'[q] \in {"none", "push2"} => pc[q] \in {"none", "push2"}
    BY <1>0, <1>1
  <2>2. pc'[p] = m
    BY <1>0, <1>1
  <2>3. \A n \in Nodes : /\ next'[n] = next[n] \/ next'[n] = v
                         /\ prev'[n] = prev[n] \/ prev'[n] = v
    BY <1>0, <1>1
  <2> QED
    BY <1>0, <1>1, <2>1, <2>2, <2>3, FreshKept
<1>2. CASE PushAt(p)
  <2>1. /\ pc[p] = "none" /\ pc' = [pc EXCEPT ![p] = "push2"] /\ next' = next
        /\ prev' = [prev EXCEPT ![p] = prev[Root]]
    BY <1>2 DEF PushAt, Operates, Step
  <2> QED
    BY <1>0, <1>1, <2>1
<1>3. CASE PushNext(p)
  <2>1. /\ pc' = [pc EXCEPT ![p] = "push3"] /\ prev' = prev /\ prev[p] # Nil
        /\ next' = [next EXCEPT ![p] = next[prev[p]]]
    BY <1>3 DEF PushNext, Operates, Step
  <2> QED
    BY <1>0, <1>1, <2>1
<1>4. CASE PushLink(p)
  <2>1. /\ pc' = [pc EXCEPT ![p] = "push4"] /\ prev' = prev /\ prev[p] # Nil
        /\ next' = [next EXCEPT ![prev[p]] = p]
    BY <1>4 DEF PushLink, Operates, Step
  <2>2. prev[p] \in Nodes /\ "push4" \notin {"none", "push2"}
    BY <1>0, <2>1
  <2> QED
    BY <1>1, <2>1, <2>2
<1>5. CASE PushBackLink(p)
  <2>1. /\ pc' = [pc EXCEPT ![p] = "push5"] /\ next' = next /\ next[p] # Nil
        /\ prev' = [prev EXCEPT ![next[p]] = p]
    BY <1>5 DEF PushBackLink, Operates, Step
  <2>2. next[p] \in Nodes /\ "push5" \notin {"none", "push2"}
    BY <1>0, <2>1
  <2> QED
    BY <1>1, <2>1, <2>2
<1>6. CASE RemoveLink(p)
  <2>1. /\ pc' = [pc EXCEPT ![p] = "remove2"] /\ prev' = prev /\ prev[p] # Nil
        /\ next' = [next EXCEPT ![prev[p]] = next[p]]
    BY <1>6 DEF RemoveLink, Operates, Step
  <2>2. \E n \in Nodes : next[p] = next[n] \/ next[p] = prev[n]
    BY <1>0
  <2>3. prev[p] \in Nodes
    BY <1>0, <2>1
  <2> QED
    BY <1>1, <2>1, <2>2, <2>3
<1>7. CASE RemoveBackLink(p)
  <2>1. /\ pc' = [pc EXCEPT ![p] = "remove3"] /\ next' = next /\ next[p] # Nil
        /\ prev' = [prev EXCEPT ![next[p]] = prev[p]]
    BY <1>7 DEF RemoveBackLink, Operates, Step
  <2>2. \E n \in Nodes : prev[p] = next[n] \/ prev[p] = prev[n]
    BY <1>0
  <2>3. next[p] \in Nodes
    BY <1>0, <2>1
  <2> QED
    BY <1>1, <2>1, <2>2, <2>3
<1>8. CASE RemoveOwn(p)
  <2>1. /\ pc' = [pc EXCEPT ![p] = "done"]
        /\ next' = [next EXCEPT ![p] = Nil] /\ prev' = [prev EXCEPT ![p] = Nil]
    BY <1>8 DEF RemoveOwn, Step
  <2> QED
    BY <1>0, <1>1, <2>1
<1>9. CASE PushOwn(p) \/ GreetLook(p) \/ GreetSend(p)
  <2>1. PICK m \in {"greet", "masked", "real", "read"} :
          pc' = [pc EXCEPT ![p] = m] /\ UNCHANGED <<next, prev>>
    BY <1>9 DEF PushOwn, GreetLook, GreetSend, Operates, Step, ring
  <2> QED
    BY <1>0, <1>1, <2>1
<1>10. CASE LinkPanic(p)
  BY <1>0, <1>10 DEF LinkPanic, ring, Fresh
<1> QED
  BY <1>2, <1>3, <1>4, <1>5, <1>6, <1>7, <1>8, <1>9, <1>10 DEF localHandler

(* Walks and what goes on around them leave the list alone.                *)
LEMMA BroadcastsApart ==
  ASSUME Broadcasts \/ UNCHANGED vars
  PROVE  UNCHANGED <<pc, next, prev, owner, len>>
<1>1. ASSUME NEW w \in Walkers, sendMessageToLocalCons(w)
      PROVE  UNCHANGED <<pc, ring>>
  BY <1>1 DEF sendMessageToLocalCons, WalkTo, WalkPanic, WalkEnd
<1>2. CASE MainDials \/ MainLoses
  BY <1>2 DEF MainDials, MainLoses, Goes, ring
<1>3. ASSUME NEW s \in Visits, HideCount(s) \/ HideLook(s) \/ ShowCount(s) \/ ShowLook(s)
      PROVE  UNCHANGED <<pc, ring>>
  BY <1>3 DEF HideCount, HideLook, ShowCount, ShowLook, Goes
<1>4. ASSUME NEW force \in BOOLEAN, TerminateMe(force)
      PROVE  UNCHANGED <<pc, ring>>
  BY <1>4 DEF TerminateMe, Goes
<1>5. ASSUME NEW a \in Answers, processAuth(a)
      PROVE  UNCHANGED <<pc, ring>>
  BY <1>5 DEF processAuth, Goes
<1> QED
  BY <1>1, <1>2, <1>3, <1>4, <1>5 DEF Broadcasts, vars, ring

LEMMA NextOInv == OInv /\ [Next]_vars => OInv'
<1> SUFFICES ASSUME OInv, [Next]_vars
             PROVE  OInv'
  OBVIOUS
<1>1. TInv'
  BY NextTInv DEF OInv
<1>2. ASSUME NEW p \in Panels,
             PushAt(p) \/ localHandler(p) \/ RemoveLink(p) \/ LinkPanic(p)
      PROVE  Fresh' /\ Ordered'
  <2>1. Fresh'
    BY <1>2, PanelFresh
  <2>2. CASE PushNext(p)
    BY <2>1, <2>2, PushNextOrdered
  <2>3. CASE ~PushNext(p)
    <3>1. PICK beyond : Order(beyond) /\ Follows(beyond)
      BY DEF OInv, Ordered
    <3>2. Follows(beyond)'
      BY <1>2, <2>3, <3>1, OrderKept
    <3>3. Order(beyond)'
      BY <3>1 DEF Order
    <3> QED
      BY <2>1, <3>2, <3>3 DEF Ordered
  <2> QED
    BY <2>2, <2>3
<1>3. CASE Broadcasts \/ UNCHANGED vars
  <2>1. UNCHANGED <<pc, next, prev>>
    BY <1>3, BroadcastsApart
  <2> QED
    BY <1>1, <2>1 DEF OInv, Fresh, Ordered, Order, Follows
<1> QED
  BY <1>1, <1>2, <1>3 DEF Next, OInv

(* In an order without end among finitely many panels some panel is last.  *)
LEMMA SomeLast ==
  ASSUME NEW beyond, Order(beyond), NEW T \in SUBSET Panels, T # {}
  PROVE  \E e \in T : beyond[e] \cap T = {}
<1> DEFINE Sets == {beyond[e] : e \in T}
<1>1. Sets \subseteq FiniteSubsetsOf(Panels) /\ Sets # {}
  <2>1. FiniteSubsetsOf(Panels) = SUBSET Panels
    BY PanelsAssumption, FS_FiniteSubsetsOfFinite
  <2> QED
    BY <2>1 DEF Order
<1>2. PICK A \in Sets : \A B \in Sets : <<B, A>> \notin StrictSubsetOrdering(Panels)
  <2> HIDE DEF Sets
  <2> QED
    BY <1>1, FS_StrictSubsetOrderingWellFounded, WFMin
<1>3. PICK e \in T : A = beyond[e]
  BY <1>2
<1>4. ASSUME NEW f \in beyond[e] \cap T
      PROVE  FALSE
  <2>1. beyond[f] \subseteq beyond[e] /\ f \notin beyond[f] /\ beyond[e] \subseteq Panels
    BY <1>4 DEF Order
  <2>2. <<beyond[f], beyond[e]>> \in StrictSubsetOrdering(Panels)
    BY <1>4, <2>1 DEF StrictSubsetOrdering
  <2> QED
    BY <1>2, <1>3, <1>4, <2>2
<1> QED
  BY <1>3, <1>4

LEMMA InitOInv == Init => OInv
<1> SUFFICES ASSUME Init PROVE OInv
  OBVIOUS
<1>1. \A n \in Nodes, p \in Panels : next[n] # p /\ prev[n] # p
  BY PanelsAssumption DEF Init, Nodes
<1>2. Fresh
  BY <1>1 DEF Fresh
<1>3. Order([e \in Panels |-> {}]) /\ Follows([e \in Panels |-> {}])
  BY <1>1 DEF Order, Follows, Nodes
<1> QED
  BY <1>2, <1>3, InitTInv DEF OInv, Ordered

-----------------------------------------------------------------------------
(* Rings.  nx and pv lead once round B, forwards and backwards.            *)
Ring(nx, pv, B) ==
  /\ Root \in B
  /\ \A n \in B : nx[n] \in B /\ pv[n] \in B /\ pv[nx[n]] = n /\ nx[pv[n]] = n
  /\ \A T \in SUBSET B : Root \in T /\ (\A n \in T : nx[n] \in T) => T = B

(* p comes after e, before the root does: whoever follows nx from e meets  *)
(* it.                                                                     *)
Reaches(nx, B, e, p) ==
  \A T \in SUBSET B : nx[e] \in T /\ (\A n \in T \ {Root} : nx[n] \in T) => p \in T

(* Only the links of the ring's own elements matter.                       *)
LEMMA RingSame ==
  ASSUME NEW nx, NEW pv, NEW nx2, NEW pv2, NEW B, Ring(nx, pv, B),
         \A n \in B : nx2[n] = nx[n] /\ pv2[n] = pv[n]
  PROVE  Ring(nx2, pv2, B)
<1>1. \A n \in B : nx2[n] \in B /\ pv2[n] \in B /\ pv2[nx2[n]] = n /\ nx2[pv2[n]] = n
  BY DEF Ring
<1>2. \A T \in SUBSET B : Root \in T /\ (\A n \in T : nx2[n] \in T) => T = B
  BY DEF Ring
<1> QED
  BY <1>1, <1>2 DEF Ring

(* An element that leads to itself is all of the ring.                     *)
LEMMA RingAlone ==
  ASSUME NEW nx, NEW pv, NEW B, Ring(nx, pv, B), NEW e \in B, nx[e] = e
  PROVE  B = {e} /\ e = Root
<1>1. CASE e = Root
  <2>1. {e} \in SUBSET B /\ Root \in {e} /\ \A n \in {e} : nx[n] \in {e}
    BY <1>1
  <2>2. {e} = B
    BY <2>1 DEF Ring
  <2> QED
    BY <1>1, <2>2
<1>2. CASE e # Root
  <2>1. \A n \in B \ {e} : nx[n] \in B \ {e}
    BY DEF Ring
  <2>2. B \ {e} \in SUBSET B /\ Root \in B \ {e}
    BY <1>2 DEF Ring
  <2>3. B \ {e} = B
    BY <2>1, <2>2 DEF Ring
  <2> QED
    BY <2>3
<1> QED
  BY <1>1, <1>2

(* The new element p is linked between the last one and the root.          *)
LEMMA RingInsert ==
  ASSUME NEW nx, NEW pv, NEW nx2, NEW pv2, NEW B, NEW p, Ring(nx, pv, B), p \notin B,
         nx2[pv[Root]] = p, nx2[p] = Root, \A n \in B \ {pv[Root]} : nx2[n] = nx[n],
         pv2[Root] = p, pv2[p] = pv[Root], \A n \in B \ {Root} : pv2[n] = pv[n]
  PROVE  Ring(nx2, pv2, B \cup {p})
<1> DEFINE x == pv[Root]
<1>0. /\ Root \in B /\ x \in B /\ nx[x] = Root
      /\ \A n \in B : nx[n] \in B /\ pv[n] \in B /\ pv[nx[n]] = n /\ nx[pv[n]] = n
  BY DEF Ring
<1>1. ASSUME NEW n \in B \cup {p}
      PROVE  nx2[n] \in B \cup {p} /\ pv2[nx2[n]] = n
  <2>1. CASE n = p \/ n = x
    BY <1>0, <2>1
  <2>2. CASE n # p /\ n # x
    <3>1. n \in B /\ nx2[n] = nx[n] /\ nx[n] \in B /\ nx[n] # Root
      BY <1>0, <2>2
    <3> QED
      BY <1>0, <3>1
  <2> QED
    BY <2>1, <2>2
<1>2. ASSUME NEW n \in B \cup {p}
      PROVE  pv2[n] \in B \cup {p} /\ nx2[pv2[n]] = n
  <2>1. CASE n = p \/ n = Root
    BY <1>0, <2>1
  <2>2. CASE n # p /\ n # Root
    <3>1. n \in B /\ pv2[n] = pv[n] /\ pv[n] \in B /\ pv[n] # x
      BY <1>0, <2>2
    <3> QED
      BY <1>0, <3>1
  <2> QED
    BY <2>1, <2>2
<1>3. ASSUME NEW T \in SUBSET (B \cup {p}), Root \in T, \A n \in T : nx2[n] \in T
      PROVE  T = B \cup {p}
  <2>1. \A n \in T \ {p} : nx[n] \in T \ {p}
    BY <1>0, <1>3
  <2>2. T \ {p} \in SUBSET B /\ Root \in T \ {p}
    BY <1>0, <1>3
  <2>3. T \ {p} = B
    BY <2>1, <2>2 DEF Ring
  <2>4. p \in T
    BY <1>0, <1>3, <2>3
  <2> QED
    BY <2>3, <2>4
<1> QED
  BY <1>0, <1>1, <1>2, <1>3 DEF Ring

(* The element q is linked out.                                            *)
LEMMA RingRemove ==
  ASSUME NEW nx, NEW pv, NEW nx2, NEW pv2, NEW B, NEW q \in B, Ring(nx, pv, B), q # Root,
         nx2[pv[q]] = nx[q], \A n \in B \ {pv[q]} : nx2[n] = nx[n],
         pv2[nx[q]] = pv[q], \A n \in B \ {nx[q]} : pv2[n] = pv[n]
  PROVE  /\ Ring(nx2, pv2, B \ {q})
         /\ nx[q] \in B \ {q} /\ pv[q] \in B \ {q}
<1>0. /\ Root \in B
      /\ \A n \in B : nx[n] \in B /\ pv[n] \in B /\ pv[nx[n]] = n /\ nx[pv[n]] = n
  BY DEF Ring
<1>1. nx[q] \in B \ {q} /\ pv[q] \in B \ {q}
  <2>1. nx[q] # q
    BY RingAlone
  <2> QED
    BY <1>0, <2>1
<1>2. ASSUME NEW n \in B \ {q}
      PROVE  nx2[n] \in B \ {q} /\ pv2[nx2[n]] = n
  <2>1. CASE n = pv[q]
    BY <1>0, <1>1, <2>1
  <2>2. CASE n # pv[q]
    <3>1. nx2[n] = nx[n] /\ nx[n] \in B /\ nx[n] # q /\ nx[n] # nx[q]
      BY <1>0, <1>2, <2>2
    <3> QED
      BY <1>0, <3>1
  <2> QED
    BY <2>1, <2>2
<1>3. ASSUME NEW n \in B \ {q}
      PROVE  pv2[n] \in B \ {q} /\ nx2[pv2[n]] = n
  <2>1. CASE n = nx[q]
    BY <1>0, <1>1, <2>1
  <2>2. CASE n # nx[q]
    <3>1. pv2[n] = pv[n] /\ pv[n] \in B /\ pv[n] # q /\ pv[n] # pv[q]
      BY <1>0, <1>3, <2>2
    <3> QED
      BY <1>0, <3>1
  <2> QED
    BY <2>1, <2>2
<1>4. ASSUME NEW T \in SUBSET (B \ {q}), Root \in T, \A n \in T : nx2[n] \in T
      PROVE  T = B \ {q}
  <2> DEFINE U == IF pv[q] \in T THEN T \cup {q} ELSE T
  <2>1. \A n \in U : nx[n] \in U
    <3>1. ASSUME NEW n \in T, n # pv[q]
          PROVE  nx[n] \in T
      BY <1>4, <3>1
    <3>2. CASE pv[q] \in T
      BY <1>0, <1>4, <3>1, <3>2
    <3>3. CASE pv[q] \notin T
      BY <3>1, <3>3
    <3> QED
      BY <3>2, <3>3
  <2>2. U \in SUBSET B /\ Root \in U
    BY <1>0, <1>4
  <2>3. U = B
    <3> HIDE DEF U
    <3> QED
      BY <2>1, <2>2 DEF Ring
  <2> QED
    BY <2>3
<1> QED
  BY <1>0, <1>1, <1>2, <1>3, <1>4 DEF Ring

(* Linking an element in before the root hides none of the others from a   *)
(* walk ...                                                                *)
LEMMA ReachesInsert ==
  ASSUME NEW nx, NEW nx2, NEW B, NEW x, NEW q, NEW e, NEW p, Root \in B, x \in B, q \notin B,
         \A n \in B : nx[n] \in B, nx[x] = Root, nx2[x] = q, nx2[q] = Root, \A n \in B \ {x} : nx2[n] = nx[n],
         e \in B \/ (nx2[e] = nx[e] /\ e # q), nx[e] \in B, p \in B, Reaches(nx, B, e, p)
  PROVE  Reaches(nx2, B \cup {q}, e, p)
<1> SUFFICES ASSUME NEW T \in SUBSET (B \cup {q}), nx2[e] \in T,
                    \A n \in T \ {Root} : nx2[n] \in T
             PROVE  p \in T
  BY DEF Reaches
<1>1. q # Root
  OBVIOUS
<1>2. q \in T => Root \in T
  BY <1>1
<1>3. nx[e] \in T \ {q}
  <2>1. CASE e = x
    BY <1>1, <1>2, <2>1
  <2>2. CASE e # x
    BY <2>2
  <2> QED
    BY <2>1, <2>2
<1>4. ASSUME NEW n \in (T \ {q}) \ {Root}
      PROVE  nx[n] \in T \ {q}
  <2>1. n \in B /\ nx[n] # q /\ nx2[n] \in T
    OBVIOUS
  <2>2. CASE n = x
    BY <1>1, <1>2, <2>1, <2>2
  <2>3. CASE n # x
    BY <2>1, <2>3
  <2> QED
    BY <2>2, <2>3
<1>5. PICK U \in SUBSET B : U = T \ {q}
  OBVIOUS
<1>6. nx[e] \in U /\ \A n \in U \ {Root} : nx[n] \in U
  BY <1>3, <1>4, <1>5
<1>7. p \in U
  BY <1>6 DEF Reaches
<1> QED
  BY <1>5, <1>7

(* ... nor does linking one out, wherever the walk stands.                 *)
LEMMA ReachesRemove ==
  ASSUME NEW nx, NEW nx2, NEW B, NEW x, NEW q, NEW e, NEW p, x \in B, q \in B, q # Root,
         nx[x] = q, nx2[x] = nx[q], nx[q] \in B \ {q}, q # x, \A n \in B \ {x} : nx2[n] = nx[n],
         e \in B \/ nx2[e] = nx[e], p \in B \ {q}, Reaches(nx, B, e, p)
  PROVE  Reaches(nx2, B \ {q}, e, p)
<1> SUFFICES ASSUME NEW T \in SUBSET (B \ {q}), nx2[e] \in T,
                    \A n \in T \ {Root} : nx2[n] \in T
             PROVE  p \in T
  BY DEF Reaches
<1> DEFINE U == IF x \in T \ {Root} \/ e = x THEN T \cup {q} ELSE T
<1>1. U \in SUBSET B /\ T \subseteq U
  OBVIOUS
<1>2. x \in T \ {Root} \/ e = x => nx[q] \in T
  OBVIOUS
<1>3. nx[e] \in U
  <2>1. CASE e = x
    BY <2>1
  <2>2. CASE e # x
    <3>1. nx2[e] = nx[e]
      BY <2>2
    <3> QED
      BY <1>1, <3>1
  <2> QED
    BY <2>1, <2>2
<1>4. ASSUME NEW n \in U \ {Root}
      PROVE  nx[n] \in U
  <2>1. CASE n = q
    BY <1>1, <1>2, <1>4, <2>1
  <2>2. CASE n = x
    BY <1>4, <2>2
  <2>3. CASE n # q /\ n # x
    <3>1. n \in T \ {Root} /\ nx2[n] = nx[n]
      BY <1>4, <2>3
    <3> QED
      BY <1>1, <3>1
  <2> QED
    BY <2>1, <2>2, <2>3
<1>5. p \in U
  <2> HIDE DEF U
  <2> QED
    BY <1>1, <1>3, <1>4 DEF Reaches
<1> QED
  BY <1>5

(* From one element to the next a walk leaves no other behind ...          *)
LEMMA ReachesNext ==
  ASSUME NEW nx, NEW B, NEW e, NEW p, nx[e] \in B, p # nx[e], Reaches(nx, B, e, p)
  PROVE  Reaches(nx, B, nx[e], p)
<1> SUFFICES ASSUME NEW T \in SUBSET B, nx[nx[e]] \in T, \A n \in T \ {Root} : nx[n] \in T
             PROVE  p \in T
  BY DEF Reaches
<1>1. T \cup {nx[e]} \in SUBSET B /\ nx[e] \in T \cup {nx[e]}
  OBVIOUS
<1>2. \A n \in (T \cup {nx[e]}) \ {Root} : nx[n] \in T \cup {nx[e]}
  OBVIOUS
<1>3. p \in T \cup {nx[e]}
  BY <1>1, <1>2 DEF Reaches
<1> QED
  BY <1>3

(* ... it begins before all of them ...                                    *)
LEMMA ReachesFirst ==
  ASSUME NEW nx, NEW pv, NEW B, Ring(nx, pv, B), NEW p \in B, p # Root, p # nx[Root]
  PROVE  Reaches(nx, B, nx[Root], p)
<1> DEFINE f == nx[Root]
<1> SUFFICES ASSUME NEW T \in SUBSET B, nx[f] \in T, \A n \in T \ {Root} : nx[n] \in T
             PROVE  p \in T
  BY DEF Reaches
<1>1. T \cup {f, Root} \in SUBSET B /\ Root \in T \cup {f, Root}
  BY DEF Ring
<1>2. \A n \in T \cup {f, Root} : nx[n] \in T \cup {f, Root}
  OBVIOUS
<1>3. T \cup {f, Root} = B
  BY <1>1, <1>2 DEF Ring
<1> QED
  BY <1>3

(* ... and ends when none is left.                                         *)
LEMMA ReachesNone ==
  ASSUME NEW nx, NEW B, Root \in B, NEW e, NEW p, p # Root, nx[e] = Root
  PROVE  ~Reaches(nx, B, e, p)
<1>1. {Root} \in SUBSET B /\ nx[e] \in {Root} /\ \A n \in {Root} \ {Root} : nx[n] \in {Root}
  OBVIOUS
<1> QED
  BY <1>1 DEF Reaches

-----------------------------------------------------------------------------
(* The list while no two operations on it overlapped: one panel at most is *)
(* in the middle of one, and what it has linked already, with the link     *)
(* back that it still owes, is a ring through the root.                    *)
Linked == {"greet", "masked", "real", "read", "push4", "push5"}
Body == {p \in Panels : pc[p] \in Linked} \cup {Root}

Owns == \A p \in Panels :
  owner[p] <=> pc[p] \in {"greet", "masked", "real", "read", "remove2", "remove3"}

Alone == \A p, q \in Panels : pc[p] \in Linking /\ pc[q] \in Linking => p = q

Length == len = Cardinality({p \in Panels : owner[p]})

Stage(p) ==
  /\ pc[p] \in {"push2", "push3"} => prev[p] = prev[Root]
  /\ pc[p] \in {"push3", "push4"} => next[p] = Root
  /\ pc[p] = "push4" => Ring(next, [prev EXCEPT ![next[p]] = p], Body)
  /\ pc[p] = "remove2" => /\ next[p] \in Body /\ prev[p] \in Body
                          /\ Ring(next, [prev EXCEPT ![next[p]] = prev[p]], Body)
  /\ pc[p] = "remove3" => next[p] \in Body
  /\ pc[p] = "done" => next[p] = Nil

Shape ==
  /\ (\A p \in Panels : pc[p] \notin {"push4", "remove2"}) => Ring(next, prev, Body)
  /\ \A p \in Panels : Stage(p)
  /\ \A n \in Body : prev[n] # Nil

Whole == Alone /\ Length /\ Shape

RInv == TInv /\ Owns /\ (~raced => Whole)

LEMMA BodyStep ==
  ASSUME TInv, NEW p \in Panels, NEW m, pc' = [pc EXCEPT ![p] = m]
  PROVE  Body' = IF m \in Linked THEN Body \cup {p} ELSE Body \ {p}
<1>1. pc'[p] = m /\ \A q \in Panels \ {p} : pc'[q] = pc[q]
  BY DEF TInv, TypeOK
<1>2. p # Root
  BY PanelsAssumption
<1> QED
  BY <1>1, <1>2 DEF Body

(* After a step of one panel, the others not being at the list, its own    *)
(* stage and the ring are all there is to see.                             *)
LEMMA ShapeStep ==
  ASSUME TInv, NEW p \in Panels, NEW m, pc' = [pc EXCEPT ![p] = m],
         ~Meets(p), Stage(p)', m \notin {"push4", "remove2"} => Ring(next', prev', Body'),
         m \in {"push4", "remove2"} => \A n \in Body' : prev'[n] # Nil,
         \A q \in Panels \ {p} : pc[q] = "done" => next'[q] = Nil
  PROVE  Alone' /\ Shape'
<1>1. pc'[p] = m /\ \A q \in Panels \ {p} : pc'[q] = pc[q] /\ pc[q] \notin Linking
  BY DEF TInv, TypeOK, Meets
<1>2. Alone'
  BY <1>1 DEF Alone
<1>3. ASSUME NEW q \in Panels \ {p}
      PROVE  Stage(q)'
  <2>1. pc'[q] = pc[q] /\ pc[q] \notin Linking
    BY <1>1
  <2>2. pc[q] = "done" => next'[q] = Nil
    OBVIOUS
  <2> QED
    BY <2>1, <2>2 DEF Stage, Linking
<1>4. (\A q \in Panels : pc'[q] \notin {"push4", "remove2"}) => Ring(next', prev', Body')
  BY <1>1
<1>5. \A q \in Panels : Stage(q)'
  BY <1>3
<1>6. (Ring(next, prev, Body))' <=> Ring(next', prev', Body')
  BY DEF Ring
<1>7. Nil \notin Body'
  BY PanelsAssumption DEF Body, Nodes
<1>8. \A n \in Body' : prev'[n] # Nil
  BY <1>7 DEF Ring
<1> QED
  BY <1>2, <1>4, <1>5, <1>6, <1>8 DEF Shape

(* Before it, the ring is whole but for what the panel's own stage owes.   *)
LEMMA ShapeBefore ==
  ASSUME TInv, Whole, NEW p \in Panels, ~Meets(p)
  PROVE  /\ pc[p] \notin {"push4", "remove2"} => Ring(next, prev, Body)
         /\ Stage(p)
         /\ \A q \in Panels \ {p} : pc[q] = "done" => next[q] = Nil
         /\ \A n \in Body : prev[n] # Nil
<1>1. \A q \in Panels \ {p} : pc[q] \notin {"push4", "remove2"}
  BY DEF Meets, Linking
<1> QED
  BY <1>1 DEF Whole, Shape, Stage

(* The length is that of the panels that own their element.                *)
LEMMA OwnersStep ==
  ASSUME TInv, Length, NEW p \in Panels, ~Meets(p),
         \/ owner' = [owner EXCEPT ![p] = TRUE] /\ ~owner[p] /\ Adds(p, 1)
         \/ owner' = [owner EXCEPT ![p] = FALSE] /\ owner[p] /\ Adds(p, -1)
         \/ owner' = owner /\ len' = len
  PROVE  Length'
<1> DEFINE O == {q \in Panels : owner[q]}
<1>0. O \in SUBSET Panels /\ owner \in [Panels -> BOOLEAN] /\ len = Cardinality(O) /\ len \in Int
  BY DEF Length, TInv, TypeOK
<1>1. \A d : Adds(p, d) => len' = len + d
  BY DEF Adds, Meets, Linking
<1>2. CASE owner' = [owner EXCEPT ![p] = TRUE] /\ ~owner[p] /\ Adds(p, 1)
  <2>1. O' = O \cup {p} /\ p \notin O
    BY <1>0, <1>2
  <2>2. Cardinality(O') = Cardinality(O) + 1
    <3> HIDE DEF O
    <3> QED
      BY <1>0, <2>1, SubsetSize, FS_AddElement
  <2>3. len' = len + 1
    BY <1>1, <1>2
  <2> QED
    BY <1>0, <2>2, <2>3 DEF Length
<1>3. CASE owner' = [owner EXCEPT ![p] = FALSE] /\ owner[p] /\ Adds(p, -1)
  <2>1. O' = O \ {p} /\ p \in O
    BY <1>0, <1>3
  <2>2. Cardinality(O') = Cardinality(O) - 1
    <3> HIDE DEF O
    <3> QED
      BY <1>0, <2>1, SubsetSize, FS_RemoveElement
  <2>3. len' = len + (-1)
    BY <1>1, <1>3
  <2>4. Cardinality(O) \in Nat
    <3> HIDE DEF O
    <3> QED
      BY <1>0, SubsetSize
  <2> QED
    BY <1>0, <2>2, <2>3, <2>4 DEF Length
<1>4. CASE owner' = owner /\ len' = len
  BY <1>4 DEF Length
<1> QED
  BY <1>2, <1>3, <1>4

LEMMA OperatesFacts ==
  ASSUME TInv, NEW p \in Panels, NEW l, NEW m, Operates(p, l, m), ~raced'
  PROVE  /\ ~raced /\ ~Meets(p) /\ pc[p] = l /\ pc' = [pc EXCEPT ![p] = m]
         /\ Quiet /\ Running /\ Tell(hide, real, late)
  BY DEF Operates, Step

(* PushBack, step by step.                                                 *)
LEMMA PushWhole ==
  ASSUME RInv, ~raced', NEW p \in Panels,
         PushAt(p) \/ PushNext(p) \/ PushLink(p) \/ PushBackLink(p) \/ PushOwn(p)
  PROVE  Whole'
<1>0. /\ p \in Nodes /\ Root \in Nodes /\ p # Root /\ Body \subseteq Nodes /\ Root \in Body
      /\ next \in [Nodes -> Nodes \cup {Nil}] /\ prev \in [Nodes -> Nodes \cup {Nil}]
      /\ owner \in [Panels -> BOOLEAN] /\ TInv
      /\ \A q \in Panels : pc[q] \notin Linked => q \notin Body
  BY PanelsAssumption DEF Nodes, RInv, TInv, TypeOK, Body
<1>1. /\ ~raced /\ ~Meets(p)
      /\ PushAt(p) => pc[p] = "none" /\ pc' = [pc EXCEPT ![p] = "push2"]
      /\ PushNext(p) => pc[p] = "push2" /\ pc' = [pc EXCEPT ![p] = "push3"]
      /\ PushLink(p) => pc[p] = "push3" /\ pc' = [pc EXCEPT ![p] = "push4"]
      /\ PushBackLink(p) => pc[p] = "push4" /\ pc' = [pc EXCEPT ![p] = "push5"]
      /\ PushOwn(p) => pc[p] = "push5" /\ pc' = [pc EXCEPT ![p] = "greet"]
  BY <1>0, OperatesFacts DEF PushAt, PushNext, PushLink, PushBackLink, PushOwn
<1>2. /\ pc[p] \notin {"push4", "remove2"} => Ring(next, prev, Body)
      /\ Stage(p)
      /\ \A q \in Panels \ {p} : pc[q] = "done" => next[q] = Nil
      /\ \A n \in Body : prev[n] # Nil
      /\ Length
  BY <1>0, <1>1, ShapeBefore DEF RInv, Whole
<1>3. Length'
  <2>1. PushOwn(p) => owner' = [owner EXCEPT ![p] = TRUE] /\ ~owner[p] /\ Adds(p, 1)
    BY <1>0, <1>1 DEF PushOwn, RInv, Owns
  <2>2. ~PushOwn(p) => owner' = owner /\ len' = len
    BY DEF PushAt, PushNext, PushLink, PushBackLink
  <2> QED
    BY <1>0, <1>1, <1>2, <2>1, <2>2, OwnersStep
<1>4. CASE PushAt(p)
  <2>1. Body' = Body /\ p \notin Body
    BY <1>0, <1>1, <1>4, BodyStep DEF Linked
  <2>2. next' = next /\ prev' = [prev EXCEPT ![p] = prev[Root]]
    BY <1>4 DEF PushAt
  <2>3. Ring(next', prev', Body')
    BY <1>0, <1>1, <1>2, <1>4, <2>1, <2>2, RingSame
  <2>4. Stage(p)'
    BY <1>0, <1>1, <1>4, <2>2 DEF Stage, TInv, TypeOK
  <2>5. Alone' /\ Shape'
    BY <1>0, <1>1, <1>2, <1>4, <2>2, <2>3, <2>4, ShapeStep
  <2> QED
    BY <1>3, <2>5 DEF Whole
<1>5. CASE PushNext(p)
  <2>1. Body' = Body /\ p \notin Body
    BY <1>0, <1>1, <1>5, BodyStep DEF Linked
  <2>2. next' = [next EXCEPT ![p] = next[prev[p]]] /\ prev' = prev
    BY <1>5 DEF PushNext
  <2>3. next[prev[p]] = Root /\ Ring(next, prev, Body)
    BY <1>0, <1>1, <1>2, <1>5 DEF Stage, Ring
  <2>4. Ring(next', prev', Body')
    BY <1>0, <2>1, <2>2, <2>3, RingSame
  <2>5. Stage(p)'
    BY <1>0, <1>1, <1>2, <1>5, <2>2, <2>3 DEF Stage, TInv, TypeOK
  <2>6. \A q \in Panels \ {p} : pc[q] = "done" => next'[q] = Nil
    BY <1>0, <1>2, <2>2 DEF Nodes
  <2>7. Alone' /\ Shape'
    BY <1>0, <1>1, <1>5, <2>4, <2>5, <2>6, ShapeStep
  <2> QED
    BY <1>3, <2>7 DEF Whole
<1>6. CASE PushLink(p)
  <2>1. Body' = Body \cup {p} /\ p \notin Body
    BY <1>0, <1>1, <1>6, BodyStep DEF Linked
  <2>2. next' = [next EXCEPT ![prev[p]] = p] /\ prev' = prev
    BY <1>6 DEF PushLink
  <2>3. /\ prev[p] = prev[Root] /\ next[p] = Root /\ Ring(next, prev, Body)
        /\ prev[Root] \in Body /\ prev[Root] # p
    BY <1>1, <1>2, <1>6, <2>1 DEF Stage, Ring
  <2>4. /\ next'[prev[Root]] = p /\ next'[p] = Root
        /\ \A n \in Nodes \ {prev[Root]} : next'[n] = next[n]
    BY <1>0, <2>2, <2>3
  <2>5. PICK pv2 : /\ pv2 = [prev EXCEPT ![Root] = p] /\ pv2[Root] = p
                   /\ \A n \in Nodes \ {Root} : pv2[n] = prev[n]
    <3>1. /\ [prev EXCEPT ![Root] = p][Root] = p
          /\ \A n \in Nodes \ {Root} : [prev EXCEPT ![Root] = p][n] = prev[n]
      BY <1>0
    <3> QED
      BY <3>1
  <2>6. Ring(next', pv2, Body')
    BY <1>0, <2>1, <2>3, <2>4, <2>5, RingInsert
  <2>7. Stage(p)'
    <3>1. Ring(next', [prev' EXCEPT ![next'[p]] = p], Body')
      BY <2>2, <2>4, <2>5, <2>6
    <3>2. (Ring(next, [prev EXCEPT ![next[p]] = p], Body))'
      BY <3>1 DEF Ring
    <3>3. pc'[p] = "push4"
      BY <1>0, <1>1, <1>6 DEF TInv, TypeOK
    <3> QED
      BY <2>4, <3>2, <3>3 DEF Stage
  <2>8. \A q \in Panels \ {p} : pc[q] = "done" => next'[q] = Nil
    <3>1. \A q \in Panels : pc[q] = "done" => q # prev[Root]
      BY <1>0, <2>3 DEF Linked
    <3> QED
      BY <1>2, <2>4, <3>1 DEF Nodes
  <2>9. \A n \in Body' : prev'[n] # Nil
    BY <1>0, <1>2, <2>1, <2>2, <2>3
  <2>10. Alone' /\ Shape'
    BY <1>0, <1>1, <1>6, <2>7, <2>8, <2>9, ShapeStep
  <2> QED
    BY <1>3, <2>10 DEF Whole
<1>7. CASE PushBackLink(p)
  <2>1. Body' = Body
    BY <1>0, <1>1, <1>7, BodyStep DEF Linked, Body
  <2>2. next' = next /\ prev' = [prev EXCEPT ![next[p]] = p]
    BY <1>7 DEF PushBackLink
  <2>3. Ring(next', prev', Body')
    BY <1>1, <1>2, <1>7, <2>1, <2>2 DEF Stage
  <2>4. Stage(p)'
    BY <1>0, <1>1, <1>7 DEF Stage, TInv, TypeOK
  <2>5. Alone' /\ Shape'
    BY <1>0, <1>1, <1>2, <1>7, <2>2, <2>3, <2>4, ShapeStep
  <2> QED
    BY <1>3, <2>5 DEF Whole
<1>8. CASE PushOwn(p)
  <2>1. Body' = Body
    BY <1>0, <1>1, <1>8, BodyStep DEF Linked, Body
  <2>2. next' = next /\ prev' = prev
    BY <1>8 DEF PushOwn
  <2>3. Ring(next', prev', Body')
    BY <1>1, <1>2, <1>8, <2>1, <2>2
  <2>4. Stage(p)'
    BY <1>0, <1>1, <1>8 DEF Stage, TInv, TypeOK
  <2>5. Alone' /\ Shape'
    BY <1>0, <1>1, <1>2, <1>8, <2>2, <2>3, <2>4, ShapeStep
  <2> QED
    BY <1>3, <2>5 DEF Whole
<1> QED
  BY <1>4, <1>5, <1>6, <1>7, <1>8

(* Remove, step by step.                                                   *)
LEMMA RemoveWhole ==
  ASSUME RInv, ~raced', NEW p \in Panels,
         RemoveLink(p) \/ RemoveBackLink(p) \/ RemoveOwn(p)
  PROVE  Whole'
<1>0. /\ p \in Nodes /\ Root \in Nodes /\ p # Root /\ Body \subseteq Nodes /\ Root \in Body
      /\ next \in [Nodes -> Nodes \cup {Nil}] /\ prev \in [Nodes -> Nodes \cup {Nil}]
      /\ owner \in [Panels -> BOOLEAN] /\ TInv
      /\ \A q \in Panels : q \in Body <=> pc[q] \in Linked
  BY PanelsAssumption DEF Nodes, RInv, TInv, TypeOK, Body
<1>1. /\ ~raced /\ ~Meets(p)
      /\ RemoveLink(p) => pc[p] = "read" /\ pc' = [pc EXCEPT ![p] = "remove2"]
      /\ RemoveBackLink(p) => pc[p] = "remove2" /\ pc' = [pc EXCEPT ![p] = "remove3"]
      /\ RemoveOwn(p) => pc[p] = "remove3" /\ pc' = [pc EXCEPT ![p] = "done"]
  BY <1>0, OperatesFacts DEF RemoveLink, RemoveBackLink, RemoveOwn, Step
<1>2. /\ pc[p] \notin {"push4", "remove2"} => Ring(next, prev, Body)
      /\ Stage(p)
      /\ \A q \in Panels \ {p} : pc[q] = "done" => next[q] = Nil
      /\ \A n \in Body : prev[n] # Nil
      /\ Length
  BY <1>0, <1>1, ShapeBefore DEF RInv, Whole
<1>3. Length'
  <2>1. RemoveOwn(p) => owner' = [owner EXCEPT ![p] = FALSE] /\ owner[p] /\ Adds(p, -1)
    BY <1>0, <1>1 DEF RemoveOwn, RInv, Owns
  <2>2. ~RemoveOwn(p) => owner' = owner /\ len' = len
    BY DEF RemoveLink, RemoveBackLink
  <2> QED
    BY <1>0, <1>1, <1>2, <2>1, <2>2, OwnersStep
<1>4. CASE RemoveLink(p)
  <2>1. Body' = Body \ {p} /\ p \in Body
    BY <1>0, <1>1, <1>4, BodyStep DEF Linked
  <2>2. next' = [next EXCEPT ![prev[p]] = next[p]] /\ prev' = prev
    BY <1>4 DEF RemoveLink
  <2>3. Ring(next, prev, Body)
    BY <1>1, <1>2, <1>4
  <2>4. next[p] \in Body /\ prev[p] \in Body
    BY <2>1, <2>3 DEF Ring
  <2>5. /\ next'[prev[p]] = next[p]
        /\ \A n \in Nodes \ {prev[p]} : next'[n] = next[n]
    BY <1>0, <2>2, <2>4
  <2>6. PICK pv2 : /\ pv2 = [prev EXCEPT ![next[p]] = prev[p]] /\ pv2[next[p]] = prev[p]
                   /\ \A n \in Nodes \ {next[p]} : pv2[n] = prev[n]
    <3>1. /\ [prev EXCEPT ![next[p]] = prev[p]][next[p]] = prev[p]
          /\ \A n \in Nodes \ {next[p]} : [prev EXCEPT ![next[p]] = prev[p]][n] = prev[n]
      BY <1>0, <2>4
    <3> QED
      BY <3>1
  <2>7. Ring(next', pv2, Body') /\ next[p] \in Body' /\ prev[p] \in Body'
    <3>1. /\ next'[prev[p]] = next[p] /\ \A n \in Body \ {prev[p]} : next'[n] = next[n]
          /\ pv2[next[p]] = prev[p] /\ \A n \in Body \ {next[p]} : pv2[n] = prev[n]
      BY <1>0, <2>5, <2>6
    <3>2. /\ Ring(next', pv2, Body \ {p})
          /\ next[p] \in Body \ {p} /\ prev[p] \in Body \ {p}
      <4>1. p \in Body /\ p # Root
        BY <1>0, <2>1
      <4> QED
        BY <2>3, <3>1, <4>1, RingRemove
    <3> QED
      BY <2>1, <3>2
  <2>8. next'[p] = next[p]
    BY <1>0, <2>1, <2>5, <2>7
  <2>9. Stage(p)'
    <3>1. Ring(next', [prev' EXCEPT ![next'[p]] = prev'[p]], Body')
      BY <2>2, <2>6, <2>7, <2>8
    <3>2. (Ring(next, [prev EXCEPT ![next[p]] = prev[p]], Body))'
      BY <3>1 DEF Ring
    <3>3. pc'[p] = "remove2"
      BY <1>0, <1>1, <1>4 DEF TInv, TypeOK
    <3>4. next'[p] \in Body' /\ prev'[p] \in Body'
      BY <2>2, <2>7, <2>8
    <3> QED
      BY <3>2, <3>3, <3>4 DEF Stage
  <2>10. \A q \in Panels \ {p} : pc[q] = "done" => next'[q] = Nil
    <3>1. \A q \in Panels : pc[q] = "done" => q # prev[p]
      BY <1>0, <2>4 DEF Linked
    <3> QED
      BY <1>2, <2>5, <3>1 DEF Nodes
  <2>11. \A n \in Body' : prev'[n] # Nil
    BY <1>2, <2>1, <2>2
  <2>12. Alone' /\ Shape'
    BY <1>0, <1>1, <1>4, <2>9, <2>10, <2>11, ShapeStep
  <2> QED
    BY <1>3, <2>12 DEF Whole
<1>5. CASE RemoveBackLink(p)
  <2>1. Body' = Body
    BY <1>0, <1>1, <1>5, BodyStep DEF Linked
  <2>2. next' = next /\ prev' = [prev EXCEPT ![next[p]] = prev[p]]
    BY <1>5 DEF RemoveBackLink
  <2>3. Ring(next', prev', Body') /\ next'[p] \in Body'
    BY <1>1, <1>2, <1>5, <2>1, <2>2 DEF Stage
  <2>4. Stage(p)'
    BY <1>0, <1>1, <1>5, <2>3 DEF Stage, TInv, TypeOK
  <2>5. Alone' /\ Shape'
    BY <1>0, <1>1, <1>2, <1>5, <2>2, <2>3, <2>4, ShapeStep
  <2> QED
    BY <1>3, <2>5 DEF Whole
<1>6. CASE RemoveOwn(p)
  <2>1. Body' = Body /\ p \notin Body
    BY <1>0, <1>1, <1>6, BodyStep DEF Linked
  <2>2. next' = [next EXCEPT ![p] = Nil] /\ prev' = [prev EXCEPT ![p] = Nil]
    BY <1>6 DEF RemoveOwn
  <2>3. Ring(next', prev', Body')
    <3>1. Ring(next, prev, Body)
      BY <1>1, <1>2, <1>6
    <3>2. \A n \in Body : next'[n] = next[n] /\ prev'[n] = prev[n]
      BY <1>0, <2>1, <2>2
    <3> QED
      BY <2>1, <3>1, <3>2, RingSame
  <2>4. Stage(p)'
    BY <1>0, <1>1, <1>6, <2>2 DEF Stage, TInv, TypeOK
  <2>5. \A q \in Panels \ {p} : pc[q] = "done" => next'[q] = Nil
    BY <1>0, <1>2, <2>2 DEF Nodes
  <2>6. Alone' /\ Shape'
    BY <1>0, <1>1, <1>6, <2>3, <2>4, <2>5, ShapeStep
  <2> QED
    BY <1>3, <2>6 DEF Whole
<1> QED
  BY <1>4, <1>5, <1>6

(* The greeting leaves the list alone, whoever is at it.                   *)
LEMMA GreetWhole ==
  ASSUME RInv, ~raced', NEW p \in Panels, GreetLook(p) \/ GreetSend(p)
  PROVE  Whole'
<1>1. PICK m \in {"masked", "real", "read"} :
        /\ pc[p] \in {"greet", "masked", "real"} /\ pc' = [pc EXCEPT ![p] = m]
        /\ UNCHANGED <<next, prev, owner, len, raced>>
  BY DEF GreetLook, GreetSend, Step, ring
<1>2. Whole /\ TInv
  BY <1>1 DEF RInv
<1>3. Body' = Body
  BY <1>1, <1>2, BodyStep DEF Linked, Body
<1>4. \A q \in Panels : pc'[q] = pc[q] \/ (q = p /\ pc'[q] = m)
  BY <1>1, <1>2 DEF TInv, TypeOK
<1>5. \A q \in Panels : \A l \in Linking \cup {"done"} : pc[q] = l <=> pc'[q] = l
  BY <1>1, <1>4 DEF Linking
<1>6. Alone'
  BY <1>2, <1>5 DEF Whole, Alone
<1>7. ASSUME NEW q \in Panels
      PROVE  Stage(q)'
  <2>1. Stage(q)
    BY <1>2 DEF Whole, Shape
  <2>2. \A l \in {"push2", "push3", "push4", "remove2", "remove3", "done"} :
          pc'[q] = l => pc[q] = l
    BY <1>5 DEF Linking
  <2> QED
    BY <1>1, <1>3, <2>1, <2>2 DEF Stage
<1>8. (\A q \in Panels : pc'[q] \notin {"push4", "remove2"}) => Ring(next', prev', Body')
  <2>1. \A q \in Panels : pc[q] \in {"push4", "remove2"} => pc'[q] = pc[q]
    BY <1>5 DEF Linking
  <2> QED
    BY <1>1, <1>2, <1>3, <2>1 DEF Whole, Shape
<1>9. (Ring(next, prev, Body))' <=> Ring(next', prev', Body')
  BY DEF Ring
<1>10. Length' /\ \A n \in Body' : prev'[n] # Nil
  BY <1>1, <1>2, <1>3 DEF Whole, Length, Shape
<1> QED
  BY <1>6, <1>7, <1>8, <1>9, <1>10 DEF Whole, Shape

(* An element's owner is its panel's own business, races or not.           *)
LEMMA OwnsKept ==
  ASSUME TInv, Owns, [Next]_vars
  PROVE  Owns'
<1>1. ASSUME NEW p \in Panels, NEW m, pc' = [pc EXCEPT ![p] = m],
             \/ owner' = owner
                /\ (pc[p] \in {"greet", "masked", "real", "read", "remove2", "remove3"}
                     <=> m \in {"greet", "masked", "real", "read", "remove2", "remove3"})
             \/ owner' = [owner EXCEPT ![p] = TRUE] /\ m = "greet"
             \/ owner' = [owner EXCEPT ![p] = FALSE] /\ m = "done"
      PROVE  Owns'
  <2>1. /\ pc'[p] = m /\ \A q \in Panels \ {p} : pc'[q] = pc[q] /\ owner'[q] = owner[q]
        /\ \/ owner'[p] = owner[p]
              /\ (pc[p] \in {"greet", "masked", "real", "read", "remove2", "remove3"}
                   <=> m \in {"greet", "masked", "real", "read", "remove2", "remove3"})
           \/ owner'[p] = TRUE /\ m = "greet"
           \/ owner'[p] = FALSE /\ m = "done"
    BY <1>1 DEF TInv, TypeOK
  <2> QED
    BY <2>1 DEF Owns
<1>2. ASSUME NEW p \in Panels,
             PushAt(p) \/ localHandler(p) \/ RemoveLink(p) \/ LinkPanic(p)
      PROVE  Owns'
  <2>1. CASE PushAt(p)
    BY <1>1, <2>1 DEF PushAt, Operates, Step
  <2>2. CASE PushNext(p) \/ PushLink(p) \/ PushBackLink(p)
    BY <1>1, <2>2 DEF PushNext, PushLink, PushBackLink, Operates, Step
  <2>3. CASE PushOwn(p) \/ RemoveOwn(p)
    BY <1>1, <2>3 DEF PushOwn, RemoveOwn, Operates, Step
  <2>4. CASE RemoveLink(p) \/ RemoveBackLink(p)
    BY <1>1, <2>4 DEF RemoveLink, RemoveBackLink, Operates, Step
  <2>5. CASE GreetLook(p) \/ GreetSend(p)
    BY <1>1, <2>5 DEF GreetLook, GreetSend, Step, ring
  <2>6. CASE LinkPanic(p)
    BY <2>6 DEF LinkPanic, ring, Owns
  <2> QED
    BY <1>2, <2>1, <2>2, <2>3, <2>4, <2>5, <2>6 DEF localHandler
<1>3. CASE Broadcasts \/ UNCHANGED vars
  BY <1>3, BroadcastsApart DEF Owns
<1> QED
  BY <1>2, <1>3 DEF Next

LEMMA NextRInv == RInv /\ [Next]_vars => RInv'
<1> SUFFICES ASSUME RInv, [Next]_vars
             PROVE  RInv'
  OBVIOUS
<1>0. TInv /\ Owns /\ (~raced => Whole)
  BY DEF RInv
<1>1. TInv' /\ Owns'
  BY <1>0, NextTInv, OwnsKept
<1>2. ASSUME NEW p \in Panels, ~raced',
             PushAt(p) \/ localHandler(p) \/ RemoveLink(p) \/ LinkPanic(p)
      PROVE  Whole'
  <2>1. CASE LinkPanic(p)
    BY <1>0, <1>2, <2>1
       DEF LinkPanic, ring, history, told, Whole, Alone, Length, Shape, Stage, Body, Ring
  <2> QED
    BY <1>2, <2>1, PushWhole, RemoveWhole, GreetWhole DEF localHandler
<1>3. ASSUME Broadcasts \/ UNCHANGED vars, ~raced'
      PROVE  Whole'
  <2>1. UNCHANGED <<pc, next, prev, owner, len>>
    BY <1>3, BroadcastsApart
  <2>2. ~raced
    <3>1. ASSUME NEW w \in Walkers, sendMessageToLocalCons(w)
          PROVE  ~raced
      BY <1>3, <3>1 DEF sendMessageToLocalCons, WalkTo, WalkPanic, WalkEnd, Reads
    <3>2. CASE MainDials \/ MainLoses
      BY <1>3, <3>2 DEF MainDials, MainLoses, Goes, history
    <3>3. ASSUME NEW s \in Visits, HideCount(s) \/ HideLook(s) \/ ShowCount(s) \/ ShowLook(s)
          PROVE  ~raced
      BY <1>3, <3>3 DEF HideCount, HideLook, ShowCount, ShowLook, Goes, history
    <3>4. ASSUME NEW force \in BOOLEAN, TerminateMe(force)
          PROVE  ~raced
      BY <1>3, <3>4 DEF TerminateMe, Goes, history
    <3>5. ASSUME NEW a \in Answers, processAuth(a)
          PROVE  ~raced
      BY <1>3, <3>5 DEF processAuth, Goes, history
    <3> QED
      BY <1>3, <3>1, <3>2, <3>3, <3>4, <3>5 DEF Broadcasts, vars, history
  <2> QED
    BY <1>0, <2>1, <2>2 DEF Whole, Alone, Length, Shape, Stage, Body, Ring
<1> QED
  BY <1>1, <1>2, <1>3 DEF Next, RInv

LEMMA InitRInv == Init => RInv
<1> SUFFICES ASSUME Init PROVE RInv
  OBVIOUS
<1>0. Root \notin Panels /\ Nil \notin Nodes
  BY PanelsAssumption DEF Nodes
<1>1. Body = {Root} /\ Nil # Root /\ \A p \in Panels : pc[p] = "none"
  BY <1>0 DEF Init, Body, Linked, Nodes
<1>2. next[Root] = Root /\ prev[Root] = Root
  BY DEF Init, Nodes
<1>3. Ring(next, prev, Body)
  BY <1>1, <1>2 DEF Ring
<1>4. Alone /\ Shape /\ Owns
  BY <1>1, <1>2, <1>3 DEF Alone, Shape, Stage, Owns, Linking, Init
<1>5. {p \in Panels : owner[p]} = {}
  BY DEF Init
<1>6. Length
  BY <1>5, FS_EmptySet DEF Length, Init
<1> QED
  BY <1>4, <1>6, InitTInv DEF RInv, Whole

(* While nobody is at the list it is the connected panels, and its length  *)
(* is their number.                                                        *)
LEMMA WholeStored ==
  ASSUME RInv, Whole, \A p \in Panels : pc[p] \notin Linking
  PROVE  /\ len = Cardinality(Stored)
         /\ Ring(next, prev, Stored \cup {Root})
<1>1. Body = Stored \cup {Root}
  BY DEF Body, Linked, Stored, Linking
<1>2. {p \in Panels : owner[p]} = Stored
  BY DEF RInv, Owns, Stored, Linking
<1>3. Ring(next, prev, Body)
  BY DEF Whole, Shape, Linking
<1> QED
  BY <1>1, <1>2, <1>3 DEF Whole, Length

(* Front yields the root only while somebody is at the list, and a walk    *)
(* never does later.                                                       *)
LEMMA WalkMeetsPanels ==
  ASSUME RInv, ~raced, NEW w \in Walkers, Element(w) = Root
  PROVE  at[w] = Nil /\ \E p \in Panels : pc[p] \in Linking
<1>0. Nil # Root
  BY PanelsAssumption DEF Nodes
<1>1. at[w] = Nil /\ len # 0 /\ next[Root] = Root
  BY <1>0 DEF Element, Front, After
<1>2. ASSUME \A p \in Panels : pc[p] \notin Linking
      PROVE  FALSE
  <2>1. len = Cardinality(Stored) /\ Ring(next, prev, Stored \cup {Root})
    BY <1>2, WholeStored DEF RInv
  <2>2. Stored \cup {Root} = {Root}
    BY <1>1, <2>1, RingAlone
  <2>3. Stored = {}
    BY <2>2, PanelsAssumption DEF Stored
  <2> QED
    BY <1>1, <2>1, <2>3, FS_EmptySet
<1> QED
  BY <1>1, <1>2

(* No link that is followed is nil.                                        *)
LEMMA LinksLead ==
  ASSUME RInv, ~raced, NEW p \in Panels
  PROVE  ~NilLink(p)
<1>0. Whole /\ Nil \notin Nodes /\ Root \in Nodes /\ Body \subseteq Nodes /\ Root \in Body
  BY PanelsAssumption DEF RInv, Nodes, Body
<1>1. Stage(p)
  BY <1>0 DEF Whole, Shape
<1>2. CASE pc[p] \in {"push4", "remove2"}
  BY <1>0, <1>1, <1>2 DEF NilLink, Stage
<1>3. CASE pc[p] \in {"push2", "push3"}
  <2>1. \A q \in Panels : pc[q] \notin {"push4", "remove2"}
    BY <1>0, <1>3 DEF Whole, Alone, Linking
  <2>2. Ring(next, prev, Body)
    BY <1>0, <2>1 DEF Whole, Shape
  <2>3. prev[p] = prev[Root] /\ prev[Root] \in Nodes
    BY <1>0, <1>1, <1>3, <2>2 DEF Stage, Ring
  <2> QED
    BY <1>0, <1>3, <2>3 DEF NilLink
<1>4. CASE pc[p] = "read"
  BY <1>0, <1>4 DEF NilLink, Whole, Shape, Body, Linked
<1> QED
  BY <1>2, <1>3, <1>4 DEF NilLink

LEMMA NextCrash == RInv /\ CrashIsRace /\ [Next]_vars => CrashIsRace'
<1> SUFFICES ASSUME RInv, CrashIsRace, [Next]_vars, ~raced'
             PROVE  life' # "crashed" /\ wpc'["main"] # "panicked"
  BY DEF CrashIsRace
<1>0. /\ wpc \in [Walkers -> WalkerLabels] /\ "main" \in Walkers /\ Visits \subseteq Walkers
      /\ "quit" \in Walkers /\ Answers \subseteq Walkers /\ \A s \in Visits : s # "main"
  BY VisitsAssumption DEF RInv, TInv, TypeOK, Walkers
<1>1. ~raced => life # "crashed" /\ wpc["main"] # "panicked"
  BY DEF CrashIsRace
<1>2. ASSUME NEW p \in Panels,
             PushAt(p) \/ localHandler(p) \/ RemoveLink(p) \/ LinkPanic(p)
      PROVE  life' # "crashed" /\ wpc'["main"] # "panicked"
  <2>1. CASE LinkPanic(p)
    BY <2>1, LinksLead DEF LinkPanic, history
  <2>2. CASE GreetLook(p) \/ GreetSend(p)
    BY <1>1, <2>2 DEF GreetLook, GreetSend, Quiet
  <2>3. CASE RemoveOwn(p)
    BY <1>1, <2>3 DEF RemoveOwn, Quiet
  <2>4. ASSUME NEW l, NEW m, Operates(p, l, m)
        PROVE  life' # "crashed" /\ wpc'["main"] # "panicked"
    BY <1>1, <2>4 DEF Operates, Quiet
  <2> QED
    BY <1>2, <2>1, <2>2, <2>3, <2>4
       DEF localHandler, PushAt, PushNext, PushLink, PushBackLink, PushOwn, RemoveLink,
           RemoveBackLink
<1>3. ASSUME NEW w \in Walkers, sendMessageToLocalCons(w)
      PROVE  life' # "crashed" /\ wpc'["main"] # "panicked"
  <2>1. CASE WalkPanic(w)
    BY <2>1, WalkMeetsPanels DEF WalkPanic, Reads
  <2>2. CASE WalkTo(w)
    BY <1>1, <2>2 DEF WalkTo, Reads
  <2>3. CASE WalkEnd(w)
    <3>1. AfterWalk(w) # "panicked"
      BY <2>3 DEF WalkEnd, AfterWalk, Walking
    <3> QED
      BY <1>0, <1>1, <2>3, <3>1 DEF WalkEnd, Reads
  <2> QED
    BY <1>3, <2>1, <2>2, <2>3 DEF sendMessageToLocalCons
<1>4. ASSUME NEW w \in Walkers, NEW l, NEW m, Goes(w, l, m), m # "panicked",
             life' = life \/ life' = "terminated"
      PROVE  life' # "crashed" /\ wpc'["main"] # "panicked"
  BY <1>0, <1>1, <1>4 DEF Goes, history
<1>5. CASE MainDials \/ MainLoses
  BY <1>0, <1>4, <1>5 DEF MainDials, MainLoses, AfterDial
<1>6. ASSUME NEW s \in Visits, HideCount(s) \/ HideLook(s) \/ ShowCount(s) \/ ShowLook(s)
      PROVE  life' # "crashed" /\ wpc'["main"] # "panicked"
  <2>1. PICK l \in {"idle", "look", "held", "showLook"},
             m \in {"look", "hide", "held", "showLook", "show", "done"} :
          Goes(s, l, m) /\ life' = life
    BY <1>6 DEF HideCount, HideLook, ShowCount, ShowLook
  <2>2. s \in Walkers /\ m # "panicked"
    BY <1>0
  <2> QED
    BY <1>4, <2>1, <2>2
<1>7. ASSUME NEW force \in BOOLEAN, TerminateMe(force)
      PROVE  life' # "crashed" /\ wpc'["main"] # "panicked"
  BY <1>0, <1>4, <1>7 DEF TerminateMe
<1>8. ASSUME NEW a \in Answers, processAuth(a)
      PROVE  life' # "crashed" /\ wpc'["main"] # "panicked"
  BY <1>0, <1>4, <1>8 DEF processAuth
<1>9. CASE UNCHANGED vars
  BY <1>1, <1>9 DEF vars, history
<1> QED
  BY <1>2, <1>3, <1>5, <1>6, <1>7, <1>8, <1>9 DEF Next, Broadcasts

-----------------------------------------------------------------------------
(* What the panels were told, while no two operations on the list          *)
(* overlapped and no walk was cut short: a panel that hides the            *)
(* credentials is in front of a walk that shows them again, or one is      *)
(* still to come; one that could show them during a visit is in front of a *)
(* walk that hides them, or one is still to come.                          *)
Labelled ==
  /\ wpc["main"] \in {"offline", "hide", "dial", "show", "online", "logout", "panicked"}
  /\ wpc["quit"] \in {"idle", "leave", "done"}
  /\ \A a \in Answers : wpc[a] \in {"idle", "auth"}

Begun(p) == pc[p] \notin {"none", "push2", "push3"}

Places ==
  \A w \in Walkers :
    /\ wpc[w] \notin Walking => at[w] = Nil
    /\ at[w] # Nil => at[w] \in Panels /\ Begun(at[w])

Marks ==
  /\ \A p \in hide : Begun(p) /\ pc[p] # "done"
  /\ \A p \in real : Begun(p) /\ pc[p] # "done"

Ahead(w, p) == at[w] # Nil => Reaches(next, Body, at[w], p)

ShownAgain(p) ==
  \/ wpc["main"] \in {"offline", "hide", "dial", "logout"}
  \/ count > 0
  \/ \E s \in Visits : wpc[s] = "showLook"
  \/ \E w \in Walkers : wpc[w] = "show" /\ Ahead(w, p)

HiddenSoon(p) ==
  \/ p \in hide
  \/ \E w \in Walkers : wpc[w] = "look" \/ (wpc[w] = "hide" /\ Ahead(w, p))

HideEnds == \A p \in hide \cap Body : ShownAgain(p)
HideComes ==
  ~late /\ count > 0 =>
    \A p \in Body \cap Panels : p \in real \/ pc[p] = "real" => HiddenSoon(p)

HInv ==
  /\ RInv
  /\ Labelled
  /\ ~raced => Places /\ Marks
  /\ ~raced /\ ~cut => HideEnds /\ HideComes

LEMMA ReachesSame ==
  ASSUME NEW nx, NEW nx2, NEW B, NEW e, NEW p, Reaches(nx, B, e, p),
         \A n \in B \cup {e} : nx2[n] = nx[n]
  PROVE  Reaches(nx2, B, e, p)
  BY DEF Reaches

(* The links of the ring's elements stay in the ring at every stage.       *)
LEMMA NextInBody ==
  ASSUME Whole, NEW n \in Body
  PROVE  next[n] \in Body
<1>1. CASE \A p \in Panels : pc[p] \notin {"push4", "remove2"}
  BY <1>1 DEF Whole, Shape, Ring
<1>2. ASSUME NEW p \in Panels, pc[p] \in {"push4", "remove2"}
      PROVE  next[n] \in Body
  BY <1>2 DEF Whole, Shape, Stage, Ring
<1> QED
  BY <1>1, <1>2

(* A walk only ever takes elements of the ring.                            *)
LEMMA WalkInBody ==
  ASSUME HInv, NEW w \in Walkers, ~raced', Reads(w), Element(w) \in Panels
  PROVE  /\ Element(w) \in Body
         /\ at[w] = Nil => Element(w) = next[Root] /\ Ring(next, prev, Body)
         /\ at[w] # Nil => Element(w) = next[at[w]]
<1>0. /\ Whole /\ Owns /\ Places /\ ~raced /\ Root \in Body /\ Nil \notin Panels
      /\ at[w] = Nil => \A q \in Panels : pc[q] \notin Linking
  BY PanelsAssumption DEF HInv, RInv, Reads, Body
<1>1. CASE at[w] = Nil
  <2>1. Element(w) = next[Root]
    BY <1>0, <1>1 DEF Element, Front
  <2>2. Ring(next, prev, Body)
    BY <1>0, <1>1 DEF Whole, Shape, Linking
  <2> QED
    BY <1>0, <1>1, <2>1, <2>2, NextInBody
<1>2. CASE at[w] # Nil
  <2>1. Element(w) = next[at[w]] /\ owner[at[w]] /\ at[w] \in Panels
    BY <1>0, <1>2 DEF Element, After, Places
  <2>2. pc[at[w]] \in {"greet", "masked", "real", "read", "remove2", "remove3"}
    BY <1>0, <2>1 DEF Owns
  <2>3. CASE pc[at[w]] \in {"remove2", "remove3"}
    BY <1>0, <1>2, <2>1, <2>3 DEF Whole, Shape, Stage
  <2>4. CASE pc[at[w]] \in {"greet", "masked", "real", "read"}
    <3>1. at[w] \in Body
      BY <2>1, <2>4 DEF Body, Linked
    <3> QED
      BY <1>0, <1>2, <2>1, <3>1, NextInBody
  <2> QED
    BY <2>2, <2>3, <2>4
<1> QED
  BY <1>1, <1>2

(* The panels ahead of a walk stay ahead of it, until it takes them.       *)
LEMMA WalkAhead ==
  ASSUME HInv, NEW w \in Walkers, ~raced', WalkTo(w), NEW v \in Walkers,
         NEW p \in Panels, p \in Body, p # Element(w) \/ v # w, Ahead(v, p)
  PROVE  Ahead(v, p)'
<1>0. /\ UNCHANGED <<pc, next>> /\ Body' = Body /\ at \in [Walkers -> Nodes \cup {Nil}]
      /\ at' = [at EXCEPT ![w] = Element(w)] /\ Reads(w) /\ Element(w) \in Panels
      /\ p # Root
  BY PanelsAssumption DEF WalkTo, ring, Body, HInv, RInv, TInv, TypeOK
<1>1. CASE v # w
  BY <1>0, <1>1 DEF Ahead, Reaches
<1>2. CASE v = w
  <2>1. /\ Element(w) \in Body
        /\ at[w] = Nil => Element(w) = next[Root] /\ Ring(next, prev, Body)
        /\ at[w] # Nil => Element(w) = next[at[w]]
    BY <1>0, WalkInBody
  <2>2. Reaches(next, Body, Element(w), p)
    <3>1. CASE at[w] = Nil
      BY <1>0, <1>2, <2>1, <3>1, ReachesFirst
    <3>2. CASE at[w] # Nil
      BY <1>2, <2>1, <3>2, ReachesNext DEF Ahead
    <3> QED
      BY <3>1, <3>2
  <2> QED
    BY <1>0, <1>2, <2>2 DEF Ahead, Reaches
<1> QED
  BY <1>1, <1>2

(* A walk that was not cut short ends when no panel is ahead of it.        *)
LEMMA EndNone ==
  ASSUME HInv, NEW w \in Walkers, ~raced', ~cut', WalkEnd(w), wpc[w] \in {"hide", "show"},
         NEW p \in Panels, p \in Body
  PROVE  ~Ahead(w, p)
<1>0. /\ Whole /\ RInv /\ ~raced /\ Root \in Body /\ p # Root /\ Nil \notin Body
      /\ Element(w) = Nil /\ ~CutAt(at[w])
      /\ at[w] = Nil => \A q \in Panels : pc[q] \notin Linking
  BY PanelsAssumption DEF HInv, RInv, WalkEnd, Reads, Body, Nodes
<1>1. CASE at[w] = Nil
  <2>1. next[Root] # Nil
    BY <1>0, NextInBody
  <2>2. len = 0
    BY <1>0, <1>1, <2>1 DEF Element, Front
  <2>3. len = Cardinality(Stored)
    BY <1>0, <1>1, WholeStored
  <2>4. Stored \in SUBSET Panels
    BY DEF Stored
  <2>5. Stored = {}
    BY <2>2, <2>3, <2>4, SubsetSize, FS_EmptySet
  <2> QED
    BY <1>0, <1>1, <2>5 DEF Body, Linked, Stored, Linking
<1>2. CASE at[w] # Nil
  <2>1. next[at[w]] = Root
    BY <1>0, <1>2 DEF CutAt
  <2> QED
    BY <1>0, <1>2, <2>1, ReachesNone DEF Ahead
<1> QED
  BY <1>1, <1>2

(* An operation on the list leaves the panels ahead that were ahead, for   *)
(* every walk, wherever it stands.                                         *)
LEMMA AheadKept ==
  ASSUME HInv, ~raced', NEW p \in Panels,
         PushAt(p) \/ localHandler(p) \/ RemoveLink(p),
         NEW w \in Walkers, NEW q \in Panels, q \in Body, q \in Body', Ahead(w, q)
  PROVE  Ahead(w, q)'
<1>0. /\ p \in Nodes /\ Root \in Nodes /\ Body \subseteq Nodes /\ Root \in Body /\ Nil \notin Body
      /\ Nil \notin Body' /\ p # Root /\ Panels \subseteq Nodes
      /\ next \in [Nodes -> Nodes \cup {Nil}]
      /\ TInv /\ RInv /\ \A r \in Panels : r \in Body <=> pc[r] \in Linked
  BY PanelsAssumption DEF Nodes, HInv, RInv, TInv, TypeOK, Body
<1>1. ~raced /\ at' = at
  <2>1. (\E l, m : Operates(p, l, m)) \/ RemoveOwn(p) \/ GreetLook(p) \/ GreetSend(p)
    BY DEF PushAt, localHandler, PushNext, PushLink, PushBackLink, PushOwn, RemoveLink,
           RemoveBackLink
  <2>2. CASE \E l, m : Operates(p, l, m)
    BY <2>2 DEF Operates, Quiet
  <2>3. CASE RemoveOwn(p)
    BY <2>3 DEF RemoveOwn, Quiet
  <2>4. CASE GreetLook(p) \/ GreetSend(p)
    BY <2>4 DEF GreetLook, GreetSend, Quiet
  <2> QED
    BY <2>1, <2>2, <2>3, <2>4
<1>2. CASE at[w] = Nil
  BY <1>1, <1>2 DEF Ahead
<1> SUFFICES ASSUME at[w] # Nil
             PROVE  Reaches(next', Body', at[w], q)
  BY <1>1, <1>2 DEF Ahead, Reaches
<1> DEFINE e == at[w]
<1>3. /\ Whole /\ e \in Panels /\ e \in Nodes /\ Begun(e) /\ Reaches(next, Body, e, q)
  BY <1>0, <1>1 DEF HInv, RInv, Places, Ahead
<1>4. ASSUME next' = next, Body' = Body
      PROVE  Reaches(next', Body', e, q)
  BY <1>3, <1>4
<1>5. CASE PushAt(p) \/ PushBackLink(p) \/ PushOwn(p) \/ RemoveBackLink(p)
           \/ GreetLook(p) \/ GreetSend(p)
  <2>1. PICK m : /\ pc' = [pc EXCEPT ![p] = m] /\ next' = next
                 /\ pc[p] \in Linked <=> m \in Linked
    BY <1>5 DEF PushAt, PushBackLink, PushOwn, RemoveBackLink, GreetLook, GreetSend, Operates,
                Step, ring, Linked
  <2>2. Body' = Body
    <3>1. Body' = IF m \in Linked THEN Body \cup {p} ELSE Body \ {p}
      BY <1>0, <2>1, BodyStep
    <3>2. p \in Body <=> m \in Linked
      BY <1>0, <2>1
    <3> QED
      BY <3>1, <3>2
  <2> QED
    BY <1>4, <2>1, <2>2
<1>6. CASE PushNext(p) \/ PushLink(p) \/ RemoveLink(p)
  <2>1. /\ ~Meets(p)
        /\ PushNext(p) => pc[p] = "push2" /\ pc' = [pc EXCEPT ![p] = "push3"]
        /\ PushLink(p) => pc[p] = "push3" /\ pc' = [pc EXCEPT ![p] = "push4"]
        /\ RemoveLink(p) => pc[p] = "read" /\ pc' = [pc EXCEPT ![p] = "remove2"]
    BY <1>0, <1>6, OperatesFacts DEF PushNext, PushLink, RemoveLink
  <2>2. /\ Ring(next, prev, Body) /\ Stage(p)
        /\ \A r \in Panels \ {p} : pc[r] = "done" => next[r] = Nil
    BY <1>0, <1>3, <1>6, <2>1, ShapeBefore
  <2>3. CASE PushNext(p)
    <3>1. Body' = Body /\ p \notin Body /\ p # e
      BY <1>0, <1>3, <2>1, <2>3, BodyStep DEF Linked, Begun
    <3>2. \A n \in Body \cup {e} : next'[n] = next[n]
      BY <1>0, <1>3, <2>3, <3>1 DEF PushNext
    <3> QED
      BY <1>3, <3>1, <3>2, ReachesSame
  <2>4. CASE PushLink(p)
    <3>1. Body' = Body \cup {p} /\ p \notin Body /\ p # e
      BY <1>0, <1>3, <2>1, <2>4, BodyStep DEF Linked, Begun
    <3> DEFINE x == prev[Root]
    <3>2. x \in Body /\ next[x] = Root /\ prev[p] = x /\ next[p] = Root
      BY <2>1, <2>2, <2>4 DEF Ring, Stage
    <3>3. next'[x] = p /\ next'[p] = Root /\ \A n \in Nodes \ {x} : next'[n] = next[n]
      BY <1>0, <2>4, <3>1, <3>2 DEF PushLink
    <3>4. \A n \in Body : next[n] \in Body
      BY <2>2 DEF Ring
    <3>5. CASE e \in Body
      <4>1. \A n \in Body \ {x} : next'[n] = next[n]
        BY <1>0, <3>3
      <4>2. /\ Root \in Body /\ x \in Body /\ p \notin Body /\ next[x] = Root
            /\ next'[x] = p /\ next'[p] = Root /\ next[e] \in Body /\ q \in Body
            /\ Reaches(next, Body, e, q)
        BY <1>0, <1>3, <3>1, <3>2, <3>3, <3>4, <3>5
      <4>3. Reaches(next', Body \cup {p}, e, q)
        <5> HIDE DEF e, x
        <5> QED
          BY <3>4, <3>5, <4>1, <4>2, ReachesInsert
      <4> QED
        BY <3>1, <4>3
    <3>6. CASE e \notin Body
      <4>1. pc[e] \notin Linking /\ pc[e] \notin Linked
        BY <1>0, <1>3, <2>1, <3>1, <3>6 DEF Meets
      <4>2. pc[e] = "done"
        BY <1>0, <1>3, <4>1 DEF Begun, Linked, Linking, Labels, TInv, TypeOK
      <4>3. next'[e] = Nil
        BY <1>3, <2>2, <3>1, <3>2, <3>3, <3>6, <4>2
      <4> QED
        BY <1>0, <4>3 DEF Reaches
    <3> QED
      BY <3>5, <3>6
  <2>5. CASE RemoveLink(p)
    <3>1. Body' = Body \ {p} /\ p \in Body
      BY <1>0, <2>1, <2>5, BodyStep DEF Linked
    <3> DEFINE x == prev[p]
    <3>2. x \in Body /\ next[x] = p /\ next[p] \in Body /\ x # p /\ next[p] # p
      <4>1. next[p] # p
        BY <1>0, <2>2, <3>1, RingAlone
      <4> QED
        BY <2>2, <3>1, <4>1 DEF Ring
    <3>3. next'[x] = next[p] /\ \A n \in Nodes \ {x} : next'[n] = next[n]
      BY <1>0, <2>5, <3>2 DEF RemoveLink
    <3>4. (\A n \in Body \ {x} : next'[n] = next[n]) /\ (e \in Body \/ next'[e] = next[e])
      BY <1>0, <1>3, <3>2, <3>3
    <3>5. q \in Body \ {p} /\ next[p] \in Body \ {p}
      BY <3>1, <3>2
    <3>6. p # Root /\ p \in Body /\ next'[x] = next[p] /\ Reaches(next, Body, e, q)
      BY <1>0, <1>3, <3>1, <3>3
    <3>7. Reaches(next', Body \ {p}, e, q)
      <4> HIDE DEF e, x
      <4> QED
        BY <3>2, <3>4, <3>5, <3>6, ReachesRemove
    <3> QED
      BY <3>1, <3>7
  <2> QED
    BY <1>6, <2>3, <2>4, <2>5
<1>7. CASE RemoveOwn(p)
  <2>1. pc[p] = "remove3" /\ pc' = [pc EXCEPT ![p] = "done"] /\ next' = [next EXCEPT ![p] = Nil]
    BY <1>7 DEF RemoveOwn, Step
  <2>2. Body' = Body /\ p \notin Body
    <3>1. "done" \notin Linked /\ "remove3" \notin Linked
      BY DEF Linked
    <3>2. Body' = IF "done" \in Linked THEN Body \cup {p} ELSE Body \ {p}
      BY <1>0, <2>1, BodyStep
    <3> QED
      BY <1>0, <2>1, <3>1, <3>2
  <2>3. CASE e = p
    BY <1>0, <2>1, <2>3 DEF Reaches
  <2>4. CASE e # p
    <3>1. \A n \in Body \cup {e} : next'[n] = next[n]
      BY <1>0, <1>3, <2>1, <2>2, <2>4
    <3> QED
      BY <1>3, <2>2, <3>1, ReachesSame
  <2> QED
    BY <2>3, <2>4
<1> QED
  BY <1>5, <1>6, <1>7 DEF localHandler

(* A step of a panel tells nobody anything but itself who it is.           *)
LEMMA PanelMarks ==
  ASSUME HInv, ~raced', NEW p \in Panels, PushAt(p) \/ localHandler(p) \/ RemoveLink(p)
  PROVE  /\ Marks'
         /\ ~cut' => /\ ~cut /\ hide' = hide \ {r \in {p} : pc'[p] = "done"}
                     /\ real' \subseteq real \cup {r \in {p} : pc[p] = "real"}
                     /\ late' = late
<1>0. /\ TInv /\ (~raced => Marks) /\ "done" \notin Linking
      /\ pc \in [Panels -> Labels]
  BY DEF HInv, RInv, TInv, TypeOK, Linking
<1>1. ASSUME NEW l, NEW m, Operates(p, l, m), m # "done",
             l \in {"none", "push2"} \/ m \notin {"none", "push2", "push3"}
      PROVE  /\ Marks'
             /\ ~cut' => /\ ~cut /\ hide' = hide \ {r \in {p} : pc'[p] = "done"}
                         /\ real' \subseteq real \cup {r \in {p} : pc[p] = "real"}
                         /\ late' = late
  <2>1. /\ pc[p] = l /\ pc'[p] = m /\ \A r \in Panels \ {p} : pc'[r] = pc[r]
        /\ ~raced /\ cut' = cut /\ Tell(hide, real, late)
    BY <1>0, <1>1, OperatesFacts DEF Quiet
  <2>2. CASE cut
    BY <2>1, <2>2 DEF Tell, Marks
  <2>3. CASE ~cut
    <3>1. hide' = hide /\ real' = real /\ late' = late
      BY <2>1, <2>3 DEF Tell
    <3>2. Marks
      BY <1>0, <2>1
    <3>3. \A r \in hide : r \in Panels /\ Begun(r) /\ pc[r] # "done"
      BY <1>0, <3>2 DEF Marks, TInv, TypeOK
    <3>4. \A r \in real : r \in Panels /\ Begun(r) /\ pc[r] # "done"
      BY <1>0, <3>2 DEF Marks, TInv, TypeOK
    <3>5. Marks'
      BY <1>1, <2>1, <3>1, <3>3, <3>4 DEF Marks, Begun
    <3> QED
      BY <1>1, <2>1, <2>3, <3>1, <3>5
  <2> QED
    BY <2>2, <2>3
<1>2. CASE PushAt(p) \/ PushNext(p) \/ PushLink(p) \/ PushBackLink(p) \/ PushOwn(p)
           \/ RemoveLink(p) \/ RemoveBackLink(p)
  <2>1. PICK l, m : /\ Operates(p, l, m) /\ m # "done"
                    /\ l \in {"none", "push2"} \/ m \notin {"none", "push2", "push3"}
    BY <1>2 DEF PushAt, PushNext, PushLink, PushBackLink, PushOwn, RemoveLink, RemoveBackLink
  <2> QED
    BY <1>1, <2>1
<1>3. CASE RemoveOwn(p)
  <2>1. /\ pc[p] = "remove3" /\ pc'[p] = "done" /\ \A r \in Panels \ {p} : pc'[r] = pc[r]
        /\ ~raced /\ cut' = cut /\ Tell(hide \ {p}, real \ {p}, late)
    BY <1>0, <1>3 DEF RemoveOwn, Step, Quiet
  <2>2. CASE cut
    BY <2>1, <2>2 DEF Tell, Marks
  <2>3. CASE ~cut
    <3>1. hide' = hide \ {p} /\ real' = real \ {p} /\ late' = late
      BY <2>1, <2>3 DEF Tell
    <3>2. Marks'
      BY <1>0, <2>1, <3>1 DEF Marks, Begun, TInv, TypeOK
    <3> QED
      BY <2>1, <2>3, <3>1, <3>2
  <2> QED
    BY <2>2, <2>3
<1>4. CASE GreetLook(p)
  <2>1. /\ pc[p] = "greet" /\ pc'[p] \in {"masked", "real"}
        /\ \A r \in Panels \ {p} : pc'[r] = pc[r]
        /\ UNCHANGED <<hide, real, late, raced, cut>>
    BY <1>0, <1>4 DEF GreetLook, Step, Quiet, told
  <2>2. Marks'
    BY <1>0, <2>1 DEF Marks, Begun, TInv, TypeOK
  <2> QED
    BY <2>1, <2>2
<1>5. CASE GreetSend(p)
  <2>1. /\ pc[p] \in {"masked", "real"} /\ pc'[p] = "read"
        /\ \A r \in Panels \ {p} : pc'[r] = pc[r]
        /\ raced' = raced /\ cut' = cut
        /\ Tell(hide, IF pc[p] = "real" THEN real \cup {p} ELSE real, late)
    BY <1>0, <1>5 DEF GreetSend, Step, Quiet
  <2>2. CASE cut
    BY <2>1, <2>2 DEF Tell, Marks
  <2>3. CASE ~cut
    <3>1. /\ hide' = hide /\ late' = late
          /\ real' = IF pc[p] = "real" THEN real \cup {p} ELSE real
      BY <2>1, <2>3 DEF Tell
    <3>2. Marks'
      BY <1>0, <2>1, <3>1 DEF Marks, Begun, TInv, TypeOK
    <3> QED
      BY <2>1, <2>3, <3>1, <3>2
  <2> QED
    BY <2>2, <2>3
<1> QED
  BY <1>2, <1>3, <1>4, <1>5 DEF localHandler

(* Which elements join the ring, and which panels are found unmasked.      *)
LEMMA PanelJoins ==
  ASSUME HInv, ~raced', NEW p \in Panels, PushAt(p) \/ localHandler(p) \/ RemoveLink(p)
  PROVE  /\ UNCHANGED <<wpc, at, count>> /\ ~raced
         /\ \A r \in Panels : Begun(r) => Begun(r)'
         /\ \A r \in Body' : r \in Body \/ (r = p /\ ~Begun(p))
         /\ \A r \in Panels : pc'[r] = "real" =>
              pc[r] = "real" \/ (r = p /\ count' = 0)
<1>0. /\ TInv /\ pc \in [Panels -> Labels] /\ count \in Nat
      /\ \A r \in Panels : r \in Body <=> pc[r] \in Linked
      /\ \A r \in Panels : r \in Body' <=> pc'[r] \in Linked
      /\ Body \subseteq Panels \cup {Root} /\ Body' \subseteq Panels \cup {Root} /\ Root \in Body
  BY PanelsAssumption, SubsetSize DEF HInv, RInv, TInv, TypeOK, Body
<1>1. PICK l, m :
        /\ pc[p] = l /\ pc'[p] = m /\ \A r \in Panels \ {p} : pc'[r] = pc[r]
        /\ UNCHANGED <<wpc, at, count>> /\ ~raced
        /\ \/ l \in {"none", "push2"} /\ m \in {"push2", "push3"}
           \/ l = "push3" /\ m = "push4"
           \/ l = "push4" /\ m = "push5"
           \/ l = "push5" /\ m = "greet"
           \/ l = "greet" /\ m = "masked"
           \/ l = "greet" /\ m = "real" /\ count' = 0
           \/ l \in {"masked", "real"} /\ m = "read"
           \/ l \in {"read", "remove2", "remove3"} /\ m \in {"remove2", "remove3", "done"}
  <2>1. ASSUME NEW l, NEW m, Operates(p, l, m)
        PROVE  /\ pc[p] = l /\ pc'[p] = m /\ \A r \in Panels \ {p} : pc'[r] = pc[r]
               /\ UNCHANGED <<wpc, at, count>> /\ ~raced
    BY <1>0, <2>1, OperatesFacts DEF Quiet
  <2>2. CASE PushAt(p) \/ PushNext(p)
    BY <2>1, <2>2 DEF PushAt, PushNext
  <2>3. CASE PushLink(p) \/ PushBackLink(p) \/ PushOwn(p)
    BY <2>1, <2>3 DEF PushLink, PushBackLink, PushOwn
  <2>4. CASE RemoveLink(p) \/ RemoveBackLink(p)
    BY <2>1, <2>4 DEF RemoveLink, RemoveBackLink
  <2>5. CASE RemoveOwn(p)
    BY <1>0, <2>5 DEF RemoveOwn, Step, Quiet
  <2>6. CASE GreetLook(p)
    BY <1>0, <2>6 DEF GreetLook, Step, Quiet, Masks
  <2>7. CASE GreetSend(p)
    BY <1>0, <2>7 DEF GreetSend, Step, Quiet
  <2> QED
    BY <2>2, <2>3, <2>4, <2>5, <2>6, <2>7 DEF localHandler
<1>2. \A r \in Panels : Begun(r) => Begun(r)'
  BY <1>1 DEF Begun
<1>3. \A r \in Panels : r \in Body' => r \in Body \/ (r = p /\ ~Begun(p))
  BY <1>0, <1>1 DEF Begun, Linked
<1> QED
  BY <1>0, <1>1, <1>2, <1>3

LEMMA PanelHInv ==
  ASSUME HInv, RInv', NEW p \in Panels,
         PushAt(p) \/ localHandler(p) \/ RemoveLink(p) \/ LinkPanic(p)
  PROVE  HInv'
<1>0. Root \notin Panels /\ TInv /\ Labelled
  BY PanelsAssumption DEF HInv, RInv
<1>1. CASE LinkPanic(p)
  BY <1>1 DEF LinkPanic, ring, history, told, HInv, Labelled, Places, Marks, HideEnds,
              HideComes, ShownAgain, HiddenSoon, Ahead, Begun, Body, Stored, Reaches
<1>2. ASSUME PushAt(p) \/ localHandler(p) \/ RemoveLink(p)
      PROVE  wpc' = wpc
  <2>1. (\E l, m : Operates(p, l, m)) \/ RemoveOwn(p) \/ GreetLook(p) \/ GreetSend(p)
    BY <1>2 DEF PushAt, localHandler, PushNext, PushLink, PushBackLink, PushOwn, RemoveLink,
                RemoveBackLink
  <2>2. CASE \E l, m : Operates(p, l, m)
    BY <2>2 DEF Operates, Quiet
  <2>3. CASE RemoveOwn(p)
    BY <2>3 DEF RemoveOwn, Quiet
  <2>4. CASE GreetLook(p) \/ GreetSend(p)
    BY <2>4 DEF GreetLook, GreetSend, Quiet
  <2> QED
    BY <2>1, <2>2, <2>3, <2>4
<1>3. ASSUME PushAt(p) \/ localHandler(p) \/ RemoveLink(p), ~raced'
      PROVE  /\ Places' /\ Marks'
             /\ ~cut' => HideEnds' /\ HideComes'
  <2>1. /\ UNCHANGED <<wpc, at, count>> /\ ~raced
        /\ \A r \in Panels : Begun(r) => Begun(r)'
        /\ \A r \in Body' : r \in Body \/ (r = p /\ ~Begun(p))
        /\ \A r \in Panels : pc'[r] = "real" =>
             pc[r] = "real" \/ (r = p /\ count' = 0)
    BY <1>3, PanelJoins
  <2>2. /\ Marks'
        /\ ~cut' => /\ ~cut /\ hide' = hide \ {r \in {p} : pc'[p] = "done"}
                    /\ real' \subseteq real \cup {r \in {p} : pc[p] = "real"}
                    /\ late' = late
    BY <1>3, PanelMarks
  <2>3. Places /\ Marks
    BY <2>1 DEF HInv
  <2>4. Places'
    BY <2>1, <2>3 DEF Places
  <2>5. ASSUME NEW w \in Walkers, NEW q \in Panels, q \in Body, q \in Body', Ahead(w, q)
        PROVE  Ahead(w, q)'
    BY <1>3, <2>5, AheadKept
  <2>6. ASSUME ~cut', NEW q \in hide' \cap Body'
        PROVE  ShownAgain(q)'
    <3>1. q \in hide /\ q \in Panels /\ Begun(q)
      BY <1>0, <2>2, <2>3, <2>6 DEF Marks, TInv, TypeOK
    <3>2. q \in Body
      BY <2>1, <2>6, <3>1
    <3>3. ShownAgain(q)
      BY <2>1, <2>2, <2>6, <3>1, <3>2 DEF HInv, HideEnds
    <3>4. ASSUME NEW w \in Walkers, wpc[w] = "show", Ahead(w, q)
          PROVE  wpc'[w] = "show" /\ Ahead(w, q)'
      BY <2>1, <2>5, <2>6, <3>1, <3>2, <3>4
    <3> QED
      BY <2>1, <3>3, <3>4 DEF ShownAgain
  <2>7. ASSUME ~cut', ~late', count' > 0, NEW q \in Body' \cap Panels, q \in real' \/ pc'[q] = "real"
        PROVE  HiddenSoon(q)'
    <3>1. q \in Panels /\ ~late /\ count > 0 /\ ~cut /\ count' # 0
      <4>1. count \in Nat
        BY <1>0, SubsetSize DEF TInv, TypeOK
      <4> QED
        BY <2>1, <2>2, <2>7, <4>1
    <3>2. q \in real \/ pc[q] = "real"
      BY <2>1, <2>2, <2>7, <3>1
    <3>3. q \in Body
      <4>1. Begun(q)
        BY <2>3, <3>2 DEF Marks, Begun
      <4> QED
        BY <2>1, <2>7, <4>1
    <3>4. HiddenSoon(q)
      BY <2>1, <3>1, <3>2, <3>3 DEF HInv, HideComes
    <3>5. q \in Body' /\ pc'[q] # "done"
      BY <1>0, <2>7 DEF Body, Linked
    <3>6. q \in hide => q \in hide'
      BY <2>2, <2>7, <3>5
    <3>7. ASSUME NEW w \in Walkers, wpc[w] = "hide", Ahead(w, q)
          PROVE  wpc'[w] = "hide" /\ Ahead(w, q)'
      BY <2>1, <2>5, <3>1, <3>3, <3>5, <3>7
    <3> QED
      BY <2>1, <3>4, <3>6, <3>7 DEF HiddenSoon
  <2> QED
    BY <2>2, <2>4, <2>6, <2>7 DEF HideEnds, HideComes
<1>4. CASE PushAt(p) \/ localHandler(p) \/ RemoveLink(p)
  BY <1>0, <1>2, <1>3, <1>4 DEF HInv, Labelled
<1> QED
  BY <1>1, <1>4

(* A walk tells the panels one by one, and leaves none behind.             *)
LEMMA WalkToHInv ==
  ASSUME HInv, RInv', NEW w \in Walkers, WalkTo(w)
  PROVE  HInv'
<1> DEFINE f == Element(w)
<1>0. /\ Root \notin Panels /\ TInv /\ Labelled /\ f \in Panels /\ Reads(w)
      /\ UNCHANGED <<pc, next, wpc, count, cut>> /\ at' = [at EXCEPT ![w] = f]
      /\ Told(w, f) /\ Body' = Body /\ Stored' = Stored /\ wpc[w] \in Walking
      /\ at \in [Walkers -> Nodes \cup {Nil}] /\ count \in Nat
      /\ hide \subseteq Panels
  BY PanelsAssumption, SubsetSize
     DEF WalkTo, ring, Body, Stored, HInv, RInv, TInv, TypeOK
<1>1. ASSUME ~raced'
      PROVE  /\ Places' /\ Marks'
             /\ ~cut' => HideEnds' /\ HideComes'
  <2>1. ~raced /\ f \in Body /\ Begun(f) /\ pc[f] # "done"
    <3>1. ~raced /\ f \in Body
      BY <1>0, <1>1, WalkInBody DEF Reads
    <3> QED
      BY <1>0, <3>1 DEF Body, Linked, Begun
  <2>2. Places /\ Marks
    BY <2>1 DEF HInv
  <2>3. Places'
    <3>1. ASSUME NEW v \in Walkers
          PROVE  /\ wpc'[v] \notin Walking => at'[v] = Nil
                 /\ at'[v] # Nil => at'[v] \in Panels /\ Begun(at'[v])
      <4>1. CASE v = w
        BY <1>0, <2>1, <4>1
      <4>2. CASE v # w
        BY <1>0, <2>2, <4>2 DEF Places
      <4> QED
        BY <4>1, <4>2
    <3> QED
      BY <1>0, <3>1 DEF Places, Begun
  <2>4. /\ hide' \subseteq hide \cup {f} /\ real' \subseteq real \cup {f}
        /\ ~cut' =>
             /\ ~cut
             /\ wpc[w] = "hide" => hide' = hide \cup {f}
             /\ wpc[w] = "show" => hide' = hide \ {f} /\ late' = (late \/ count > 0)
             /\ wpc[w] = "auth" => late' = (late \/ (count > 0 /\ f \notin hide))
             /\ wpc[w] \notin {"hide", "show"} => hide' = hide
             /\ wpc[w] \notin {"show", "auth"} => late' = late
             /\ wpc[w] # "auth" => real' = real
    <3>1. CASE wpc[w] = "hide"
      BY <1>0, <1>1, <3>1 DEF Told, Tell
    <3>2. CASE wpc[w] = "show"
      BY <1>0, <1>1, <3>2 DEF Told, Tell
    <3>3. CASE wpc[w] = "auth"
      BY <1>0, <1>1, <3>3 DEF Told, Tell
    <3>4. CASE wpc[w] \notin {"hide", "show", "auth"}
      BY <1>0, <1>1, <3>4 DEF Told, Tell
    <3> QED
      BY <3>1, <3>2, <3>3, <3>4
  <2>5. Marks'
    BY <1>0, <2>1, <2>2, <2>4 DEF Marks, Begun
  <2>6. ASSUME NEW v \in Walkers, NEW q \in Panels, q \in Body, q # f \/ v # w, Ahead(v, q)
        PROVE  Ahead(v, q)'
    BY <1>1, <2>6, WalkAhead
  <2>7. ASSUME ~cut', NEW q \in hide' \cap Body'
        PROVE  ShownAgain(q)'
    <3>1. CASE wpc[w] = "hide" /\ q = f
      <4>1. CASE w = "main"
        BY <1>0, <3>1, <4>1 DEF ShownAgain
      <4>2. CASE w # "main"
        <5>1. w \in Visits
          BY <1>0, <3>1, <4>2 DEF Labelled, Walkers
        <5>2. w \in Counted /\ Counted \in SUBSET Visits
          BY <3>1, <5>1 DEF Counted
        <5>3. count # 0
          BY <1>0, <5>2, SubsetSize, FS_EmptySet DEF TInv, Sizes
        <5>4. count' > 0
          BY <1>0, <5>3
        <5> QED
          BY <5>4 DEF ShownAgain
      <4> QED
        BY <4>1, <4>2
    <3>2. CASE ~(wpc[w] = "hide" /\ q = f)
      <4>1. q \in hide /\ q \in Body /\ q \in Panels /\ (wpc[w] = "show" => q # f)
        BY <1>0, <2>4, <2>7, <3>2
      <4>2. ShownAgain(q)
        BY <2>1, <2>4, <2>7, <4>1 DEF HInv, HideEnds
      <4>3. ASSUME NEW v \in Walkers, wpc[v] = "show", Ahead(v, q)
            PROVE  wpc'[v] = "show" /\ Ahead(v, q)'
        BY <1>0, <2>6, <4>1, <4>3
      <4> QED
        BY <1>0, <4>2, <4>3 DEF ShownAgain
    <3> QED
      BY <3>1, <3>2
  <2>8. ASSUME ~cut', ~late', count' > 0, NEW q \in Body' \cap Panels,
               q \in real' \/ pc'[q] = "real"
        PROVE  HiddenSoon(q)'
    <3>1. /\ q \in Panels /\ q \in Body /\ ~cut /\ count > 0 /\ ~late /\ wpc[w] # "show"
          /\ wpc[w] = "auth" => f \in hide
      <4>1. q \in Panels /\ q \in Body /\ ~cut /\ count > 0
        BY <1>0, <2>4, <2>8
      <4>2. wpc[w] # "show"
        <5> SUFFICES ASSUME wpc[w] = "show"
                     PROVE  late'
          BY <2>8
        <5>1. late' = (late \/ count > 0)
          BY <2>4, <2>8
        <5> QED
          BY <4>1, <5>1
      <4>3. CASE wpc[w] = "auth"
        <5>1. late' = (late \/ (count > 0 /\ f \notin hide))
          BY <2>4, <2>8, <4>3
        <5>2. ~late /\ ~(count > 0 /\ f \notin hide)
          BY <2>8, <5>1
        <5> QED
          BY <4>1, <4>2, <5>2
      <4>4. CASE wpc[w] # "auth"
        <5>1. late' = late
          BY <2>4, <2>8, <4>2, <4>4
        <5>2. ~late
          BY <2>8, <5>1
        <5> QED
          BY <4>1, <4>2, <4>4, <5>2
      <4> QED
        BY <4>3, <4>4
    <3>2. HiddenSoon(q)
      <4>1. CASE q \in real \/ pc[q] = "real"
        BY <2>1, <3>1, <4>1 DEF HInv, HideComes
      <4>2. CASE ~(q \in real \/ pc[q] = "real")
        <5>1. wpc[w] = "auth" /\ q = f
          BY <1>0, <2>4, <2>8, <4>2
        <5> QED
          BY <3>1, <5>1 DEF HiddenSoon
      <4> QED
        BY <4>1, <4>2
    <3>3. hide \subseteq hide' /\ (wpc[w] = "hide" => f \in hide')
      BY <2>4, <2>8, <3>1
    <3>4. ASSUME NEW v \in Walkers, wpc[v] = "hide", Ahead(v, q), q # f \/ v # w
          PROVE  wpc'[v] = "hide" /\ Ahead(v, q)'
      BY <1>0, <2>6, <3>1, <3>4
    <3> QED
      BY <1>0, <3>2, <3>3, <3>4 DEF HiddenSoon
  <2> QED
    BY <2>3, <2>5, <2>7, <2>8 DEF HideEnds, HideComes
<1> QED
  BY <1>0, <1>1 DEF HInv, Labelled

(* A walk that ends told every panel of the ring what it had to tell.      *)
LEMMA WalkEndHInv ==
  ASSUME HInv, RInv', NEW w \in Walkers, WalkEnd(w)
  PROVE  HInv'
<1>0. /\ Labelled /\ UNCHANGED <<pc, next, count>> /\ wpc[w] \in Walking /\ Reads(w)
      /\ wpc \in [Walkers -> WalkerLabels] /\ at \in [Walkers -> Nodes \cup {Nil}]
      /\ wpc' = [wpc EXCEPT ![w] = AfterWalk(w)] /\ at' = [at EXCEPT ![w] = Nil]
      /\ cut' = (cut \/ (wpc[w] \in {"hide", "show"} /\ CutAt(at[w])))
      /\ Body' = Body /\ Stored' = Stored /\ Tell(hide, real, late)
      /\ raced \in BOOLEAN /\ cut \in BOOLEAN
  BY DEF WalkEnd, ring, Body, Stored, HInv, RInv, TInv, TypeOK
<1>1. AfterWalk(w) \notin Walking /\ AfterWalk(w) \notin {"look", "showLook"}
  BY <1>0 DEF AfterWalk, Walking
<1>2. /\ "main" \in Walkers /\ "quit" \in Walkers /\ Visits \subseteq Walkers
      /\ wpc'[w] = AfterWalk(w) /\ at'[w] = Nil
      /\ \A v \in Walkers : v # w => wpc'[v] = wpc[v] /\ at'[v] = at[v]
  BY <1>0 DEF Walkers
<1>2a. /\ Answers \subseteq Walkers /\ "main" \notin Answers /\ "quit" \notin Answers
  BY AnswersAssumption DEF Walkers
<1>3. Labelled'
  <2>1. CASE w = "main"
    <3>1. wpc[w] \in {"hide", "show", "logout"}
      BY <1>0, <2>1 DEF Labelled, Walking
    <3>2. AfterWalk(w) \in {"dial", "online", "offline"}
      BY <2>1, <3>1 DEF AfterWalk
    <3> QED
      BY <1>0, <1>2, <1>2a, <2>1, <3>2 DEF Labelled
  <2>2. CASE w = "quit"
    <3>1. wpc[w] = "leave"
      BY <1>0, <2>2 DEF Labelled, Walking
    <3>2. AfterWalk(w) = "done"
      BY <3>1 DEF AfterWalk
    <3> QED
      BY <1>0, <1>2, <1>2a, <2>2, <3>2 DEF Labelled
  <2>3. CASE w \notin {"main", "quit"}
    <3>1. w \in Answers => AfterWalk(w) = "idle"
      BY <1>0 DEF Labelled, AfterWalk, Walking
    <3> QED
      BY <1>0, <1>2, <1>2a, <2>3, <3>1 DEF Labelled
  <2> QED
    BY <2>1, <2>2, <2>3
<1>4. ASSUME ~raced'
      PROVE  Places' /\ Marks'
  <2>1. Places /\ Marks
    BY <1>0, <1>4 DEF HInv, Reads
  <2>2. Places'
    <3>1. ASSUME NEW v \in Walkers
          PROVE  /\ wpc'[v] \notin Walking => at'[v] = Nil
                 /\ at'[v] # Nil => at'[v] \in Panels /\ Begun(at'[v])
      BY <1>2, <2>1 DEF Places
    <3> QED
      BY <1>0, <3>1 DEF Places, Begun
  <2>3. hide' \subseteq hide /\ real' \subseteq real
    BY <1>0 DEF Tell
  <2>4. Marks'
    BY <1>0, <2>1, <2>3 DEF Marks, Begun
  <2> QED
    BY <2>2, <2>4
<1>5. ASSUME ~raced', ~cut'
      PROVE  HideEnds' /\ HideComes'
  <2>1. /\ ~raced /\ ~cut /\ HideEnds /\ HideComes
        /\ hide' = hide /\ real' = real /\ late' = late
    BY <1>0, <1>5 DEF HInv, Reads, Tell
  <2>2. ASSUME NEW q \in Panels, q \in Body, NEW v \in Walkers, Ahead(v, q),
               wpc[v] \in {"hide", "show"}
        PROVE  wpc'[v] = wpc[v] /\ Ahead(v, q)'
    <3>1. v # w
      BY <1>5, <2>2, EndNone
    <3> QED
      BY <1>0, <1>2, <2>2, <3>1 DEF Ahead, Reaches
  <2>3. ASSUME NEW v \in Walkers, wpc[v] \in {"look", "showLook"}
        PROVE  wpc'[v] = wpc[v]
    BY <1>0, <1>2, <2>3 DEF Walking
  <2>4. ASSUME wpc["main"] \in {"offline", "hide", "dial", "logout"}
        PROVE  wpc'["main"] \in {"offline", "hide", "dial", "logout"}
    <3>1. CASE w = "main"
      <4>1. wpc[w] \in {"hide", "logout"}
        BY <1>0, <2>4, <3>1 DEF Walking
      <4>2. AfterWalk(w) \in {"dial", "offline"}
        BY <3>1, <4>1 DEF AfterWalk
      <4> QED
        BY <1>2, <3>1, <4>2
    <3>2. CASE w # "main"
      BY <1>2, <2>4, <3>2
    <3> QED
      BY <3>1, <3>2
  <2>5. ASSUME NEW q \in hide \cap Body
        PROVE  ShownAgain(q)'
    <3>1. q \in Panels /\ ShownAgain(q)
      BY <2>1, <2>5 DEF HideEnds, HInv, RInv, TInv, TypeOK
    <3>2. CASE wpc["main"] \in {"offline", "hide", "dial", "logout"} \/ count > 0
      BY <1>0, <2>4, <3>2 DEF ShownAgain
    <3>3. ASSUME NEW s \in Visits, wpc[s] = "showLook"
          PROVE  ShownAgain(q)'
      BY <1>2, <2>3, <3>3 DEF ShownAgain
    <3>4. ASSUME NEW v \in Walkers, wpc[v] = "show", Ahead(v, q)
          PROVE  ShownAgain(q)'
      BY <2>2, <2>5, <3>1, <3>4 DEF ShownAgain
    <3> QED
      BY <3>1, <3>2, <3>3, <3>4 DEF ShownAgain
  <2>6. ASSUME ~late, count > 0, NEW q \in Body \cap Panels, q \in real \/ pc[q] = "real"
        PROVE  HiddenSoon(q)'
    <3>1. HiddenSoon(q) /\ q \in Panels /\ q \in Body
      BY <2>1, <2>6 DEF HideComes
    <3>2. CASE q \in hide
      BY <2>1, <3>2 DEF HiddenSoon
    <3>3. ASSUME NEW v \in Walkers, wpc[v] = "look"
          PROVE  HiddenSoon(q)'
      BY <2>3, <3>3 DEF HiddenSoon
    <3>4. ASSUME NEW v \in Walkers, wpc[v] = "hide", Ahead(v, q)
          PROVE  HiddenSoon(q)'
      BY <2>2, <3>1, <3>4 DEF HiddenSoon
    <3> QED
      BY <3>1, <3>2, <3>3, <3>4 DEF HiddenSoon
  <2>7. HideEnds'
    BY <1>0, <2>1, <2>5 DEF HideEnds
  <2>8. HideComes'
    BY <1>0, <2>1, <2>6 DEF HideComes
  <2> QED
    BY <2>7, <2>8
<1> QED
  BY <1>3, <1>4, <1>5 DEF HInv

(* While no two operations on the list overlapped no walk panics.          *)
LEMMA WalkPanicHInv ==
  ASSUME HInv, RInv', NEW w \in Walkers, WalkPanic(w)
  PROVE  HInv'
<1>1. /\ RInv /\ Labelled /\ wpc \in [Walkers -> WalkerLabels] /\ "main" \in Walkers
      /\ Answers \subseteq Walkers /\ "main" \notin Answers
  BY AnswersAssumption DEF HInv, RInv, TInv, TypeOK, Walkers
<1>2. Reads(w) /\ Element(w) = Root
  BY DEF WalkPanic
<1>3. raced'
  <2>1. CASE raced
    BY <1>2, <2>1 DEF Reads
  <2>2. CASE ~raced
    BY <1>1, <1>2, <2>2, WalkMeetsPanels DEF Reads
  <2> QED
    BY <2>1, <2>2
<1>4. Labelled'
  <2>1. CASE w = "main"
    <3>1. wpc' = [wpc EXCEPT !["main"] = "panicked"]
      BY <2>1 DEF WalkPanic
    <3> QED
      BY <1>1, <3>1 DEF Labelled
  <2>2. CASE w # "main"
    <3>1. wpc' = wpc
      BY <2>2 DEF WalkPanic
    <3> QED
      BY <1>1, <3>1 DEF Labelled
  <2> QED
    BY <2>1, <2>2
<1> QED
  BY <1>3, <1>4 DEF HInv

(* What a step outside the walks leaves of the panels ahead of a walk.     *)
LEMMA GoesFacts ==
  ASSUME HInv, NEW w \in Walkers, NEW l, NEW m, Goes(w, l, m), l \notin Walking
  PROVE  /\ UNCHANGED <<pc, next, at, hide, real, late, raced, cut, Body>>
         /\ wpc[w] = l /\ wpc'[w] = m /\ \A v \in Walkers : v # w => wpc'[v] = wpc[v]
         /\ ~raced => /\ Places' /\ Marks'
                      /\ \A p : Ahead(w, p)'
                      /\ \A v \in Walkers : \A p : Ahead(v, p) => Ahead(v, p)'
<1>1. /\ UNCHANGED <<pc, next, at, hide, real, late, raced, cut, Body>>
      /\ wpc[w] = l /\ wpc'[w] = m /\ \A v \in Walkers : v # w => wpc'[v] = wpc[v]
  BY DEF Goes, ring, history, told, Body, HInv, RInv, TInv, TypeOK
<1>2. ASSUME ~raced
      PROVE  Places' /\ Marks' /\ at'[w] = Nil
  <2>1. Places /\ Marks
    BY <1>2 DEF HInv
  <2>2. at[w] = Nil
    BY <1>1, <2>1 DEF Places
  <2>3. ASSUME NEW v \in Walkers
        PROVE  /\ wpc'[v] \notin Walking => at'[v] = Nil
               /\ at'[v] # Nil => at'[v] \in Panels /\ Begun(at'[v])
    BY <1>1, <2>1, <2>2, <2>3 DEF Places
  <2>4. Places'
    BY <1>1, <2>3 DEF Places, Begun
  <2>5. Marks'
    BY <1>1, <2>1 DEF Marks, Begun
  <2> QED
    BY <1>1, <2>2, <2>4, <2>5
<1>3. \A v \in Walkers : \A p : Ahead(v, p) => Ahead(v, p)'
  BY <1>1 DEF Ahead, Reaches
<1>4. at'[w] = Nil => \A p : Ahead(w, p)'
  BY DEF Ahead
<1> QED
  BY <1>1, <1>2, <1>3, <1>4

(* A step that begins no visit leaves the panels hidden, or in front of a  *)
(* walk that hides them, that were.                                        *)
LEMMA GoesHides ==
  ASSUME HInv, ~raced, ~cut, NEW w \in Walkers, NEW l, NEW m, Goes(w, l, m),
         l \notin Walking, l # "look", count' > 0 => count > 0
  PROVE  HideComes'
<1>0. /\ UNCHANGED <<pc, hide, real, late, Body>>
      /\ wpc[w] = l /\ \A v \in Walkers : v # w => wpc'[v] = wpc[v]
      /\ \A v \in Walkers : \A p : Ahead(v, p) => Ahead(v, p)'
  BY GoesFacts
<1>1. ASSUME ~late, count' > 0, NEW q \in Body \cap Panels, q \in real \/ pc[q] = "real"
      PROVE  HiddenSoon(q)'
  <2>1. HiddenSoon(q)
    BY <1>1 DEF HInv, HideComes
  <2>2. ASSUME NEW v \in Walkers, wpc[v] \in {"look", "hide"}
        PROVE  wpc'[v] = wpc[v]
    BY <1>0, <2>2 DEF Walking
  <2>3. CASE q \in hide
    BY <1>0, <2>3 DEF HiddenSoon
  <2>4. ASSUME NEW v \in Walkers, wpc[v] = "look"
        PROVE  HiddenSoon(q)'
    BY <2>2, <2>4 DEF HiddenSoon
  <2>5. ASSUME NEW v \in Walkers, wpc[v] = "hide", Ahead(v, q)
        PROVE  HiddenSoon(q)'
    BY <1>0, <2>2, <2>5 DEF HiddenSoon
  <2> QED
    BY <2>1, <2>3, <2>4, <2>5 DEF HiddenSoon
<1> QED
  BY <1>0, <1>1 DEF HideComes

(* MainClient hides, dials, shows and loses the link.                      *)
LEMMA MainHInv ==
  ASSUME HInv, RInv', MainDials \/ MainLoses
  PROVE  HInv'
<1>1. "main" \in Walkers /\ "main" \notin Answers
  BY AnswersAssumption DEF Walkers
<1>2. ASSUME NEW l, NEW m, Goes("main", l, m), l \in {"offline", "dial", "online"},
             m \in {"hide", "offline", "show", "logout"}, count' = count
      PROVE  HInv'
  <2>0. l \notin Walking /\ l # "look"
    BY <1>2 DEF Walking
  <2>1. /\ UNCHANGED <<raced, cut, hide, Body>>
        /\ wpc'["main"] = m /\ \A v \in Walkers : v # "main" => wpc'[v] = wpc[v]
        /\ ~raced => Places' /\ Marks' /\ \A p : Ahead("main", p)'
    BY <1>1, <1>2, <2>0, GoesFacts
  <2>2. Labelled'
    BY <1>1, <1>2, <2>1 DEF HInv, Labelled, Walkers
  <2>3. ASSUME ~raced, ~cut
        PROVE  HideEnds' /\ HideComes'
    <3>1. HideComes'
      BY <1>1, <1>2, <2>0, <2>3, GoesHides
    <3>2. HideEnds'
      <4>1. CASE m = "show"
        BY <1>1, <2>1, <2>3, <4>1 DEF HideEnds, ShownAgain
      <4>2. CASE m # "show"
        BY <1>2, <2>1, <4>2 DEF HideEnds, ShownAgain
      <4> QED
        BY <4>1, <4>2
    <3> QED
      BY <3>1, <3>2
  <2> QED
    BY <2>1, <2>2, <2>3 DEF HInv
<1>3. CASE MainDials
  BY <1>2, <1>3 DEF MainDials, AfterDial
<1>4. CASE MainLoses
  BY <1>2, <1>4 DEF MainLoses
<1> QED
  BY <1>3, <1>4

(* A visit counts itself before it hides and shows after it left.          *)
LEMMA VisitHInv ==
  ASSUME HInv, RInv', NEW s \in Visits,
         HideCount(s) \/ HideLook(s) \/ ShowCount(s) \/ ShowLook(s)
  PROVE  HInv'
<1>1. s \in Walkers /\ s # "main" /\ s # "quit" /\ s \notin Answers /\ count \in Nat
  BY VisitsAssumption, AnswersAssumption, SubsetSize DEF Walkers, HInv, RInv, TInv, TypeOK
<1>2. ASSUME NEW l, NEW m, Goes(s, l, m), l \notin Walking,
             ~raced /\ ~cut => HideEnds' /\ HideComes'
      PROVE  HInv'
  <2>1. /\ UNCHANGED <<raced, cut>> /\ (~raced => Places' /\ Marks')
        /\ \A v \in Walkers : v # s => wpc'[v] = wpc[v]
    BY <1>1, <1>2, GoesFacts
  <2>2. Labelled'
    BY <1>1, <2>1 DEF HInv, Labelled, Walkers
  <2> QED
    BY <1>2, <2>1, <2>2 DEF HInv
<1>3. CASE HideCount(s)
  <2>1. Goes(s, "idle", "look") /\ count' > 0
    BY <1>1, <1>3 DEF HideCount
  <2>2. HideEnds'
    BY <2>1 DEF HideEnds, ShownAgain
  <2>3. "idle" \notin Walking
    BY DEF Walking
  <2>4. wpc'[s] = "look"
    BY <1>1, <2>1, <2>3, GoesFacts
  <2>5. HideComes'
    BY <1>1, <2>4 DEF HideComes, HiddenSoon
  <2> QED
    BY <1>2, <2>1, <2>2, <2>3, <2>5
<1>4. CASE HideLook(s)
  <2>1. wpc[s] = "look" /\ count' = count
    BY <1>4 DEF HideLook, Goes
  <2>2. count > 0
    <3>1. s \in Counted /\ Counted \in SUBSET Visits
      BY <2>1 DEF Counted
    <3>2. count # 0
      BY <3>1, SubsetSize, FS_EmptySet DEF HInv, RInv, TInv, Sizes
    <3> QED
      BY <1>1, <3>2
  <2>3. Goes(s, "look", "hide")
    BY <1>4, <2>2 DEF HideLook
  <2>4. "look" \notin Walking
    BY DEF Walking
  <2>5. wpc'[s] = "hide" /\ (~raced => \A p : Ahead(s, p)')
    BY <1>1, <2>3, <2>4, GoesFacts
  <2>6. HideEnds'
    BY <2>1, <2>2 DEF HideEnds, ShownAgain
  <2>7. ~raced => HideComes'
    BY <1>1, <2>5 DEF HideComes, HiddenSoon
  <2> QED
    BY <1>2, <2>3, <2>4, <2>6, <2>7
<1>5. CASE ShowCount(s)
  <2>1. Goes(s, "held", "showLook") /\ count' = count - 1
    BY <1>5 DEF ShowCount
  <2>2. count' > 0 => count > 0
    BY <1>1, <2>1
  <2>3. "held" \notin Walking
    BY DEF Walking
  <2>4. wpc'[s] = "showLook"
    BY <1>1, <2>1, <2>3, GoesFacts
  <2>5. HideEnds'
    BY <2>4 DEF HideEnds, ShownAgain
  <2>6. ~raced /\ ~cut => HideComes'
    BY <1>1, <2>1, <2>2, <2>3, GoesHides
  <2> QED
    BY <1>2, <2>1, <2>3, <2>5, <2>6
<1>6. CASE ShowLook(s)
  <2>1. count' = count
    BY <1>6 DEF ShowLook
  <2>2. PICK m : /\ Goes(s, "showLook", m)
                 /\ m = IF LastOut THEN "show" ELSE "done"
    BY <1>6 DEF ShowLook
  <2>3. "showLook" \notin Walking
    BY DEF Walking
  <2>4. wpc'[s] = m /\ (~raced => \A p : Ahead(s, p)')
    BY <1>1, <2>2, <2>3, GoesFacts
  <2>5. ~raced => HideEnds'
    <3>1. CASE count = 0
      BY <1>1, <2>2, <2>4, <3>1 DEF HideEnds, ShownAgain, LastOut
    <3>2. CASE count # 0
      <4>1. count' > 0
        BY <1>1, <2>1, <3>2
      <4> QED
        BY <4>1 DEF HideEnds, ShownAgain
    <3> QED
      BY <3>1, <3>2
  <2>6. ~raced /\ ~cut => HideComes'
    BY <1>1, <2>1, <2>2, <2>3, GoesHides
  <2> QED
    BY <1>2, <2>2, <2>3, <2>5, <2>6
<1> QED
  BY <1>3, <1>4, <1>5, <1>6

LEMMA QuitHInv ==
  ASSUME HInv, RInv', NEW force \in BOOLEAN, TerminateMe(force)
  PROVE  HInv'
<1>1. /\ "quit" \in Walkers /\ "main" # "quit" /\ \A s \in Visits : s \in Walkers /\ s # "quit"
      /\ Goes("quit", "idle", "leave") /\ count' = count /\ "quit" \notin Answers
  BY VisitsAssumption, AnswersAssumption DEF Walkers, TerminateMe
<1>2. "idle" \notin Walking
  BY DEF Walking
<1>3. /\ UNCHANGED <<raced, cut, hide, Body>> /\ wpc["quit"] = "idle" /\ wpc'["quit"] = "leave"
      /\ (~raced => Places' /\ Marks')
      /\ \A v \in Walkers : v # "quit" => wpc'[v] = wpc[v]
      /\ ~raced => \A v \in Walkers : \A p : Ahead(v, p) => Ahead(v, p)'
  BY <1>1, <1>2, GoesFacts
<1>4. Labelled'
  BY <1>1, <1>3 DEF HInv, Labelled, Walkers
<1>5. ASSUME ~raced, ~cut
      PROVE  HideEnds' /\ HideComes'
  <2>1. HideComes'
    BY <1>1, <1>2, <1>5, GoesHides
  <2>2. ASSUME NEW q \in hide \cap Body
        PROVE  ShownAgain(q)'
    <3>1. ShownAgain(q)
      BY <1>5, <2>2 DEF HInv, HideEnds
    <3>2. wpc'["main"] = wpc["main"]
      BY <1>1, <1>3 DEF Walkers
    <3>3. CASE wpc["main"] \in {"offline", "hide", "dial", "logout"} \/ count > 0
      BY <1>1, <3>2, <3>3 DEF ShownAgain
    <3>4. ASSUME NEW s \in Visits, wpc[s] = "showLook"
          PROVE  ShownAgain(q)'
      BY <1>1, <1>3, <3>4 DEF ShownAgain
    <3>5. ASSUME NEW v \in Walkers, wpc[v] = "show", Ahead(v, q)
          PROVE  ShownAgain(q)'
      BY <1>3, <1>5, <3>5 DEF ShownAgain
    <3> QED
      BY <3>1, <3>3, <3>4, <3>5 DEF ShownAgain
  <2>3. HideEnds'
    BY <1>3, <2>2 DEF HideEnds
  <2> QED
    BY <2>1, <2>3
<1> QED
  BY <1>3, <1>4, <1>5 DEF HInv

(* The server's answer is sent to the panels.                              *)
LEMMA AuthHInv ==
  ASSUME HInv, RInv', NEW a \in Answers, processAuth(a)
  PROVE  HInv'
<1>1. /\ a \in Walkers /\ a \notin {"main", "quit"}
      /\ \A s \in Visits : s \in Walkers /\ s # a
      /\ Goes(a, "idle", "auth") /\ count' = count
  BY AnswersAssumption DEF Walkers, processAuth
<1>2. "idle" \notin Walking
  BY DEF Walking
<1>3. /\ UNCHANGED <<raced, cut, hide, Body>> /\ wpc[a] = "idle" /\ wpc'[a] = "auth"
      /\ (~raced => Places' /\ Marks')
      /\ \A v \in Walkers : v # a => wpc'[v] = wpc[v]
      /\ ~raced => \A v \in Walkers : \A p : Ahead(v, p) => Ahead(v, p)'
  BY <1>1, <1>2, GoesFacts
<1>4. Labelled'
  BY <1>1, <1>3 DEF HInv, Labelled, Walkers
<1>5. ASSUME ~raced, ~cut
      PROVE  HideEnds' /\ HideComes'
  <2>1. HideComes'
    BY <1>1, <1>2, <1>5, GoesHides
  <2>2. ASSUME NEW q \in hide \cap Body
        PROVE  ShownAgain(q)'
    <3>1. ShownAgain(q)
      BY <1>5, <2>2 DEF HInv, HideEnds
    <3>2. wpc'["main"] = wpc["main"]
      BY <1>1, <1>3 DEF Walkers
    <3>3. CASE wpc["main"] \in {"offline", "hide", "dial", "logout"} \/ count > 0
      BY <1>1, <3>2, <3>3 DEF ShownAgain
    <3>4. ASSUME NEW s \in Visits, wpc[s] = "showLook"
          PROVE  ShownAgain(q)'
      BY <1>1, <1>3, <3>4 DEF ShownAgain
    <3>5. ASSUME NEW v \in Walkers, wpc[v] = "show", Ahead(v, q)
          PROVE  ShownAgain(q)'
      BY <1>3, <1>5, <3>5 DEF ShownAgain
    <3> QED
      BY <3>1, <3>3, <3>4, <3>5 DEF ShownAgain
  <2>3. HideEnds'
    BY <1>3, <2>2 DEF HideEnds
  <2> QED
    BY <2>1, <2>3
<1> QED
  BY <1>3, <1>4, <1>5 DEF HInv

LEMMA NextHInv == HInv /\ [Next]_vars => HInv'
<1> SUFFICES ASSUME HInv, [Next]_vars
             PROVE  HInv'
  OBVIOUS
<1>1. RInv'
  BY NextRInv DEF HInv
<1>2. ASSUME NEW p \in Panels, PushAt(p) \/ localHandler(p) \/ RemoveLink(p)
      PROVE  HInv'
  BY <1>1, <1>2, PanelHInv
<1>3. ASSUME NEW p \in Panels, LinkPanic(p)
      PROVE  HInv'
  <2>1. RInv /\ raced' = raced /\ wpc' = wpc /\ Labelled
    BY <1>3 DEF HInv, LinkPanic, history
  <2>2. raced'
    BY <1>3, <2>1, LinksLead DEF LinkPanic
  <2> QED
    BY <1>1, <2>1, <2>2 DEF HInv, Labelled
<1>4. ASSUME NEW w \in Walkers, sendMessageToLocalCons(w)
      PROVE  HInv'
  BY <1>1, <1>4, WalkToHInv, WalkEndHInv, WalkPanicHInv DEF sendMessageToLocalCons
<1>5. CASE MainDials \/ MainLoses
  BY <1>1, <1>5, MainHInv
<1>6. ASSUME NEW s \in Visits,
             HideCount(s) \/ HideLook(s) \/ ShowCount(s) \/ ShowLook(s)
      PROVE  HInv'
  BY <1>1, <1>6, VisitHInv
<1>7. ASSUME NEW force \in BOOLEAN, TerminateMe(force)
      PROVE  HInv'
  BY <1>1, <1>7, QuitHInv
<1>8. ASSUME NEW a \in Answers, processAuth(a)
      PROVE  HInv'
  BY <1>1, <1>8, AuthHInv
<1>9. CASE UNCHANGED vars
  <2>1. UNCHANGED <<pc, next, wpc, at, count, hide, real, late, raced, cut>>
    BY <1>9 DEF vars, ring, history, told
  <2>2. Body' = Body
    BY <2>1 DEF Body
  <2>3. \A w, p : Ahead(w, p)' <=> Ahead(w, p)
    BY <2>1, <2>2 DEF Ahead, Reaches
  <2>4. Labelled' /\ (~raced => Places' /\ Marks')
    BY <2>1 DEF HInv, Labelled, Places, Marks, Begun
  <2>5. ~raced /\ ~cut => HideEnds' /\ HideComes'
    BY <2>1, <2>2, <2>3 DEF HInv, HideEnds, HideComes, ShownAgain, HiddenSoon
  <2> QED
    BY <1>1, <2>1, <2>4, <2>5 DEF HInv
<1> QED
  BY <1>2, <1>3, <1>4, <1>5, <1>6, <1>7, <1>8, <1>9 DEF Next, Broadcasts

LEMMA InitHInv == Init => HInv
<1> SUFFICES ASSUME Init
             PROVE  HInv
  OBVIOUS
<1>1. RInv
  BY InitRInv
<1>2. /\ "main" \in Walkers /\ "quit" \in Walkers /\ wpc["main"] = "offline"
      /\ wpc["quit"] = "idle" /\ hide = {} /\ real = {} /\ count = 0
      /\ \A w \in Walkers : at[w] = Nil
      /\ \A a \in Answers : wpc[a] = "idle"
  BY AnswersAssumption DEF Init, Walkers
<1>3. Labelled /\ Places /\ Marks /\ HideEnds
  BY <1>2 DEF Labelled, Places, Marks, HideEnds
<1>4. HideComes
  BY <1>2 DEF HideComes
<1> QED
  BY <1>1, <1>3, <1>4 DEF HInv
-----------------------------------------------------------------------------
(* Every variable keeps its type; the length and the counter of visits     *)
(* stay within what came and went, races or not.                           *)
THEOREM TypeCorrect == Spec => []TypeOK
<1>1. TInv => TypeOK
  BY DEF TInv
<1> QED
  BY <1>1, InitTInv, NextTInv, PTL DEF Spec

(* No panels lead round in a ring without the root, however many of their  *)
(* goroutines link and unlink elements at once: every walk of              *)
(* sendMessageToLocalCons comes to an end (common.go:439).                 *)
THEOREM WalksEnd == Spec => []NoLoop
<1>1. OInv => NoLoop
  <2> SUFFICES ASSUME OInv, NEW T \in SUBSET Panels, T # {}, \A e \in T : After(e) \in T
               PROVE  FALSE
    BY DEF NoLoop
  <2>1. PICK beyond : Order(beyond) /\ Follows(beyond)
    BY DEF OInv, Ordered
  <2>2. PICK e \in T : beyond[e] \cap T = {}
    BY <2>1, SomeLast
  <2>3. After(e) \in T /\ After(e) # Nil
    BY PanelsAssumption
  <2>4. After(e) = next[e]
    BY <2>3 DEF After
  <2>5. next[e] \in beyond[e]
    BY <2>1, <2>3, <2>4 DEF Follows
  <2> QED
    BY <2>2, <2>3, <2>4, <2>5
<1> QED
  BY <1>1, InitOInv, NextOInv, PTL DEF Spec

(* As long as no two operations on the list overlapped it holds exactly    *)
(* the connected panels, linked both ways, and its length is their number  *)
(* (localHandler, main.go:209).                                            *)
THEOREM ListIsPanels == Spec => []AllStored
<1>1. RInv => AllStored
  BY WholeStored DEF AllStored, RInv, Settled, IsRing, Ring
<1> QED
  BY <1>1, InitRInv, NextRInv, PTL DEF Spec

(* A goroutine that dies of a nil link, or of the root taken for a panel,  *)
(* met an operation on the list that another one had not finished.         *)
THEOREM OnlyRacesCrash == Spec => []CrashIsRace
<1>1. Init => CrashIsRace
  BY VisitsAssumption DEF Init, CrashIsRace, Walkers
<1> QED
  BY <1>1, InitRInv, NextRInv, NextCrash, PTL DEF Spec

(* Whatever order MainClient, the visits and the panels run in, once the   *)
(* link is up and every visit and walk is over no panel is left hiding the *)
(* credentials, unless list operations overlapped or a walk was cut short  *)
(* (MainClient, showInfo, main.go:24).                                     *)
THEOREM CredentialsShownAgain == Spec => []Recovered
<1>1. HInv => Recovered
  <2> SUFFICES ASSUME HInv, NoWalk, wpc["main"] = "online", count = 0, ~raced, ~cut,
                      NEW q \in Stored \cap hide
               PROVE  FALSE
    BY DEF Recovered
  <2>1. ShownAgain(q)
    BY DEF HInv, HideEnds, Stored, Body, Linked
  <2>2. \A w \in Walkers : wpc[w] \notin {"show", "showLook"}
    BY DEF NoWalk, Walking
  <2> QED
    BY <2>1, <2>2 DEF ShownAgain, Walkers
<1> QED
  BY <1>1, InitHInv, NextHInv, PTL DEF Spec

(* During a visit every panel that was sent the credentials was told to    *)
(* hide them, whichever came first and whether they came with its greeting *)
(* or with the server's answer, unless a "0" reached it late, processAuth  *)
(* sent them during the visit to a panel that did not hide them, list      *)
(* operations overlapped or a walk was cut short (hideInfo,                *)
(* processLocalInfo, processAuth).                                         *)
THEOREM CredentialsCovered == Spec => []Covered
<1>1. HInv => Covered
  <2> SUFFICES ASSUME HInv, NoWalk, count > 0, ~raced, ~cut, ~late,
                      NEW q \in Stored, q \in real
               PROVE  q \in hide
    BY DEF Covered
  <2>1. HiddenSoon(q)
    BY DEF HInv, HideComes, Stored, Body, Linked
  <2>2. \A w \in Walkers : wpc[w] \notin {"hide", "look"}
    BY DEF NoWalk, Walking
  <2> QED
    BY <2>1, <2>2 DEF HiddenSoon
<1> QED
  BY <1>1, InitHInv, NextHInv, PTL DEF Spec
=============================================================================
