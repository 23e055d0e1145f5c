-------------------------- MODULE SelfUpdateProofs --------------------------
(***************************************************************************)
(* Theorems about SelfUpdate, for any number of updates and deaths of the  *)
(* process, the type invariant for any number of goroutines that update.   *)
(***************************************************************************)
EXTENDS SelfUpdate, TLAPS

(* One goroutine runs UpdateMe.  Nothing in the code keeps a second        *)
(* message of the server from starting another.                            *)
OneUpdater == \E u : Updaters = {u}

(* What stands in a file can be run.                                       *)
CommRuns(name) == files[name] \in {"comm1", "comm2"}
ClientRuns(name) == files[name] \in {"client1", "client2"}

(* What UpdateMe has on disk at each of its points, whatever came before:  *)
(* a communicator in its place but between the first rename and its        *)
(* extraction or return; the client in its place, and beside it the new    *)
(* one as soon as that is written.                                         *)
Quiet == {"idle", "rmClient", "rmComm", "get", "open"}
Loading == {"read", "write"}
Swapping == {"mvClient", "undoComm", "extract", "undoBoth"}
Extracted == {"mvNew", "undoNew", "reload"}

OnDisk(u) ==
  /\ pc[u] \in Quiet \cup Loading \cup {"mvComm", "undoClient"} => CommRuns("comm")
  /\ pc[u] \in Loading \cup {"mvComm", "mvClient"} => ClientRuns("client")
  /\ pc[u] \in Swapping => CommRuns("oldComm")
  /\ pc[u] \in Swapping \cup {"mvComm", "undoClient", "mvNew", "undoNew"} =>
       ClientRuns("newClient")
  /\ pc[u] \in {"extract", "undoBoth", "undoClient", "mvNew", "undoNew"} =>
       ClientRuns("oldClient")

(* A client is in its place or downloaded.                                 *)
SomeClient == ClientRuns("client") \/ ClientRuns("newClient")

Safe == damaged \/ (SomeClient /\ \A u \in Updaters : OnDisk(u))

(* From the extraction to the reload the communicator is the new one.      *)
Unpacked ==
  /\ \A u \in Updaters : pc[u] \in Extracted => files["comm"] = "comm2"
  /\ ReloadsNew

SInv == TypeOK /\ Safe /\ Unpacked

-----------------------------------------------------------------------------
LEMMA Constants ==
  /\ Names = {"comm", "client", "oldComm", "oldClient", "newClient"}
  /\ Backup["comm"] = "oldComm" /\ Backup["client"] = "oldClient"
  /\ Download = "newClient"
  BY DEF Names, Backup, Download

LEMMA InitSInv == Init => SInv
<1> SUFFICES ASSUME Init PROVE SInv
  OBVIOUS
<1>1. files = [n \in Names |-> files[n]]
  BY DEF Init, Installed, Names
<1>2. files["comm"] = "comm1" /\ files["client"] = "client1"
  BY DEF Init, Installed
<1>3. files["oldComm"] = "none" /\ files["oldClient"] = "none" /\ files["newClient"] = "none"
  BY DEF Init, Installed
<1>4. IsFolder(files)
  <2>1. \A n \in Names : files[n] \in Contents(n)
    BY <1>2, <1>3 DEF Names, CommNames, Contents
  <2> QED
    BY <1>1, <2>1 DEF IsFolder
<1>5. TypeOK
  <2>1. 0 \in 0 .. MaxUpdates /\ 0 \in 0 .. MaxCrashes
    BY BoundsAssumption
  <2> QED
    BY <1>4, <2>1 DEF Init, TypeOK
<1>6. Safe /\ Unpacked
  <2>1. \A u \in Updaters : pc[u] = "idle"
    BY DEF Init
  <2>2. process = "up"
    BY DEF Init
  <2>3. SomeClient /\ CommRuns("comm")
    BY <1>2 DEF SomeClient, CommRuns, ClientRuns
  <2> QED
    BY <2>1, <2>2, <2>3 DEF Safe, OnDisk, Unpacked, ReloadsNew, Quiet, Loading, Swapping, Extracted
<1> QED
  BY <1>5, <1>6 DEF SInv

(* Files are renamed between places for the same kind of program.          *)
LEMMA MovedIsFolder ==
  ASSUME IsFolder(files), NEW a \in Names, NEW b \in Names,
         {a, b} \subseteq CommNames \/ {a, b} \cap CommNames = {}
  PROVE  /\ IsFolder(Moved(a, b))
         /\ \A n \in Names :
              Moved(a, b)[n] = IF n = a THEN "none" ELSE IF n = b THEN files[a] ELSE files[n]
  BY DEF IsFolder, Moved, Contents, CommNames, Names

LEMMA WrittenIsFolder ==
  ASSUME IsFolder(files), NEW a \in Names, NEW x \in Contents(a)
  PROVE  /\ IsFolder([files EXCEPT ![a] = x])
         /\ \A n \in Names : [files EXCEPT ![a] = x][n] = IF n = a THEN x ELSE files[n]
  BY DEF IsFolder, Contents, CommNames, Names

(* What a step of UpdateMe does to the folder.                             *)
LEMMA UpdateFiles ==
  ASSUME TypeOK, NEW u \in Updaters, UpdateMe(u)
  PROVE  IsFolder(files')
<1> USE DEF TypeOK
<1>1. \A n \in Names : "none" \in Contents(n) /\ "part" \in Contents(n)
  BY DEF Contents
<1>2. CASE RemoveOld(u, "rmClient", "oldClient", "rmComm")
           \/ RemoveOld(u, "rmComm", "oldComm", "get")
  BY <1>1, <1>2, WrittenIsFolder DEF RemoveOld, Names
<1>3. CASE OpenNew(u)
  BY <1>1, <1>3, WrittenIsFolder DEF OpenNew, Download, Names
<1>4. CASE Write(u)
  <2>1. "client2" \in Contents("newClient")
    BY DEF Contents, CommNames
  <2> QED
    BY <1>4, <2>1, WrittenIsFolder DEF Write, Fails, Download, Names
<1>5. CASE Extract(u)
  <2>1. "comm2" \in Contents("comm") /\ "part" \in Contents("comm")
    BY DEF Contents, CommNames
  <2> QED
    BY <1>5, <2>1, WrittenIsFolder DEF Extract, Names
<1>6. CASE MoveComm(u) \/ MoveClient(u) \/ MoveNew(u)
  BY <1>6, MovedIsFolder, Constants DEF MoveComm, MoveClient, MoveNew, Rename, Fails, CommNames
<1>7. CASE Rollback(u)
  BY <1>7, MovedIsFolder, Constants DEF Rollback, Undo, Rename, Fails, CommNames
<1>8. CASE Get(u) \/ GetRefused(u) \/ OpenFails(u) \/ Read(u) \/ Reload(u) \/ ReloadFails(u)
  BY <1>8 DEF Get, GetRefused, OpenFails, Read, Reload, ReloadFails, Fails
<1> QED
  BY <1>2, <1>3, <1>4, <1>5, <1>6, <1>7, <1>8 DEF UpdateMe

LEMMA NextTypeOK == TypeOK /\ [Next]_vars => TypeOK'
<1> SUFFICES ASSUME TypeOK, [Next]_vars
             PROVE  TypeOK'
  OBVIOUS
<1>1. ASSUME NEW u \in Updaters, Start(u)
      PROVE  TypeOK'
  BY <1>1, BoundsAssumption DEF Start, TypeOK
<1>2. ASSUME NEW u \in Updaters, UpdateMe(u)
      PROVE  TypeOK'
  <2>1. /\ damaged' \in BOOLEAN
        /\ process' \in {"up", "panicked", "dead", "reloads"}
        /\ UNCHANGED <<updates, crashes>>
    BY <1>2 DEF UpdateMe, RemoveOld, Get, GetRefused, OpenNew, OpenFails, Read, Write, MoveComm,
                MoveClient, Extract, MoveNew, Rollback, Undo, Reload, ReloadFails, Rename, Fails,
                Goto, Kept, TypeOK
  <2>2. pc' = pc \/ \E b \in {"idle", "rmComm", "get", "open", "read", "write",
          "mvComm", "mvClient", "undoComm", "extract", "undoBoth", "undoClient", "mvNew",
          "undoNew", "reload"} : pc' = [pc EXCEPT ![u] = b]
    BY <1>2 DEF UpdateMe, RemoveOld, Get, GetRefused, OpenNew, OpenFails, Read, Write, MoveComm,
                MoveClient, Extract, MoveNew, Rollback, Undo, Reload, ReloadFails, Rename, Fails,
                Goto, AfterFailedExtract
  <2> QED
    BY <1>2, <2>1, <2>2, UpdateFiles DEF TypeOK
<1>3. CASE Crash
  BY <1>3, BoundsAssumption DEF Crash, TypeOK
<1>4. CASE Restart
  BY <1>4 DEF Restart, TypeOK
<1>5. CASE UNCHANGED vars
  BY <1>5 DEF vars, TypeOK
<1> QED
  BY <1>1, <1>2, <1>3, <1>4, <1>5 DEF Next

-----------------------------------------------------------------------------
(* A step of the one updater that leads from label l to label m: what it   *)
(* leaves on disk has to be right for m.                                   *)
LEMMA Goes ==
  ASSUME OneUpdater, SInv, TypeOK', NEW u \in Updaters, NEW l, NEW m,
         Goto(u, l, m), SomeClient',
         CommRuns("comm")' \/ m \notin Quiet \cup Loading \cup {"mvComm", "undoClient"},
         ClientRuns("client")' \/ m \notin Loading \cup {"mvComm", "mvClient"},
         CommRuns("oldComm")' \/ m \notin Swapping,
         ClientRuns("newClient")'
           \/ m \notin Swapping \cup {"mvComm", "undoClient", "mvNew", "undoNew"},
         ClientRuns("oldClient")'
           \/ m \notin {"extract", "undoBoth", "undoClient", "mvNew", "undoNew"}
  PROVE  Safe'
<1>1. pc'[u] = m
  BY DEF Goto, SInv, TypeOK
<1>2. OnDisk(u)'
  BY <1>1 DEF OnDisk
<1>3. \A v \in Updaters : v = u
  BY DEF OneUpdater
<1> QED
  BY <1>2, <1>3 DEF Safe

(* Every step of UpdateMe keeps the programs, or damages a rollback.       *)
LEMMA UpdateSafe ==
  ASSUME OneUpdater, SInv, TypeOK', NEW u \in Updaters, UpdateMe(u)
  PROVE  Safe'
<1> SUFFICES ASSUME ~damaged, ~damaged'
             PROVE  Safe'
  BY DEF Safe, UpdateMe, RemoveOld, Get, GetRefused, OpenNew, OpenFails, Read, Write, MoveComm,
         MoveClient, Extract, MoveNew, Rollback, Undo, Reload, ReloadFails, Kept
<1>1. SomeClient /\ OnDisk(u) /\ IsFolder(files)
  BY DEF SInv, Safe, TypeOK
<1> USE Constants DEF Quiet, Loading, Swapping
<1>2. ASSUME NEW l \in {"get", "open", "read", "write", "mvComm"}, Fails(u, l, "idle")
      PROVE  Safe'
  <2>1. CommRuns("comm") /\ files' = files /\ Goto(u, l, "idle")
    BY <1>1, <1>2 DEF Fails, Goto, OnDisk
  <2> QED
    BY <1>1, <2>1, Goes DEF SomeClient, CommRuns, ClientRuns
<1>3. CASE RemoveOld(u, "rmClient", "oldClient", "rmComm")
  <2>1. /\ pc[u] = "rmClient" /\ Goto(u, "rmClient", "rmComm")
        /\ \A n \in {"comm", "client", "newClient"} : files'[n] = files[n]
    <3>1. \A n \in Names : "none" \in Contents(n)
      BY DEF Contents
    <3>2. \A a \in Names, n \in Names : n # a => [files EXCEPT ![a] = "none"][n] = files[n]
      BY <1>1, <3>1, WrittenIsFolder
    <3> QED
      BY <1>3, <3>2 DEF RemoveOld, Goto
  <2> QED
    BY <1>1, <2>1, Goes DEF OnDisk, SomeClient, CommRuns, ClientRuns
<1>4. CASE RemoveOld(u, "rmComm", "oldComm", "get")
  <2>1. /\ pc[u] = "rmComm" /\ Goto(u, "rmComm", "get")
        /\ \A n \in {"comm", "client", "newClient"} : files'[n] = files[n]
    <3>1. \A n \in Names : "none" \in Contents(n)
      BY DEF Contents
    <3>2. \A a \in Names, n \in Names : n # a => [files EXCEPT ![a] = "none"][n] = files[n]
      BY <1>1, <3>1, WrittenIsFolder
    <3> QED
      BY <1>4, <3>2 DEF RemoveOld, Goto
  <2> QED
    BY <1>1, <2>1, Goes DEF OnDisk, SomeClient, CommRuns, ClientRuns
<1>5. CASE Fails(u, "get", "open")
  BY <1>1, <1>5, Goes DEF Fails, Goto, OnDisk, SomeClient, CommRuns, ClientRuns
<1>6. CASE GetRefused(u) \/ Reload(u)
  BY <1>6 DEF GetRefused, Reload, SInv, Safe, SomeClient, OnDisk, CommRuns, ClientRuns
<1>7. CASE OpenNew(u)
  <2>1. files["newClient"] = "none" /\ ClientRuns("client")
    BY <1>1, <1>7 DEF OpenNew, ReadOnly, SomeClient, ClientRuns
  <2>2. /\ pc[u] = "open" /\ Goto(u, "open", "read")
        /\ \A n \in Names : n # "newClient" => files'[n] = files[n]
    BY <1>1, <1>7, WrittenIsFolder DEF OpenNew, Goto, Contents
  <2> QED
    BY <1>1, <2>1, <2>2, Goes DEF OnDisk, SomeClient, CommRuns, ClientRuns
<1>8. CASE Fails(u, "read", "write")
  BY <1>1, <1>8, Goes DEF Fails, Goto, OnDisk, SomeClient, CommRuns, ClientRuns
<1>9. CASE Goto(u, "write", "mvComm") /\ files' = [files EXCEPT ![Download] = "client2"]
  <2>1. "client2" \in Contents("newClient")
    BY DEF Contents, CommNames
  <2>2. /\ pc[u] = "write"
        /\ \A n \in Names : files'[n] = IF n = "newClient" THEN "client2" ELSE files[n]
    BY <1>1, <1>9, <2>1, WrittenIsFolder DEF Goto
  <2> QED
    BY <1>1, <1>9, <2>2, Goes DEF OnDisk, SomeClient, CommRuns, ClientRuns
<1>10. CASE Rename(u, "mvComm", "comm", "oldComm", "mvClient")
  <2>1. /\ pc[u] = "mvComm" /\ Goto(u, "mvComm", "mvClient")
        /\ \A n \in Names : files'[n] = IF n = "comm" THEN "none"
                                        ELSE IF n = "oldComm" THEN files["comm"] ELSE files[n]
    BY <1>1, <1>10, MovedIsFolder DEF Rename, Goto, CommNames
  <2> QED
    BY <1>1, <2>1, Goes DEF OnDisk, SomeClient, CommRuns, ClientRuns
<1>11. CASE Rename(u, "mvClient", "client", "oldClient", "extract")
  <2>1. /\ pc[u] = "mvClient" /\ Goto(u, "mvClient", "extract")
        /\ \A n \in Names : files'[n] = IF n = "client" THEN "none"
                                        ELSE IF n = "oldClient" THEN files["client"] ELSE files[n]
    BY <1>1, <1>11, MovedIsFolder DEF Rename, Goto, CommNames
  <2> QED
    BY <1>1, <2>1, Goes DEF OnDisk, SomeClient, CommRuns, ClientRuns
<1>12. CASE Fails(u, "mvClient", "undoComm")
  BY <1>1, <1>12, Goes DEF Fails, Goto, OnDisk, SomeClient, CommRuns, ClientRuns
<1>13. CASE Extract(u)
  <2>1. PICK m \in {"mvNew", "undoBoth"}, x \in {files["comm"], "part", "comm2"} :
          /\ Goto(u, "extract", m) /\ files' = [files EXCEPT !["comm"] = x]
    <3>1. [files EXCEPT !["comm"] = files["comm"]] = files
      BY <1>1 DEF IsFolder
    <3> QED
      BY <1>13, <3>1 DEF Extract, AfterFailedExtract
  <2>2. x \in Contents("comm")
    BY <1>1 DEF Contents, CommNames, IsFolder
  <2>3. pc[u] = "extract"
    BY <2>1 DEF Goto
  <2>4. \A n \in Names : n # "comm" => files'[n] = files[n]
    BY <1>1, <2>1, <2>2, WrittenIsFolder
  <2>5. ClientRuns("newClient")' /\ ClientRuns("oldClient")' /\ CommRuns("oldComm")'
    BY <1>1, <2>3, <2>4 DEF OnDisk, CommRuns, ClientRuns
  <2> QED
    BY <2>1, <2>5, Goes DEF SomeClient
<1>14. CASE Rename(u, "mvNew", "newClient", "client", "reload")
  <2>1. /\ pc[u] = "mvNew" /\ Goto(u, "mvNew", "reload")
        /\ \A n \in Names : files'[n] = IF n = "newClient" THEN "none"
                                        ELSE IF n = "client" THEN files["newClient"] ELSE files[n]
    BY <1>1, <1>14, MovedIsFolder DEF Rename, Goto, CommNames
  <2> QED
    BY <1>1, <2>1, Goes DEF OnDisk, SomeClient, CommRuns, ClientRuns
<1>15. CASE Fails(u, "mvNew", "undoNew")
  BY <1>1, <1>15, Goes DEF Fails, Goto, OnDisk, SomeClient, CommRuns, ClientRuns
<1>16. CASE Rename(u, "undoComm", "oldComm", "comm", "idle")
  <2>1. /\ pc[u] = "undoComm" /\ Goto(u, "undoComm", "idle")
        /\ \A n \in Names : files'[n] = IF n = "oldComm" THEN "none"
                                        ELSE IF n = "comm" THEN files["oldComm"] ELSE files[n]
    BY <1>1, <1>16, MovedIsFolder DEF Rename, Goto, CommNames
  <2> QED
    BY <1>1, <2>1, Goes DEF OnDisk, SomeClient, CommRuns, ClientRuns
<1>17. CASE Rename(u, "undoBoth", "oldComm", "comm", "undoClient")
  <2>1. /\ pc[u] = "undoBoth" /\ Goto(u, "undoBoth", "undoClient")
        /\ \A n \in Names : files'[n] = IF n = "oldComm" THEN "none"
                                        ELSE IF n = "comm" THEN files["oldComm"] ELSE files[n]
    BY <1>1, <1>17, MovedIsFolder DEF Rename, Goto, CommNames
  <2> QED
    BY <1>1, <2>1, Goes DEF OnDisk, SomeClient, CommRuns, ClientRuns
<1>18. CASE Rename(u, "undoClient", "oldClient", "client", "idle")
  <2>1. /\ pc[u] = "undoClient" /\ Goto(u, "undoClient", "idle")
        /\ \A n \in Names : files'[n] = IF n = "oldClient" THEN "none"
                                        ELSE IF n = "client" THEN files["oldClient"] ELSE files[n]
    BY <1>1, <1>18, MovedIsFolder DEF Rename, Goto, CommNames
  <2> QED
    BY <1>1, <2>1, Goes DEF OnDisk, SomeClient, CommRuns, ClientRuns
<1>19. CASE Rename(u, "undoNew", "oldClient", "client", "reload")
  <2>1. /\ pc[u] = "undoNew" /\ Goto(u, "undoNew", "reload")
        /\ \A n \in Names : files'[n] = IF n = "oldClient" THEN "none"
                                        ELSE IF n = "client" THEN files["oldClient"] ELSE files[n]
    BY <1>1, <1>19, MovedIsFolder DEF Rename, Goto, CommNames
  <2> QED
    BY <1>1, <2>1, Goes DEF OnDisk, SomeClient, CommRuns, ClientRuns
<1>20. CASE ReloadFails(u)
  <2>1. files["comm"] = "comm2" /\ files' = files /\ Goto(u, "reload", "idle")
    BY <1>20 DEF ReloadFails, Fails, Goto, SInv, Unpacked, Extracted
  <2> QED
    BY <1>1, <2>1, Goes DEF SomeClient, CommRuns, ClientRuns
<1>21. CASE Rollback(u)
  BY <1>16, <1>17, <1>18, <1>19, <1>21 DEF Rollback, Undo
<1> QED
  BY <1>2, <1>3, <1>4, <1>5, <1>6, <1>7, <1>8, <1>9, <1>10, <1>11, <1>12, <1>13, <1>14, <1>15,
     <1>20, <1>21
     DEF UpdateMe, Get, OpenFails, Read, Write, MoveComm, MoveClient, MoveNew

(* Only the extraction leads to the reload, and nothing else then touches  *)
(* the communicator.                                                       *)
LEMMA UpdateUnpacked ==
  ASSUME OneUpdater, SInv, NEW u \in Updaters, UpdateMe(u)
  PROVE  Unpacked'
<1>0. /\ IsFolder(files) /\ \A v \in Updaters : v = u
      /\ pc[u] \in Extracted => files["comm"] = "comm2"
  BY DEF SInv, TypeOK, OneUpdater, Unpacked
<1>1. CASE Reload(u)
  BY <1>0, <1>1 DEF Reload, SInv, Unpacked, ReloadsNew, Extracted
<1>2. CASE GetRefused(u)
  BY <1>2 DEF GetRefused, SInv, Unpacked, ReloadsNew
<1>3. CASE Extract(u)
  <2>1. /\ process' = "up"
        /\ pc'[u] \in Extracted => pc'[u] = "mvNew"
        /\ pc'[u] = "mvNew" => files'["comm"] = "comm2"
    BY <1>0, <1>3, Constants
       DEF Extract, AfterFailedExtract, Goto, SInv, TypeOK, Extracted, IsFolder
  <2> QED
    BY <1>0, <2>1 DEF Unpacked, ReloadsNew, Extracted
<1>4. CASE MoveNew(u) \/ Undo(u, "undoNew", "client", "reload")
  <2>1. /\ process' = "up" /\ pc[u] \in Extracted
        /\ files'["comm"] = files["comm"]
    BY <1>0, <1>4, Constants, MovedIsFolder
       DEF MoveNew, Undo, Rename, Fails, Goto, Extracted, CommNames
  <2> QED
    BY <1>0, <2>1 DEF Unpacked, ReloadsNew
<1>5. ASSUME NEW l, NEW m, m \notin Extracted, Goto(u, l, m)
      PROVE  Unpacked'
  BY <1>0, <1>5 DEF Goto, SInv, TypeOK, Unpacked, ReloadsNew
<1> QED
  BY <1>1, <1>2, <1>3, <1>4, <1>5
     DEF UpdateMe, RemoveOld, Get, OpenNew, OpenFails, Read, Write, MoveComm, MoveClient,
         Rollback, Undo, Rename, ReloadFails, Fails, Extracted

LEMMA NextSInv ==
  ASSUME OneUpdater
  PROVE  SInv /\ [Next]_vars => SInv'
<1> SUFFICES ASSUME SInv, [Next]_vars
             PROVE  Safe' /\ Unpacked'
  BY NextTypeOK DEF SInv
<1>0. TypeOK /\ TypeOK'
  BY NextTypeOK DEF SInv
<1>1. ASSUME NEW u \in Updaters, Start(u)
      PROVE  Safe' /\ Unpacked'
  BY <1>0, <1>1
     DEF Start, SInv, Safe, SomeClient, OnDisk, CommRuns, ClientRuns, Unpacked, ReloadsNew,
         Quiet, Loading, Swapping, Extracted, TypeOK
<1>2. ASSUME NEW u \in Updaters, UpdateMe(u)
      PROVE  Safe' /\ Unpacked'
  BY <1>0, <1>2, UpdateSafe, UpdateUnpacked
<1>3. CASE Crash
  BY <1>3 DEF Crash, SInv, Safe, SomeClient, OnDisk, CommRuns, ClientRuns, Unpacked, ReloadsNew
<1>4. CASE Restart
  BY <1>4 DEF Restart, Runnable, SInv, Safe, SomeClient, OnDisk, CommRuns, ClientRuns, Unpacked,
              ReloadsNew, Quiet, Loading, Swapping, Extracted
<1>5. CASE UNCHANGED vars
  BY <1>5 DEF vars, SInv, Safe, SomeClient, OnDisk, CommRuns, ClientRuns, Unpacked, ReloadsNew
<1> QED
  BY <1>1, <1>2, <1>3, <1>4, <1>5 DEF Next

-----------------------------------------------------------------------------
(* The folder holds five files of known contents, and UpdateMe is where    *)
(* the code says, for any number of updaters.                              *)
THEOREM TypeCorrect == Spec => []TypeOK
<1>1. SInv => TypeOK
  BY DEF SInv
<1> QED
  BY <1>1, InitSInv, NextTypeOK, PTL DEF Spec

(* Wherever UpdateMe fails or the process dies, however often, a program   *)
(* that runs is left of each kind, unless a rollback itself failed         *)
(* (processor/common.go:270-356).                                          *)
THEOREM ProgramsKept ==
  ASSUME OneUpdater
  PROVE  Spec => []KeepsPrograms
<1>1. SInv => KeepsPrograms
  <2> SUFFICES ASSUME SInv, ~damaged
               PROVE  KeepsPrograms
    BY DEF KeepsPrograms
  <2>1. PICK u \in Updaters : OnDisk(u) /\ SomeClient
    BY DEF SInv, Safe, OneUpdater
  <2>2. Runnable \/ files["oldComm"] \in {"comm1", "comm2"}
    BY <2>1 DEF SInv, TypeOK, Unpacked, OnDisk, CommRuns, Runnable, Quiet, Loading, Swapping,
                Extracted
  <2> QED
    BY <2>1, <2>2 DEF KeepsPrograms, SomeClient, ClientRuns
<1>2. SInv /\ [Next]_vars => SInv'
  BY NextSInv
<1> QED
  BY <1>1, <1>2, InitSInv, PTL DEF Spec

(* The process reloads only into the communicator that was unpacked, even  *)
(* after a rollback that failed (processor/common.go:337-356).             *)
THEOREM ReloadsUnpacked ==
  ASSUME OneUpdater
  PROVE  Spec => []ReloadsNew
<1>1. SInv => ReloadsNew
  BY DEF SInv, Unpacked
<1>2. SInv /\ [Next]_vars => SInv'
  BY NextSInv
<1> QED
  BY <1>1, <1>2, InitSInv, PTL DEF Spec
=============================================================================
