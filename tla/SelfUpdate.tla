----------------------------- MODULE SelfUpdate -----------------------------
(***************************************************************************)
(* UpdateMe: the new client is downloaded beside the old one, the running  *)
(* communicator and the client are renamed out of the way, the new client  *)
(* unpacks its communicator, and the process reloads.  Every step can fail *)
(* and the process can die between any two.  A file is abstracted to what  *)
(* it holds.  The file system is Windows', for which the names are.        *)
(***************************************************************************)
EXTENDS Integers

CONSTANTS
  Updaters,     \* goroutines that run UpdateMe
  MaxUpdates,   \* bound: updates asked for
  MaxCrashes    \* bound: deaths of the process

ASSUME BoundsAssumption == MaxUpdates \in Nat /\ MaxCrashes \in Nat

VARIABLES
  files,        \* what each file of the parent folder holds
  pc,           \* where an updater is
  damaged,      \* a rollback failed
  process,      \* "up", "panicked", "dead", "reloads"
  updates, crashes

vars == <<files, pc, damaged, process, updates, crashes>>

Names == {"comm", "client", "oldComm", "oldClient", "newClient"}
CommNames == {"comm", "oldComm"}
Contents(name) ==
  {"none", "part"} \cup
    IF name \in CommNames THEN {"comm1", "comm2"} ELSE {"client1", "client2"}
IsFolder(f) ==
  /\ f \in [Names -> UNION {Contents(n) : n \in Names}]
  /\ \A n \in Names : f[n] \in Contents(n)

(* comm is the running program's name (os.Args[0]), client is admin.exe;   *)
(* where each is renamed to, and where the download goes.                  *)
BackupShared == [comm |-> "oldClient", client |-> "oldClient"]  \* mutant: one name
Backup == [comm |-> "oldComm", client |-> "oldClient"]
Download == "newClient"

TypeOK ==
  /\ IsFolder(files)
  /\ pc \in [Updaters -> {"idle", "rmClient", "rmComm", "get", "open", "read", "write",
       "mvComm", "mvClient", "undoComm", "extract", "undoBoth", "undoClient", "mvNew",
       "undoNew", "reload"}]
  /\ damaged \in BOOLEAN
  /\ process \in {"up", "panicked", "dead", "reloads"}
  /\ updates \in 0 .. MaxUpdates /\ crashes \in 0 .. MaxCrashes

Installed == [comm |-> "comm1", client |-> "client1",
              oldComm |-> "none", oldClient |-> "none", newClient |-> "none"]

Init ==
  /\ files = Installed
  /\ pc = [u \in Updaters |-> "idle"]
  /\ damaged = FALSE
  /\ process = "up"
  /\ updates = 0 /\ crashes = 0

-----------------------------------------------------------------------------
(* os.Rename replaces what stands at the target; it fails when there is    *)
(* nothing to move, and may fail for reasons of the system.                *)
Moved(a, b) == [files EXCEPT ![b] = files[a], ![a] = "none"]

Goto(u, a, b) ==
  /\ process = "up"
  /\ pc[u] = a
  /\ pc' = [pc EXCEPT ![u] = b]
  /\ UNCHANGED <<updates, crashes, process>>

Rename(u, label, a, b, next) ==
  /\ files[a] # "none"
  /\ Goto(u, label, next)
  /\ files' = Moved(a, b)

Fails(u, label, next) == Goto(u, label, next) /\ UNCHANGED files
Kept == UNCHANGED damaged

Start(u) ==
  /\ process = "up"
  /\ pc[u] = "idle"
  /\ updates < MaxUpdates
  /\ updates' = updates + 1
  /\ pc' = [pc EXCEPT ![u] = "rmClient"]
  /\ UNCHANGED <<files, damaged, process, crashes>>

(* The backups of the last update go; a failure is only logged.            *)
RemoveOld(u, label, name, next) ==
  /\ Goto(u, label, next)
  /\ files' \in {files, [files EXCEPT ![name] = "none"]}
  /\ Kept

(* The answer is the new version, an error of the network, or a status     *)
(* other than OK, whose error value is nil: err.Error() panics.            *)
Get(u) ==
  /\ \/ Fails(u, "get", "open")
     \/ Fails(u, "get", "idle")
  /\ Kept

GetRefused(u) ==
  /\ process = "up" /\ pc[u] = "get"
  /\ process' = "panicked"
  /\ UNCHANGED <<files, pc, damaged, updates, crashes>>

(* The file is made with mode 0, which Windows keeps as read-only: opening *)
(* it again to write is denied.                                            *)
ReadOnly(name) == name = "newClient" /\ files[name] # "none"
OpenNew(u) ==
  /\ ~ReadOnly(Download)
  /\ Goto(u, "open", "read")
  /\ files' = [files EXCEPT ![Download] = "part"]
  /\ Kept

OpenFails(u) == Fails(u, "open", "idle") /\ Kept
Read(u) == (Fails(u, "read", "write") \/ Fails(u, "read", "idle")) /\ Kept

Write(u) ==
  /\ \/ Goto(u, "write", "mvComm") /\ files' = [files EXCEPT ![Download] = "client2"]
     \/ Fails(u, "write", "idle")
  /\ Kept

-----------------------------------------------------------------------------
MoveComm(u) ==
  /\ \/ Rename(u, "mvComm", "comm", Backup["comm"], "mvClient")
     \/ Fails(u, "mvComm", "idle")
  /\ Kept

MoveClient(u) ==
  /\ \/ Rename(u, "mvClient", "client", Backup["client"], "extract")
     \/ Fails(u, "mvClient", "undoComm")
  /\ Kept

(* The new client unpacks the communicator beside itself (external), or    *)
(* fails with nothing or a part of it written.                             *)
AfterFailedExtractOn == "mvNew"                            \* mutant: error ignored
AfterFailedExtract == "undoBoth"
Extract(u) ==
  /\ \/ Goto(u, "extract", "mvNew") /\ files' = [files EXCEPT !["comm"] = "comm2"]
     \/ /\ Goto(u, "extract", AfterFailedExtract)
        /\ files' \in {files, [files EXCEPT !["comm"] = "part"]}
  /\ Kept

MoveNew(u) ==
  /\ \/ Rename(u, "mvNew", "newClient", "client", "reload")
     \/ Fails(u, "mvNew", "undoNew")
  /\ Kept

(* Rolling back, one rename after the other; the first that fails ends it. *)
Undo(u, label, name, next) ==
  \/ /\ Rename(u, label, Backup[name], name, next)
     /\ UNCHANGED damaged
  \/ /\ Fails(u, label, "idle")
     /\ damaged' = TRUE

Rollback(u) ==
  \/ Undo(u, "undoComm", "comm", "idle")
  \/ Undo(u, "undoBoth", "comm", "undoClient")
  \/ Undo(u, "undoClient", "client", "idle")
  \/ Undo(u, "undoNew", "client", "reload")

(* ReloadMe succeeds: the process leaves for the communicator on disk.     *)
Reload(u) ==
  /\ process = "up" /\ pc[u] = "reload"
  /\ process' = "reloads"
  /\ UNCHANGED <<files, pc, damaged, updates, crashes>>

(* Or the new one cannot be started: the process goes on, and nothing of   *)
(* the update is taken back on disk.                                       *)
ReloadFails(u) == Fails(u, "reload", "idle") /\ Kept

UpdateMe(u) ==
  \/ RemoveOld(u, "rmClient", "oldClient", "rmComm")
  \/ RemoveOld(u, "rmComm", "oldComm", "get")
  \/ Get(u) \/ GetRefused(u) \/ OpenNew(u) \/ OpenFails(u) \/ Read(u) \/ Write(u)
  \/ MoveComm(u) \/ MoveClient(u) \/ Extract(u) \/ MoveNew(u) \/ Rollback(u) \/ Reload(u)
  \/ ReloadFails(u)

-----------------------------------------------------------------------------
Crash ==
  /\ process = "up"
  /\ crashes < MaxCrashes
  /\ crashes' = crashes + 1
  /\ process' = "dead"
  /\ UNCHANGED <<files, pc, damaged, updates>>

(* Whoever runs the communicator starts it again, if there is one to run.  *)
Runnable == files["comm"] \in {"comm1", "comm2"}
Restart ==
  /\ process \in {"dead", "panicked", "reloads"}
  /\ Runnable
  /\ process' = "up"
  /\ pc' = [u \in Updaters |-> "idle"]
  /\ UNCHANGED <<files, damaged, updates, crashes>>

Next == (\E u \in Updaters : Start(u) \/ UpdateMe(u)) \/ Crash \/ Restart

Spec == Init /\ [][Next]_vars

-----------------------------------------------------------------------------
(* Unless a roll back failed, a communicator that runs is in its place or  *)
(* under its old_ name, and a client in its place, under its old_ name or  *)
(* as it was downloaded, wherever UpdateMe fails or the process dies       *)
(* (common.go:270-356).                                                    *)
KeepsPrograms ==
  \/ damaged
  \/ /\ Runnable \/ files["oldComm"] \in {"comm1", "comm2"}
     /\ \E n \in {"client", "oldClient", "newClient"} : files[n] \in {"client1", "client2"}

(* The process reloads only into the communicator that was unpacked.       *)
ReloadsNew == process = "reloads" => files["comm"] = "comm2"
=============================================================================
