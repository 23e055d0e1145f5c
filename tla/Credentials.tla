----------------------------- MODULE Credentials -----------------------------
(***************************************************************************)
(* The password of this machine: the copies of it that the program keeps   *)
(* (clear in CleanPass, encrypted in Pass, encrypted in options.cfg), the  *)
(* identifier it is encrypted with, and the handlers that read, generate,  *)
(* set and save it (processor/common.go, handlers.go, common/utils.go).    *)
(* Handlers run concurrently and share the options without a lock.         *)
(***************************************************************************)
EXTENDS Cipher

CONSTANTS
  Handlers,     \* goroutines that run a handler
  Pids,         \* identifiers the server may assign
  Texts,        \* passwords the user may set
  Random,       \* passwords the program may generate
  Samples,      \* bound: texts of ASCII the cipher is checked on
  Absent, Empty, Torn, \* states of options.cfg in which it holds no password
  MaxMessages,  \* bound: messages handled in one life of the process
  MaxStarts     \* bound: starts of the process

LengthPass == 6

ASSUME TextsAssumption == Random \subseteq Texts
ASSUME PidsAssumption == \A p \in Pids : p \in Seq(0 .. 255) /\ p # <<>>
ASSUME RandomAssumption == \A t \in Random : t \in Seq(48 .. 89) /\ Len(t) = LengthPass
ASSUME SamplesAssumption == \A t \in Samples : t \in Seq(0 .. 127) /\ Len(t) <= 127
ASSUME BoundsAssumption == MaxMessages \in Nat /\ MaxStarts \in Nat

VARIABLES
  life,         \* "down", "up" or "crashed"
  pid,          \* myClient.Pid
  pass, clean,  \* common.Options.Pass and CleanPass
  file,         \* Pass in options.cfg, or the state of that file
  pc, given,    \* where a handler is, and the password it was given
  decoded,      \* what its DecXOR returned
  after,        \* what it does after SaveOptions
  overlap,      \* two handlers have run at once
  unsaved,      \* the last SaveOptions (or removal of the file) failed
  messages, starts

memory == <<pid, pass, clean>>
disk == <<file, unsaved>>
locals == <<given, decoded, after>>
process == <<life, overlap, messages, starts>>
vars == <<process, memory, disk, pc, locals>>

NoPid == <<>>
NoText == <<>>
None == [text |-> NoText, key |-> NoPid]

(* What EncXOR made of a text and an identifier (with none it divides by   *)
(* zero), and what DecXOR makes of that with an identifier.                *)
Ciphers == [text : Texts, key : Pids]
ASSUME FilesAssumption ==
  Absent # Empty /\ {Absent, Empty, Torn} \cap (Ciphers \cup {None}) = {}
Readings ==
  {[cipher |-> c, key |-> k, got |-> DecXOR(EncXOR(c.text, c.key), k)] : c \in Ciphers, k \in Pids}
Got(c, k) == {r.got : r \in {q \in Readings : q.cipher = c /\ q.key = k}}
OpenedAs(c, k) == {g.text : g \in {r \in Got(c, k) : r.outcome = "opens"}}
DecPanics(c, k) == \E g \in Got(c, k) : g.outcome = "panics"
Passwords == Texts \union {r.got.text : r \in Readings}

Labels ==
  {"idle", "auth", "generate", "setClean", "setPass", "create", "write", "get",
   "store", "renew", "remove"}

TypeOK ==
  /\ life \in {"down", "up", "crashed"}
  /\ overlap \in BOOLEAN /\ unsaved \in BOOLEAN
  /\ pid \in Pids \cup {NoPid}
  /\ pass \in Ciphers \cup {None}
  /\ clean \in Passwords \cup {NoText}
  /\ file \in Ciphers \cup {None, Absent, Empty, Torn}
  /\ pc \in [Handlers -> Labels]
  /\ given \in [Handlers -> Texts \cup {NoText}]
  /\ decoded \in [Handlers -> Passwords \cup {NoText}]
  /\ after \in [Handlers -> {"idle", "get"}]
  /\ messages \in 0 .. MaxMessages /\ starts \in 0 .. MaxStarts

Everybody(x) == [h \in Handlers |-> x]
Fresh ==
  /\ pc' = Everybody("idle") /\ after' = Everybody("idle")
  /\ given' = Everybody(NoText) /\ decoded' = Everybody(NoText)

Init ==
  /\ life = "down" /\ overlap = FALSE
  /\ pid = NoPid /\ pass = None /\ clean = NoText
  /\ file = Absent /\ unsaved = FALSE
  /\ pc = Everybody("idle") /\ after = Everybody("idle")
  /\ given = Everybody(NoText) /\ decoded = Everybody(NoText)
  /\ messages = 0 /\ starts = 0

-----------------------------------------------------------------------------
(* LoadOptions; a file that cannot be parsed leaves the defaults.          *)
Unreadable == {Absent, Empty, Torn}
LoadedRaw(f) == f                               \* mutant: errors ignored
Loaded(f) == IF f \in Unreadable THEN None ELSE f

(* main: the options are loaded; if they cannot be, SetDefaultOptions      *)
(* removes the file.  A password on the command line is set at once,       *)
(* before the server has assigned an identifier.                           *)
Start(flag) ==
  /\ life # "up"
  /\ starts < MaxStarts
  /\ starts' = starts + 1
  /\ life' = IF flag THEN "crashed" ELSE "up"
  /\ pid' = NoPid /\ clean' = NoText
  /\ pass' = Loaded(file)
  /\ file' \in IF file \in Unreadable THEN {Absent, file} ELSE {file}
  /\ unsaved' = FALSE
  /\ messages' = 0
  /\ Fresh
  /\ UNCHANGED overlap

(* The process ends, whatever its handlers are doing.                      *)
Stop ==
  /\ life = "up"
  /\ life' = "down"
  /\ pid' = NoPid /\ pass' = None /\ clean' = NoText
  /\ Fresh
  /\ UNCHANGED <<overlap, messages, starts, disk>>

Panic ==
  /\ life' = "crashed"
  /\ UNCHANGED <<overlap, messages, starts, memory, disk, pc, locals>>

Step(h, l, m) ==
  /\ life = "up"
  /\ pc[h] = l
  /\ pc' = [pc EXCEPT ![h] = m]

Message(h, label) ==
  /\ Step(h, "idle", label)
  /\ messages < MaxMessages
  /\ messages' = messages + 1
  /\ overlap' = (overlap \/ \E k \in Handlers \ {h} : pc[k] # "idle")
  /\ UNCHANGED <<life, starts, disk, decoded>>

-----------------------------------------------------------------------------
(* processAuth: an identifier, and a password when there is none.          *)
processAuth(h, p) ==
  /\ Message(h, "auth")
  /\ pid' = p
  /\ UNCHANGED <<pass, clean, given, after>>

AuthPass(h) ==
  /\ Step(h, "auth", IF pass = None THEN "generate" ELSE "get")
  /\ UNCHANGED <<process, memory, disk, locals>>

GenerateUnsaved(h, t) ==                        \* mutant: no SaveOptions
  /\ Step(h, "generate", "get")
  /\ pass' = [text |-> t, key |-> pid]
  /\ UNCHANGED <<process, pid, clean, disk, locals>>
Generate(h, t) ==
  /\ Step(h, "generate", "create")
  /\ pass' = [text |-> t, key |-> pid]
  /\ after' = [after EXCEPT ![h] = "get"]
  /\ UNCHANGED <<process, pid, clean, disk, given, decoded>>

(* processLocalInfo while no visit is counted: with a password (given or   *)
(* random) it is set and saved; then the panel gets GetPass.               *)
LocalInfoSet(h, t) ==
  /\ Message(h, "setClean")
  /\ given' = [given EXCEPT ![h] = t]
  /\ UNCHANGED <<memory, after>>

LocalInfoGet(h) ==
  /\ Message(h, "get")
  /\ UNCHANGED <<memory, given, after>>

(* SetPass, two assignments.                                               *)
SetClean(h) ==
  /\ Step(h, "setClean", "setPass")
  /\ clean' = given[h]
  /\ UNCHANGED <<process, pid, pass, disk, locals>>

SetPass(h) ==
  /\ pid # NoPid
  /\ Step(h, "setPass", "create")
  /\ pass' = [text |-> given[h], key |-> pid]
  /\ after' = [after EXCEPT ![h] = "get"]
  /\ given' = [given EXCEPT ![h] = NoText]
  /\ UNCHANGED <<process, pid, clean, disk, decoded>>

EncPanics(h) ==
  /\ life = "up"
  /\ pc[h] \in {"setPass", "renew"}
  /\ pid = NoPid
  /\ Panic

(* Other handlers save the options too (login, logout, proxy, UI options). *)
OtherSave(h) ==
  /\ Message(h, "create")
  /\ after' = [after EXCEPT ![h] = "idle"]
  /\ UNCHANGED <<memory, given>>

(* SaveOptions truncates the file and then writes what Pass is by then.    *)
(* Two writers may leave the tail of the longer text behind; a file        *)
(* removed in between is gone.                                             *)
CreateFile(h) ==
  /\ Step(h, "create", "write")
  /\ file' = Empty
  /\ UNCHANGED <<process, memory, unsaved, locals>>

WriteFile(h) ==
  /\ Step(h, "write", after[h])
  /\ file' \in CASE file = Empty  -> {pass}
                 [] file = Absent -> {Absent}
                 [] OTHER         -> {pass, Torn}
  /\ unsaved' = FALSE
  /\ after' = [after EXCEPT ![h] = "idle"]
  /\ UNCHANGED <<process, memory, given, decoded>>

(* SaveOptions fails, and none of its callers looks: the file cannot be    *)
(* created and is as it was, or not be written and is left empty or torn.  *)
SaveFails(h, label) ==
  /\ Step(h, label, after[h])
  /\ unsaved' = TRUE
  /\ after' = [after EXCEPT ![h] = "idle"]
  /\ UNCHANGED <<process, memory, given, decoded>>

CreateFails(h) == SaveFails(h, "create") /\ UNCHANGED file

WriteFails(h) ==
  /\ SaveFails(h, "write")
  /\ file' \in IF file = Absent THEN {Absent} ELSE {file, Torn}

(* processLocalOptionClear: SetDefaultOptions, which removes the file last *)
(* and does not look whether it could.                                     *)
OptionClear(h) ==
  /\ Message(h, "remove")
  /\ pass' = None
  /\ clean' = NoText
  /\ UNCHANGED <<pid, given, after>>

RemoveFile(h) ==
  /\ Step(h, "remove", "idle")
  /\ file' \in {Absent, file}
  /\ unsaved' = (file' # Absent)
  /\ UNCHANGED <<process, memory, locals>>

-----------------------------------------------------------------------------
(* GetPass, one round of its loop.                                         *)
UnreadyNever == FALSE                           \* mutant: the check is dropped
Unready == pid = NoPid

GetClean(h) ==
  /\ Unready \/ clean # NoText
  /\ Step(h, "get", "idle")
  /\ UNCHANGED <<process, memory, disk, locals>>

GetDecoded(h) ==
  /\ ~Unready /\ clean = NoText
  /\ Step(h, "get", "store")
  /\ \E t \in OpenedAs(pass, pid) : decoded' = [decoded EXCEPT ![h] = t]
  /\ UNCHANGED <<process, memory, disk, given, after>>

Store(h) ==
  /\ Step(h, "store", "idle")
  /\ clean' = decoded[h]
  /\ decoded' = [decoded EXCEPT ![h] = NoText]
  /\ UNCHANGED <<process, pid, pass, disk, given, after>>

GetFails(h) ==
  /\ ~Unready /\ clean = NoText
  /\ OpenedAs(pass, pid) = {} /\ ~DecPanics(pass, pid)
  /\ Step(h, "get", "renew")
  /\ UNCHANGED <<process, memory, disk, locals>>

(* DecXOR reads past the end of what it decodes.                           *)
GetPanics(h) ==
  /\ life = "up"
  /\ pc[h] = "get"
  /\ ~Unready /\ clean = NoText
  /\ DecPanics(pass, pid)
  /\ Panic

Renew(h, t) ==
  /\ pid # NoPid
  /\ Step(h, "renew", "create")
  /\ pass' = [text |-> t, key |-> pid]
  /\ after' = [after EXCEPT ![h] = "get"]
  /\ UNCHANGED <<process, pid, clean, disk, given, decoded>>

Handle(h) ==
  \/ AuthPass(h) \/ SetClean(h) \/ SetPass(h) \/ EncPanics(h)
  \/ \E t \in Random : Generate(h, t) \/ Renew(h, t)
  \/ CreateFile(h) \/ WriteFile(h) \/ RemoveFile(h)
  \/ CreateFails(h) \/ WriteFails(h)
  \/ GetClean(h) \/ GetDecoded(h) \/ Store(h) \/ GetFails(h) \/ GetPanics(h)

Arrive(h) ==
  \/ \E p \in Pids : processAuth(h, p)
  \/ \E t \in Texts : LocalInfoSet(h, t)
  \/ LocalInfoGet(h) \/ OtherSave(h) \/ OptionClear(h)

Next ==
  \/ \E flag \in BOOLEAN : Start(flag)
  \/ Stop
  \/ \E h \in Handlers : Handle(h) \/ Arrive(h)

Spec == Init /\ [][Next]_vars

(* A handler that can run does.                                            *)
FairSpec == Spec /\ \A h \in Handlers : WF_vars(Handle(h))

-----------------------------------------------------------------------------
Idle == life = "up" /\ \A h \in Handlers : pc[h] = "idle"

(* While handlers run one at a time: at rest the three copies of the       *)
(* password agree, after any deaths of the process.  What a restart would  *)
(* load is what the process works with, for no path sets or generates a    *)
(* password and leaves the old one, or none, in options.cfg (SaveOptions   *)
(* after SetPass, in processAuth and GetPass): only when the last save     *)
(* itself failed, which no caller notices (utils.go:201-218).  The clear   *)
(* password is the one encrypted for later, or what DecXOR once took that  *)
(* cipher for (utils.go:406 compares sums below 100, and with a new        *)
(* identifier they may agree by chance).                                   *)
CopiesAgree ==
  Idle /\ ~overlap =>
    /\ unsaved \/ Loaded(file) = pass
    /\ clean # NoText /\ pass # None =>
         clean = pass.text \/ \E k \in Pids : clean \in OpenedAs(pass, k)

(* GetPass never encrypts with an empty key, whatever runs beside it.  It  *)
(* dies of opening a password the program generated only when the server   *)
(* has changed the identifier for one whose first byte differs from that   *)
(* of the old one in the bits of 33, as 'C' and 'b' do: a 6 then decrypts  *)
(* to 39, and the cipher has 40 bytes (common.go:218-228, utils.go:402).   *)
(* A SetPass before the identifier came kills the process, and a password  *)
(* of the user's may.                                                      *)
StaysUp ==
  /\ \A h \in Handlers : pc[h] = "renew" => pid # NoPid
  /\ DecPanics(pass, pid) /\ pass.text \in Random => Xor(pass.key[1], pid[1]) = 33

(* Before anything else: DecXOR gives back every text of ASCII that was    *)
(* encrypted with the same identifier, whether or not the cipher was long  *)
(* enough to do without padding (utils.go:365-413).                        *)
RoundTrip ==
  starts = 0 =>
    \A t \in Samples, k \in Pids :
      DecXOR(EncXOR(t, k), k) = [outcome |-> "opens", text |-> t]

(* GetPass returns: a password it generated is one it can open.            *)
GetPassEnds == \A h \in Handlers : pc[h] = "get" ~> life # "up" \/ pc[h] = "idle"
=============================================================================
