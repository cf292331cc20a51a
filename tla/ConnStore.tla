----------------------------- MODULE ConnStore -----------------------------
(***************************************************************************)
(* connections.js and the IPC handlers that edit the list of connections:  *)
(* read the cached list, edit a copy, write it to a temporary file, rename *)
(* that over connections.json, keep the copy as the new cache.  The        *)
(* program may stop between any two steps and be started again.            *)
(*                                                                         *)
(* File operations run in a thread pool: an operation happens at some time *)
(* after the call and its completion is handled at some later time.        *)
(***************************************************************************)
EXTENDS Naturals, FiniteSets

CONSTANTS
  Ids,      \* ids of connections
  Calls,    \* handlers that can be in flight at once
  None

(* A connection: whether it is temporary, and its password, in plain text   *)
(* (an older version wrote those), sealed by safeStorage, or absent.        *)
Data == [temp : BOOLEAN, pw : {"none", "plain", "sealed"}]

\* The order of the array is display only; ids are unique.
List == [Ids -> Data \cup {None}]
EmptyList == [i \in Ids |-> None]

\* null is neither a connection nor a list.
ASSUME StoreAssumption == None \notin Data \cup List

(* A file: not there, cut short by a write in progress, or whole; `enc`     *)
(* says whether safeStorage encrypted it.                                   *)
File == [st : {"missing", "torn", "whole"}, list : List, enc : BOOLEAN]
Missing == [st |-> "missing", list |-> EmptyList, enc |-> FALSE]
Torn == [st |-> "torn", list |-> EmptyList, enc |-> FALSE]

VARIABLES
  file,     \* connections.json
  temps,    \* the temporary files of the handlers under way, by name
  leftovers,  \* of the temporary files left behind, those with a plain
              \* password in them, whole or torn: whether they are encrypted
  cache,    \* _cache
  keyring,  \* safeStorage.isEncryptionAvailable(), fixed at start
  phase,    \* "down", the two start-up calls, or "up": handlers registered
  calls     \* handlers suspended at an await

vars == <<file, temps, leftovers, cache, keyring, phase, calls>>

Kinds == {"load", "save", "delete", "import", "dropTemp", "migrate", "create"}

(* What a handler was asked.  `pw` is what a save says of the password: a   *)
(* new one, keep the existing one, or none.                                 *)
Op == [kind : Kinds, id : Ids \cup {None}, temp : BOOLEAN, pw : {"new", "keep", "none"}]
OpOf(kind) == [kind |-> kind, id |-> None, temp |-> FALSE, pw |-> "none"]

(* pc: "open" and "got" await readFile before and after it has read, "tmp"  *)
(* and "half" await writeFile before and after it has truncated the file,   *)
(* "rename" and "renamed" await rename before and after it has happened.    *)
Frame == [pc : {"idle", "open", "got", "tmp", "half", "rename", "renamed"},
          op : Op, list : List]
Idle == [pc |-> "idle", op |-> OpOf("load"), list |-> EmptyList]

TypeOK ==
  /\ file \in File
  /\ temps \in [Calls -> File]
  /\ leftovers \subseteq BOOLEAN
  /\ cache \in List \cup {None}
  /\ keyring \in BOOLEAN
  /\ phase \in {"down", "create", "migrate", "up"}
  /\ calls \in [Calls -> Frame]

\* Any list an earlier version may have left, or no file at all.
Init ==
  /\ file \in {Missing} \cup {[st |-> "whole", list |-> l, enc |-> FALSE] : l \in List}
  /\ temps = [k \in Calls |-> Missing]
  /\ leftovers = {}
  /\ cache = None
  /\ keyring = FALSE
  /\ phase = "down"
  /\ calls = [k \in Calls |-> Idle]

-----------------------------------------------------------------------------
(* The edits *)

\* encryptPassword yields nothing when the keyring is not available.
Sealed == IF keyring THEN "sealed" ELSE "none"

\* Mutant: nothing to keep leaves no password field at all.
SavedPasswordUnset(pw, old) ==
  CASE pw = "new" -> Sealed
    [] pw = "keep" -> IF old # None THEN old.pw ELSE None
    [] OTHER -> "none"

SavedPassword(pw, old) ==
  CASE pw = "new" -> Sealed
    [] pw = "keep" -> IF old # None /\ old.pw = "sealed" THEN "sealed" ELSE "none"
    [] OTHER -> "none"

Saved(l, op) ==
  [l EXCEPT ![op.id] = [temp |-> op.temp, pw |-> SavedPassword(op.pw, l[op.id])]]

\* Imported entries get ids that are not in the list, and no credentials.
Imported(l, new) ==
  [i \in Ids |-> IF i \in new THEN [temp |-> FALSE, pw |-> "none"] ELSE l[i]]

Migrated(l) ==
  [i \in Ids |-> IF l[i] # None /\ l[i].pw = "plain"
                 THEN [l[i] EXCEPT !.pw = "sealed"] ELSE l[i]]

WithoutTemps(l) == [i \in Ids |-> IF l[i] # None /\ l[i].temp THEN None ELSE l[i]]

NoPlain(l) == \A i \in Ids : l[i] # None => l[i].pw # "plain"

\* The lists a handler may hand to writeConnections, given the one it read.
Edited(l, op) ==
  CASE op.kind = "save" -> {Saved(l, op)}
    [] op.kind = "delete" -> {[l EXCEPT ![op.id] = None]}
    [] op.kind = "import" -> {Imported(l, new) : new \in SUBSET {i \in Ids : l[i] = None}}
    [] op.kind = "dropTemp" -> {WithoutTemps(l)}
    [] op.kind = "migrate" -> {Migrated(l)}
    [] OTHER -> {l}

\* Mutant: the migration forgets to note that it changed something.
WritesNoMigration(l, op, new) ==
  op.kind \notin {"load", "migrate"} /\ (op.kind = "dropTemp" => new # l)

\* Loads never write; two operations write only when the list changes.
Writes(l, op, new) ==
  op.kind # "load" /\ (op.kind \in {"dropTemp", "migrate"} => new # l)

-----------------------------------------------------------------------------

\* Start-up continues with the next call once one has ended.
PhaseAfter(kind) ==
  CASE kind = "create" -> "migrate"
    [] kind = "migrate" -> "up"
    [] OTHER -> phase

Ends(k, kind) ==
  /\ calls' = [calls EXCEPT ![k] = Idle]
  /\ phase' = PhaseAfter(kind)

\* Mutant: every edit is made in place, before it is written.
EditInPlace(k, op, l) ==
  \E new \in Edited(l, op) :
    /\ IF Writes(l, op, new)
       THEN /\ calls' = [calls EXCEPT ![k] = [pc |-> "tmp", op |-> op, list |-> new]]
            /\ UNCHANGED phase
       ELSE Ends(k, op.kind)
    /\ cache' = new

(* The code of a handler after readConnections has answered l.  The edit of *)
(* migratePasswords is in place: it reaches the cache before any write.     *)
Edit(k, op, l) ==
  \E new \in Edited(l, op) :
    /\ IF Writes(l, op, new)
       THEN /\ calls' = [calls EXCEPT ![k] = [pc |-> "tmp", op |-> op, list |-> new]]
            /\ UNCHANGED phase
       ELSE Ends(k, op.kind)
    /\ cache' = IF op.kind = "migrate" THEN new ELSE l

\* A handler is called: with a cached list it edits at once.
Begin(k, op) ==
  /\ calls[k].pc = "idle"
  /\ IF cache # None
     THEN Edit(k, op, cache)
     ELSE /\ calls' = [calls EXCEPT ![k] = [pc |-> "open", op |-> op, list |-> EmptyList]]
          /\ UNCHANGED <<cache, phase>>
  /\ UNCHANGED <<file, temps, leftovers, keyring>>

UserOps ==
  [kind : {"load", "import", "dropTemp"}, id : {None}, temp : {FALSE}, pw : {"none"}]
    \cup [kind : {"delete"}, id : Ids, temp : {FALSE}, pw : {"none"}]
    \cup [kind : {"save"}, id : Ids, temp : BOOLEAN, pw : {"new", "keep", "none"}]

Handle(k) == phase = "up" /\ \E op \in UserOps : Begin(k, op)

\* decryptFile or JSON.parse fails on a file encrypted with another keyring.
Readable(f) == f.st = "whole" /\ (f.enc => keyring)

\* readFile gets the content; an error, like an unreadable file, is [].
ReadHappens(k) ==
  /\ calls[k].pc = "open"
  /\ \/ calls' = [calls EXCEPT ![k] = [@ EXCEPT !.pc = "got",
                     !.list = IF Readable(file) THEN file.list ELSE EmptyList]]
     \/ calls' = [calls EXCEPT ![k] = [@ EXCEPT !.pc = "got", !.list = EmptyList]]
  /\ UNCHANGED <<file, temps, leftovers, cache, keyring, phase>>

ReadDone(k) ==
  /\ calls[k].pc = "got"
  /\ Edit(k, calls[k].op, calls[k].list)
  /\ UNCHANGED <<file, temps, leftovers, keyring>>

-----------------------------------------------------------------------------
(* writeConnections *)

\* Mutant: every call writes the same temporary file.
TmpShared(k) == CHOOSE j \in Calls : TRUE

\* The name of a temporary file holds the time and a random number.
Tmp(k) == k

Truncate(k) ==
  /\ calls[k].pc = "tmp"
  /\ temps' = [temps EXCEPT ![Tmp(k)] = Torn]
  /\ calls' = [calls EXCEPT ![k].pc = "half"]
  /\ UNCHANGED <<file, leftovers, cache, keyring, phase>>

WriteHappens(k) ==
  /\ calls[k].pc = "half"
  /\ temps' = [temps EXCEPT ![Tmp(k)] =
                [st |-> "whole", list |-> calls[k].list, enc |-> keyring]]
  /\ calls' = [calls EXCEPT ![k].pc = "rename"]
  /\ UNCHANGED <<file, leftovers, cache, keyring, phase>>

RenameHappens(k) ==
  /\ calls[k].pc = "rename"
  /\ temps[Tmp(k)].st # "missing"
  /\ file' = temps[Tmp(k)]
  /\ temps' = [temps EXCEPT ![Tmp(k)] = Missing]
  /\ calls' = [calls EXCEPT ![k].pc = "renamed"]
  /\ UNCHANGED <<leftovers, cache, keyring, phase>>

WriteDone(k) ==
  /\ calls[k].pc = "renamed"
  /\ cache' = calls[k].list
  /\ Ends(k, calls[k].op.kind)
  /\ UNCHANGED <<file, temps, leftovers, keyring>>

(* What calls ks leave behind when they end without a rename: nothing ever  *)
(* deletes a temporary file, and no name is used again.                     *)
LeftBy(ks) ==
  {keyring : k \in {j \in ks : temps[Tmp(j)].st # "missing" /\ ~NoPlain(calls[j].list)}}

\* writeFile or rename fails: the handler rejects, at start-up the app exits.
WriteFails(k) ==
  /\ calls[k].pc \in {"tmp", "half", "rename"}
  /\ phase = "up"
  /\ calls' = [calls EXCEPT ![k] = Idle]
  /\ leftovers' = leftovers \cup LeftBy({k})
  /\ temps' = [temps EXCEPT ![Tmp(k)] = Missing]
  /\ UNCHANGED <<file, cache, keyring, phase>>

-----------------------------------------------------------------------------
(* Start and stop of the program *)

Start ==
  /\ phase = "down"
  /\ keyring' \in BOOLEAN
  /\ phase' = IF file.st = "missing" THEN "create" ELSE "migrate"
  /\ UNCHANGED <<file, temps, leftovers, cache, calls>>

\* loadOrCreateConfig writes an empty list when there is no file.
Create(k) ==
  /\ phase = "create"
  /\ \A j \in Calls : calls[j].pc = "idle"
  /\ calls' = [calls EXCEPT ![k] =
                [pc |-> "tmp", op |-> OpOf("create"), list |-> EmptyList]]
  /\ UNCHANGED <<file, temps, leftovers, cache, keyring, phase>>

Migrate(k) ==
  /\ phase = "migrate"
  /\ \A j \in Calls : calls[j].pc = "idle"
  /\ IF keyring
     THEN Begin(k, OpOf("migrate"))
     ELSE phase' = "up" /\ UNCHANGED <<file, temps, leftovers, cache, keyring, calls>>

\* A crash or a quit: nothing in memory survives, temporary files do.
Stop ==
  /\ phase # "down"
  /\ phase' = "down"
  /\ cache' = None
  /\ keyring' = FALSE
  /\ calls' = [k \in Calls |-> Idle]
  /\ leftovers' = leftovers \cup LeftBy(Calls)
  /\ temps' = [k \in Calls |-> Missing]
  /\ UNCHANGED file

Next ==
  \/ Start \/ Stop
  \/ \E k \in Calls :
       \/ Create(k) \/ Migrate(k) \/ Handle(k)
       \/ ReadHappens(k) \/ ReadDone(k)
       \/ Truncate(k) \/ WriteHappens(k) \/ RenameHappens(k)
       \/ WriteDone(k) \/ WriteFails(k)

Spec == Init /\ [][Next]_vars

-----------------------------------------------------------------------------
(* Properties *)

(* connections.json is never a file that is still being written, whatever   *)
(* writes overlap and wherever the program stops: each write has a          *)
(* temporary file of its own and is renamed when it is complete.            *)
FileWhole == file.st # "torn"

(* migratePasswords: once the program is up with a keyring and a list it    *)
(* could read, connections.json holds no password in plain text.  Copies of *)
(* plain passwords may outlive that in temporary files of failed or crashed *)
(* writes, but only of runs without a keyring: no file written with one,    *)
(* not even one left behind, has a plain password inside.                   *)
PlainGone ==
  /\ phase = "up" /\ keyring /\ cache \notin {None, EmptyList} => NoPlain(file.list)
  /\ TRUE \notin leftovers

(* "so callers always see the latest data": with no call in flight, a       *)
(* cached list is the saved one.  (An empty cache may also come from a read *)
(* that failed.)                                                            *)
CacheLatest ==
  (\A k \in Calls : calls[k].pc = "idle") /\ cache \notin {None, EmptyList} =>
    cache = file.list

(* Handlers that do not overlap implement ListStore: the saved list is the  *)
(* content of connections.json, and the program is blind to it when a       *)
(* failed read has left an empty cache.                                     *)
SavedList == IF file.st = "whole" THEN file.list ELSE EmptyList
View ==
  IF cache = None THEN "unread"
  ELSE IF /\ cache = EmptyList /\ SavedList # EmptyList
          /\ \A k \in Calls : calls[k].pc # "renamed"
  THEN "blind" ELSE "whole"
Abstract == INSTANCE ListStore WITH store <- SavedList, view <- View
ImplementsListStore == Abstract!Spec
=============================================================================
