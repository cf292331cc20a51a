-------------------------- MODULE ConnStoreProofs --------------------------
(***************************************************************************)
(* Proofs about ConnStore, for every set of ids and any number of handlers *)
(* that overlap.                                                           *)
(***************************************************************************)
EXTENDS ConnStore, TLAPS

(* A call about to rename has a complete temporary file of its own.         *)
RenameReady == \A k \in Calls : calls[k].pc = "rename" => temps[k].st = "whole"
WholeInv == FileWhole /\ RenameReady

(* The operations frames may hold name an id where they use one.            *)
OpInv ==
  \A k \in Calls : calls[k].pc # "idle" /\ calls[k].op.kind \in {"save", "delete"}
                     => calls[k].op.id \in Ids
TypeInv == TypeOK /\ OpInv

-----------------------------------------------------------------------------
(* What an edit returns *)

LEMMA SavedPasswordType ==
  ASSUME keyring \in BOOLEAN, NEW pw \in {"new", "keep", "none"}, NEW old \in Data \cup {None}
  PROVE  SavedPassword(pw, old) \in {"none", "sealed"}
BY DEF SavedPassword, Sealed

(* Every edit of a list is a list.                                          *)
LEMMA EditedType ==
  ASSUME keyring \in BOOLEAN,
         NEW l \in List, NEW op \in Op,
         op.kind \in {"save", "delete"} => op.id \in Ids,
         NEW new \in Edited(l, op)
  PROVE  new \in List
<1>1. CASE op.kind = "save"
  <2>1. new = Saved(l, op) /\ op.id \in Ids
    BY <1>1 DEF Edited
  <2>2. /\ op.temp \in BOOLEAN /\ op.pw \in {"new", "keep", "none"}
        /\ l[op.id] \in Data \cup {None}
    BY <2>1 DEF Op, List
  <2>3. [temp |-> op.temp, pw |-> SavedPassword(op.pw, l[op.id])] \in Data
    BY <2>2, SavedPasswordType DEF Data
  <2> QED
    BY <2>1, <2>3 DEF Saved, List
<1>2. CASE op.kind = "delete"
  BY <1>2 DEF Edited, List
<1>3. CASE op.kind = "import"
  <2>1. PICK added \in SUBSET {i \in Ids : l[i] = None} : new = Imported(l, added)
    BY <1>3 DEF Edited
  <2>2. [temp |-> FALSE, pw |-> "none"] \in Data
    BY DEF Data
  <2> QED
    BY <2>1, <2>2 DEF Imported, List
<1>4. CASE op.kind = "dropTemp"
  BY <1>4 DEF Edited, WithoutTemps, List
<1>5. CASE op.kind = "migrate"
  <2>1. new = Migrated(l)
    BY <1>5 DEF Edited
  <2>2. \A i \in Ids : l[i] \in Data \cup {None}
    BY DEF List
  <2>3. \A i \in Ids : l[i] \in Data => [l[i] EXCEPT !.pw = "sealed"] \in Data
    BY DEF Data
  <2> QED
    BY <2>1, <2>2, <2>3 DEF Migrated, List
<1>6. CASE op.kind \in {"load", "create"}
  BY <1>6 DEF Edited
<1> QED
  BY <1>1, <1>2, <1>3, <1>4, <1>5, <1>6 DEF Op, Kinds

LEMMA EmptyListType == EmptyList \in List
BY DEF EmptyList, List

LEMMA IdleType == Idle \in Frame
BY EmptyListType DEF Idle, Frame, OpOf, Op, Kinds

LEMMA FilesType == Missing \in File /\ Torn \in File
BY EmptyListType DEF Missing, Torn, File

-----------------------------------------------------------------------------
(* Types *)

(* What an edit step leaves behind, for a handler that holds the list l.    *)
LEMMA EditType ==
  ASSUME TypeInv, NEW k \in Calls, NEW l \in List, NEW op \in Op,
         op.kind \in {"save", "delete"} => op.id \in Ids,
         Edit(k, op, l)
  PROVE  /\ calls' \in [Calls -> Frame]
         /\ OpInv'
         /\ phase' \in {"down", "create", "migrate", "up"}
         /\ cache' \in List
<1>1. keyring \in BOOLEAN /\ calls \in [Calls -> Frame]
      /\ phase \in {"down", "create", "migrate", "up"}
  BY DEF TypeInv, TypeOK
<1>2. PICK new \in Edited(l, op) :
        /\ IF Writes(l, op, new)
           THEN /\ calls' = [calls EXCEPT ![k] = [pc |-> "tmp", op |-> op, list |-> new]]
                /\ UNCHANGED phase
           ELSE Ends(k, op.kind)
        /\ cache' = IF op.kind = "migrate" THEN new ELSE l
  BY DEF Edit
<1>3. new \in List
  BY <1>1, EditedType
<1>4. [pc |-> "tmp", op |-> op, list |-> new] \in Frame
  BY <1>3 DEF Frame
<1>5. CASE Writes(l, op, new)
  BY <1>1, <1>2, <1>3, <1>4, <1>5 DEF TypeInv, OpInv
<1>6. CASE ~Writes(l, op, new)
  <2>1. Ends(k, op.kind)
    BY <1>2, <1>6
  <2> QED
    BY <1>1, <1>2, <1>3, <2>1, IdleType DEF Ends, PhaseAfter, TypeInv, OpInv, Idle
<1> QED
  BY <1>5, <1>6

LEMMA BeginType ==
  ASSUME TypeInv, NEW k \in Calls, NEW op \in Op,
         op.kind \in {"save", "delete"} => op.id \in Ids,
         Begin(k, op)
  PROVE  TypeInv'
<1>1. CASE cache # None
  <2>1. cache \in List /\ Edit(k, op, cache)
    BY <1>1 DEF Begin, TypeInv, TypeOK
  <2>2. UNCHANGED <<file, temps, leftovers, keyring>>
    BY DEF Begin
  <2> QED
    BY <2>1, <2>2, EditType DEF TypeInv, TypeOK
<1>2. CASE cache = None
  <2>1. [pc |-> "open", op |-> op, list |-> EmptyList] \in Frame
    BY EmptyListType DEF Frame
  <2> QED
    BY <1>2, <2>1 DEF Begin, TypeInv, TypeOK, OpInv
<1> QED
  BY <1>1, <1>2

LEMMA OpTypes ==
  /\ \A kind \in Kinds : OpOf(kind) \in Op
  /\ \A op \in UserOps : op \in Op /\ (op.kind \in {"save", "delete"} => op.id \in Ids)
<1>1. \A kind \in Kinds : OpOf(kind) \in Op
  BY DEF OpOf, Op
<1>2. ASSUME NEW op \in UserOps
      PROVE  op \in Op /\ (op.kind \in {"save", "delete"} => op.id \in Ids)
  BY <1>2 DEF UserOps, Op, Kinds
<1> QED
  BY <1>1, <1>2

(* Only a call that ends without a rename, or a stop, leaves files behind.  *)
LEMMA LeftoversStep ==
  [Next]_vars => \/ leftovers' = leftovers
                 \/ Stop
                 \/ \E k \in Calls : WriteFails(k)
<1> SUFFICES ASSUME Next, ~Stop, ~\E k \in Calls : WriteFails(k) PROVE leftovers' = leftovers
  BY DEF vars
<1>1. ASSUME NEW k \in Calls, NEW op, Begin(k, op) PROVE leftovers' = leftovers
  BY <1>1 DEF Begin
<1> QED
  BY <1>1 DEF Next, Start, Create, Migrate, Handle, ReadHappens, ReadDone, Truncate,
              WriteHappens, RenameHappens, WriteDone

LEMMA LeftoversType == TypeInv /\ [Next]_vars => leftovers' \subseteq BOOLEAN
BY LeftoversStep DEF TypeInv, TypeOK, Stop, WriteFails, LeftBy

LEMMA NextTypeInv == TypeInv /\ [Next]_vars => TypeInv'
<1> SUFFICES ASSUME TypeInv, [Next]_vars PROVE TypeInv'
  OBVIOUS
<1>0. leftovers' \subseteq BOOLEAN
  BY LeftoversType
<1>a. /\ file \in File /\ temps \in [Calls -> File]
      /\ cache \in List \cup {None} /\ keyring \in BOOLEAN
      /\ phase \in {"down", "create", "migrate", "up"}
      /\ calls \in [Calls -> Frame] /\ OpInv
  BY DEF TypeInv, TypeOK
<1>b. \A k \in Calls : calls[k].list \in List /\ calls[k].op \in Op
  BY <1>a DEF Frame
<1> USE <1>0, <1>a, IdleType, EmptyListType, FilesType
<1>1. CASE Start
  BY <1>1 DEF Start, TypeInv, TypeOK, OpInv
<1>2. CASE Stop
  BY <1>2 DEF Stop, TypeInv, TypeOK, OpInv, Idle
<1>3. ASSUME NEW k \in Calls, Create(k) PROVE TypeInv'
  <2>1. [pc |-> "tmp", op |-> OpOf("create"), list |-> EmptyList] \in Frame
    BY OpTypes DEF Frame, Kinds
  <2> QED
    BY <1>3, <2>1 DEF Create, TypeInv, TypeOK, OpInv, OpOf
<1>4. ASSUME NEW k \in Calls, Migrate(k) PROVE TypeInv'
  <2>1. CASE Begin(k, OpOf("migrate"))
    <3>1. OpOf("migrate") \in Op /\ OpOf("migrate").kind = "migrate"
      BY OpTypes DEF Kinds, OpOf
    <3> QED
      BY <2>1, <3>1, BeginType
  <2>2. CASE phase' = "up" /\ UNCHANGED <<file, temps, leftovers, cache, keyring, calls>>
    BY <2>2 DEF TypeInv, TypeOK, OpInv
  <2> QED
    BY <1>4, <2>1, <2>2 DEF Migrate
<1>5. ASSUME NEW k \in Calls, Handle(k) PROVE TypeInv'
  <2>1. PICK op \in UserOps : Begin(k, op)
    BY <1>5 DEF Handle
  <2> QED
    BY <2>1, OpTypes, BeginType
<1>6. ASSUME NEW k \in Calls, ReadHappens(k) PROVE TypeInv'
  <2>1. PICK l \in List : calls' = [calls EXCEPT ![k] = [@ EXCEPT !.pc = "got", !.list = l]]
    BY <1>6 DEF ReadHappens, File
  <2>2. [calls[k] EXCEPT !.pc = "got", !.list = l] \in Frame
    BY <2>1 DEF Frame
  <2>3. calls[k].pc = "open"
    BY <1>6 DEF ReadHappens
  <2> QED
    BY <1>6, <2>1, <2>2, <2>3 DEF ReadHappens, TypeInv, TypeOK, OpInv, Frame
<1>7. ASSUME NEW k \in Calls, ReadDone(k) PROVE TypeInv'
  <2>1. /\ calls[k].pc = "got"
        /\ Edit(k, calls[k].op, calls[k].list)
        /\ UNCHANGED <<file, temps, keyring>>
    BY <1>7 DEF ReadDone
  <2>2. calls[k].op.kind \in {"save", "delete"} => calls[k].op.id \in Ids
    BY <2>1 DEF OpInv
  <2> QED
    BY <1>b, <2>1, <2>2, EditType DEF TypeInv, TypeOK
<1>8. ASSUME NEW k \in Calls, Truncate(k) PROVE TypeInv'
  BY <1>8 DEF Truncate, Tmp, TypeInv, TypeOK, OpInv, Frame
<1>9. ASSUME NEW k \in Calls, WriteHappens(k) PROVE TypeInv'
  <2>1. [st |-> "whole", list |-> calls[k].list, enc |-> keyring] \in File
    BY <1>b DEF File
  <2> QED
    BY <1>9, <2>1 DEF WriteHappens, Tmp, TypeInv, TypeOK, OpInv, Frame
<1>10. ASSUME NEW k \in Calls, RenameHappens(k) PROVE TypeInv'
  BY <1>10 DEF RenameHappens, Tmp, TypeInv, TypeOK, OpInv, Frame
<1>11. ASSUME NEW k \in Calls, WriteDone(k) PROVE TypeInv'
  BY <1>11, <1>b DEF WriteDone, Ends, PhaseAfter, TypeInv, TypeOK, OpInv, Idle
<1>12. ASSUME NEW k \in Calls, WriteFails(k) PROVE TypeInv'
  BY <1>12 DEF WriteFails, Tmp, TypeInv, TypeOK, OpInv, Idle
<1>13. CASE UNCHANGED vars
  BY <1>13 DEF vars, TypeInv, TypeOK, OpInv
<1> QED
  BY <1>1, <1>2, <1>3, <1>4, <1>5, <1>6, <1>7, <1>8, <1>9, <1>10, <1>11, <1>12,
     <1>13 DEF Next

LEMMA InitTypeInv == Init => TypeInv
<1> SUFFICES ASSUME Init PROVE TypeInv
  OBVIOUS
<1>1. file \in File
  <2>1. ASSUME NEW l \in List PROVE [st |-> "whole", list |-> l, enc |-> FALSE] \in File
    BY <2>1 DEF File
  <2> QED
    BY <2>1, FilesType DEF Init
<1>2. temps \in [Calls -> File] /\ calls \in [Calls -> Frame]
  BY FilesType, IdleType DEF Init
<1>3. cache \in List \cup {None} /\ keyring \in BOOLEAN /\ leftovers \subseteq BOOLEAN
      /\ phase \in {"down", "create", "migrate", "up"}
  BY DEF Init
<1>4. OpInv
  BY DEF Init, OpInv, Idle
<1> QED
  BY <1>1, <1>2, <1>3, <1>4 DEF TypeInv, TypeOK

(* Every reachable state of the store is well typed, and a handler that     *)
(* saves or deletes has the id it is about.                                 *)
THEOREM StoreTypeCorrect == Spec => []TypeInv
BY InitTypeInv, NextTypeInv, PTL DEF Spec

(* The type invariant as the runs check it.                                 *)
THEOREM StoreTypesHold == Spec => []TypeOK
<1>1. TypeInv => TypeOK
  BY DEF TypeInv
<1> QED
  BY <1>1, StoreTypeCorrect, PTL

-----------------------------------------------------------------------------
(* The file is never torn *)

LEMMA NextWholeInv == TypeInv /\ WholeInv /\ [Next]_vars => WholeInv'
<1> SUFFICES ASSUME TypeInv, WholeInv, [Next]_vars PROVE WholeInv'
  OBVIOUS
<1>a. calls \in [Calls -> Frame] /\ temps \in [Calls -> File]
  BY DEF TypeInv, TypeOK
<1> USE <1>a
<1>1. CASE Start
  BY <1>1 DEF Start, WholeInv, FileWhole, RenameReady
<1>2. CASE Stop
  BY <1>2 DEF Stop, WholeInv, FileWhole, RenameReady, Idle
<1>b. ASSUME NEW k \in Calls, NEW l, NEW op, Edit(k, op, l), UNCHANGED <<file, temps>>
      PROVE  WholeInv'
  BY <1>b DEF Edit, Ends, Idle, WholeInv, FileWhole, RenameReady
<1>c. ASSUME NEW k \in Calls, NEW op, Begin(k, op) PROVE WholeInv'
  <2>1. CASE cache # None
    BY <1>b, <1>c, <2>1 DEF Begin
  <2>2. CASE cache = None
    BY <1>c, <2>2 DEF Begin, WholeInv, FileWhole, RenameReady
  <2> QED
    BY <2>1, <2>2
<1>3. ASSUME NEW k \in Calls, Create(k) PROVE WholeInv'
  BY <1>3 DEF Create, WholeInv, FileWhole, RenameReady
<1>4. ASSUME NEW k \in Calls, Migrate(k) PROVE WholeInv'
  BY <1>4, <1>c DEF Migrate, WholeInv, FileWhole, RenameReady
<1>5. ASSUME NEW k \in Calls, Handle(k) PROVE WholeInv'
  BY <1>5, <1>c DEF Handle
<1>6. ASSUME NEW k \in Calls, ReadHappens(k) PROVE WholeInv'
  <2>1. /\ calls'[k].pc = "got" /\ \A j \in Calls \ {k} : calls'[j] = calls[j]
        /\ UNCHANGED <<file, temps>>
    BY <1>6 DEF ReadHappens, Frame
  <2> QED
    BY <2>1 DEF WholeInv, FileWhole, RenameReady
<1>7. ASSUME NEW k \in Calls, ReadDone(k) PROVE WholeInv'
  BY <1>7, <1>b DEF ReadDone
<1>8. ASSUME NEW k \in Calls, Truncate(k) PROVE WholeInv'
  BY <1>8 DEF Truncate, Tmp, WholeInv, FileWhole, RenameReady, Frame
<1>9. ASSUME NEW k \in Calls, WriteHappens(k) PROVE WholeInv'
  BY <1>9 DEF WriteHappens, Tmp, WholeInv, FileWhole, RenameReady, Frame
<1>10. ASSUME NEW k \in Calls, RenameHappens(k) PROVE WholeInv'
  BY <1>10 DEF RenameHappens, Tmp, WholeInv, FileWhole, RenameReady, Frame
<1>11. ASSUME NEW k \in Calls, WriteDone(k) PROVE WholeInv'
  BY <1>11 DEF WriteDone, Ends, Idle, WholeInv, FileWhole, RenameReady
<1>12. ASSUME NEW k \in Calls, WriteFails(k) PROVE WholeInv'
  BY <1>12 DEF WriteFails, Tmp, Idle, WholeInv, FileWhole, RenameReady
<1>13. CASE UNCHANGED vars
  BY <1>13 DEF vars, WholeInv, FileWhole, RenameReady
<1> QED
  BY <1>1, <1>2, <1>3, <1>4, <1>5, <1>6, <1>7, <1>8, <1>9, <1>10, <1>11, <1>12,
     <1>13 DEF Next

(* However many writes overlap and wherever the program stops, what is      *)
(* renamed over connections.json is a complete file.                        *)
THEOREM FileNeverTorn == Spec => []FileWhole
<1>1. Init => WholeInv
  BY DEF Init, WholeInv, FileWhole, RenameReady, Missing, Idle
<1>2. WholeInv => FileWhole
  BY DEF WholeInv
<1> QED
  BY <1>1, <1>2, NextWholeInv, StoreTypeCorrect, PTL DEF Spec

-----------------------------------------------------------------------------
(* No plain password stays in connections.json *)

(* One call at a time runs during start-up, and it is the one for the phase.*)
StartInv ==
  /\ phase = "down" => \A k \in Calls : calls[k].pc = "idle"
  /\ phase \in {"create", "migrate"} =>
       \A j, k \in Calls : calls[j].pc # "idle" /\ calls[k].pc # "idle" => j = k
  /\ phase \in {"down", "create"} => cache = None
  /\ phase = "migrate" /\ cache \notin {None, EmptyList} =>
       \E k \in Calls : calls[k].pc # "idle"
  /\ \A k \in Calls : calls[k].pc # "idle" =>
       /\ phase \in {"create", "migrate"} => calls[k].op.kind = phase
       /\ phase = "up" => calls[k].op.kind \notin {"create", "migrate"}
  /\ phase = "create" => \A k \in Calls :
       /\ calls[k].pc \notin {"open", "got"}
       /\ calls[k].pc # "idle" => calls[k].list = EmptyList

(* With a keyring no list in memory holds a plain password, except the one  *)
(* the migration has just read; and the file holds none once it is over.    *)
CleanCall(k) ==
  /\ calls[k].pc \in {"tmp", "half", "rename", "renamed"} => NoPlain(calls[k].list)
  /\ calls[k].pc = "rename" => NoPlain(temps[k].list)
  /\ calls[k].pc = "renamed" => NoPlain(file.list)
  /\ calls[k].pc \in {"open", "got"} => phase = "migrate"
  /\ calls[k].pc = "got" => calls[k].list \in {EmptyList, file.list}

CleanInv ==
  /\ \A k \in Calls : CleanCall(k)
  /\ phase = "up" => cache # None /\ (cache # EmptyList => NoPlain(file.list))
  /\ cache # None => NoPlain(cache)

PlainInv == StartInv /\ (keyring => CleanInv)

LEMMA EmptyNoPlain == NoPlain(EmptyList)
BY DEF NoPlain, EmptyList

(* With a keyring an edit never adds a plain password, and the migration    *)
(* removes every one.                                                       *)
LEMMA EditedNoPlain ==
  ASSUME keyring = TRUE, NEW l \in List, NEW op \in Op,
         op.kind \in {"save", "delete"} => op.id \in Ids,
         op.kind = "migrate" \/ NoPlain(l),
         NEW new \in Edited(l, op)
  PROVE  NoPlain(new)
<1>1. CASE op.kind = "save"
  <2>1. new = Saved(l, op) /\ op.id \in Ids /\ NoPlain(l)
    BY <1>1 DEF Edited
  <2>2. op.pw \in {"new", "keep", "none"} /\ l[op.id] \in Data \cup {None}
    BY <2>1 DEF Op, List
  <2>3. SavedPassword(op.pw, l[op.id]) # "plain"
    BY <2>2, SavedPasswordType
  <2> QED
    BY <2>1, <2>3 DEF Saved, NoPlain, List
<1>2. CASE op.kind = "delete"
  BY <1>2 DEF Edited, NoPlain, List
<1>3. CASE op.kind = "import"
  <2>1. PICK added \in SUBSET {i \in Ids : l[i] = None} : new = Imported(l, added)
    BY <1>3 DEF Edited
  <2> QED
    BY <1>3, <2>1 DEF Imported, NoPlain
<1>4. CASE op.kind = "dropTemp"
  BY <1>4 DEF Edited, WithoutTemps, NoPlain
<1>5. CASE op.kind = "migrate"
  <2>1. new = Migrated(l) /\ \A i \in Ids : l[i] \in Data \cup {None}
    BY <1>5 DEF Edited, List
  <2>2. ASSUME NEW i \in Ids PROVE new[i] # None => new[i].pw # "plain"
    <3>1. CASE l[i] # None /\ l[i].pw = "plain"
      BY <2>1, <3>1 DEF Migrated, Data
    <3>2. CASE ~(l[i] # None /\ l[i].pw = "plain")
      BY <2>1, <3>2 DEF Migrated
    <3> QED
      BY <3>1, <3>2
  <2> QED
    BY <2>2 DEF NoPlain
<1>6. CASE op.kind \in {"load", "create"}
  BY <1>6 DEF Edited
<1> QED
  BY <1>1, <1>2, <1>3, <1>4, <1>5, <1>6 DEF Op, Kinds

(* An edit keeps PlainInv when its handler is the one start-up waits for,   *)
(* or the program is up; during start-up l must be what the file holds.     *)
LEMMA EditPlain ==
  ASSUME TypeInv, PlainInv, NEW k \in Calls, NEW l \in List, NEW op \in Op,
         op.kind \in {"save", "delete"} => op.id \in Ids,
         phase \in {"migrate", "up"},
         phase = "migrate" <=> op.kind = "migrate", op.kind # "create",
         phase = "migrate" => \A j \in Calls : j = k \/ calls[j].pc = "idle",
         keyring /\ phase = "migrate" => l \in {EmptyList, file.list},
         keyring /\ phase = "up" => l = cache,
         Edit(k, op, l), UNCHANGED <<file, temps, keyring>>
  PROVE  PlainInv'
<1>1. keyring \in BOOLEAN /\ calls \in [Calls -> Frame]
  BY DEF TypeInv, TypeOK
<1>2. PICK new \in Edited(l, op) :
        /\ IF Writes(l, op, new)
           THEN /\ calls' = [calls EXCEPT ![k] = [pc |-> "tmp", op |-> op, list |-> new]]
                /\ UNCHANGED phase
           ELSE Ends(k, op.kind)
        /\ cache' = IF op.kind = "migrate" THEN new ELSE l
  BY DEF Edit
<1>3. new \in List /\ new # None /\ l # None
  BY <1>1, EditedType, StoreAssumption
<1>4. keyring => NoPlain(new) /\ NoPlain(cache')
  <2> SUFFICES ASSUME keyring PROVE NoPlain(new) /\ NoPlain(cache')
    OBVIOUS
  <2>1. op.kind = "migrate" \/ NoPlain(l)
    BY <1>3 DEF PlainInv, CleanInv
  <2>2. NoPlain(new)
    BY <1>1, <2>1, EditedNoPlain
  <2> QED
    BY <1>2, <2>1, <2>2
<1>5. CASE Writes(l, op, new)
  <2>1. /\ calls'[k] = [pc |-> "tmp", op |-> op, list |-> new]
        /\ \A j \in Calls \ {k} : calls'[j] = calls[j]
        /\ phase' = phase /\ cache' # None
    BY <1>1, <1>2, <1>3, <1>5
  <2>2. StartInv'
    BY <2>1 DEF PlainInv, StartInv
  <2>3. keyring => CleanInv'
    <3> SUFFICES ASSUME keyring PROVE CleanInv'
      OBVIOUS
    <3>1. \A j \in Calls \ {k} : CleanCall(j)'
      BY <2>1 DEF PlainInv, CleanInv, CleanCall
    <3>2. CleanCall(k)'
      BY <1>4, <2>1 DEF CleanCall
    <3>3. phase = "up" => cache' = cache
      BY <1>2
    <3> QED
      BY <1>4, <2>1, <3>1, <3>2, <3>3 DEF PlainInv, CleanInv
  <2> QED
    BY <2>2, <2>3 DEF PlainInv
<1>6. CASE ~Writes(l, op, new)
  <2>1. /\ calls'[k].pc = "idle" /\ \A j \in Calls \ {k} : calls'[j] = calls[j]
        /\ phase' = "up" /\ cache' # None
    BY <1>1, <1>2, <1>3, <1>6 DEF Ends, PhaseAfter, Idle
  <2>2. StartInv'
    BY <2>1 DEF PlainInv, StartInv
  <2>3. keyring => CleanInv'
    <3> SUFFICES ASSUME keyring PROVE CleanInv'
      OBVIOUS
    <3>1. \A j \in Calls : CleanCall(j)'
      BY <2>1 DEF PlainInv, CleanInv, CleanCall
    <3>2. CASE phase = "up"
      BY <1>2, <1>4, <2>1, <3>1, <3>2 DEF PlainInv, CleanInv
    <3>3. CASE phase = "migrate"
      <4>1. new = l /\ cache' = l
        BY <1>2, <1>6, <3>3 DEF Writes
      <4> QED
        BY <1>4, <2>1, <3>1, <3>3, <4>1 DEF CleanInv
    <3> QED
      BY <3>2, <3>3
  <2> QED
    BY <2>2, <2>3 DEF PlainInv
<1> QED
  BY <1>5, <1>6

LEMMA NextPlainInv == TypeInv /\ PlainInv /\ [Next]_vars => PlainInv'
<1> SUFFICES ASSUME TypeInv, PlainInv, [Next]_vars PROVE PlainInv'
  OBVIOUS
<1>a. /\ calls \in [Calls -> Frame] /\ temps \in [Calls -> File]
      /\ keyring \in BOOLEAN /\ cache \in List \cup {None} /\ file \in File
      /\ EmptyList # None
  BY EmptyListType, StoreAssumption DEF TypeInv, TypeOK
<1>b. \A k \in Calls : calls[k].list \in List /\ calls[k].op \in Op
  BY <1>a DEF Frame
<1> USE <1>a
<1>1. CASE Start
  BY <1>1 DEF Start, PlainInv, StartInv, CleanInv, CleanCall
<1>2. CASE Stop
  BY <1>2 DEF Stop, PlainInv, StartInv, CleanInv, CleanCall, Idle
(* A call with no cached list awaits the file; the rest is EditPlain.       *)
<1>c. ASSUME NEW k \in Calls, NEW op \in Op, Begin(k, op),
             op.kind \in {"save", "delete"} => op.id \in Ids,
             phase \in {"migrate", "up"}, phase = "migrate" <=> op.kind = "migrate",
             op.kind # "create",
             phase = "migrate" => \A j \in Calls : calls[j].pc = "idle"
      PROVE  PlainInv'
  <2>1. CASE cache # None
    <3>1. Edit(k, op, cache) /\ cache \in List /\ UNCHANGED <<file, temps, keyring>>
      BY <1>c, <2>1 DEF Begin
    <3>2. phase = "migrate" => cache = EmptyList
      BY <1>c, <2>1 DEF PlainInv, StartInv
    <3> QED
      BY <1>c, <3>1, <3>2, EditPlain
  <2>2. CASE cache = None
    <3>1. /\ calls'[k] = [pc |-> "open", op |-> op, list |-> EmptyList]
          /\ \A j \in Calls \ {k} : calls'[j] = calls[j]
          /\ UNCHANGED <<file, temps, cache, keyring, phase>>
      BY <1>c, <2>2 DEF Begin
    <3>2. StartInv'
      BY <1>c, <2>2, <3>1 DEF PlainInv, StartInv
    <3>3. keyring => CleanInv'
      BY <1>c, <2>2, <3>1 DEF PlainInv, CleanInv, CleanCall
    <3> QED
      BY <3>1, <3>2, <3>3 DEF PlainInv
  <2> QED
    BY <2>1, <2>2
<1>3. ASSUME NEW k \in Calls, Create(k) PROVE PlainInv'
  <2>1. /\ calls'[k] = [pc |-> "tmp", op |-> OpOf("create"), list |-> EmptyList]
        /\ \A j \in Calls \ {k} : calls'[j] = calls[j] /\ calls[j].pc = "idle"
        /\ phase = "create" /\ UNCHANGED <<file, temps, cache, keyring, phase>>
    BY <1>3 DEF Create
  <2>2. StartInv'
    BY <2>1 DEF PlainInv, StartInv, OpOf
  <2>3. keyring => CleanInv'
    BY <2>1, EmptyNoPlain DEF PlainInv, CleanInv, CleanCall
  <2> QED
    BY <2>1, <2>2, <2>3 DEF PlainInv
<1>4. ASSUME NEW k \in Calls, Migrate(k) PROVE PlainInv'
  <2>1. phase = "migrate" /\ \A j \in Calls : calls[j].pc = "idle"
    BY <1>4 DEF Migrate
  <2>2. CASE keyring
    <3>1. OpOf("migrate") \in Op /\ OpOf("migrate").kind = "migrate"
      BY OpTypes DEF Kinds, OpOf
    <3> QED
      BY <1>4, <1>c, <2>1, <2>2, <3>1 DEF Migrate
  <2>3. CASE ~keyring
    BY <1>4, <2>1, <2>3 DEF Migrate, PlainInv, StartInv
  <2> QED
    BY <2>2, <2>3
<1>5. ASSUME NEW k \in Calls, Handle(k) PROVE PlainInv'
  <2>1. PICK op \in UserOps : phase = "up" /\ Begin(k, op)
    BY <1>5 DEF Handle
  <2>2. op \in Op /\ op.kind \notin {"migrate", "create"}
        /\ (op.kind \in {"save", "delete"} => op.id \in Ids)
    BY OpTypes DEF UserOps
  <2> QED
    BY <1>c, <2>1, <2>2
<1>6. ASSUME NEW k \in Calls, ReadHappens(k) PROVE PlainInv'
  <2>1. /\ calls'[k].pc = "got" /\ calls'[k].op = calls[k].op /\ calls[k].pc = "open"
        /\ calls'[k].list \in {EmptyList, file.list}
        /\ \A j \in Calls \ {k} : calls'[j] = calls[j]
        /\ UNCHANGED <<file, temps, cache, keyring, phase>>
    BY <1>6 DEF ReadHappens, Frame
  <2>2. StartInv'
    BY <2>1 DEF PlainInv, StartInv
  <2>3. keyring => CleanInv'
    BY <2>1 DEF PlainInv, CleanInv, CleanCall
  <2> QED
    BY <2>1, <2>2, <2>3 DEF PlainInv
<1>7. ASSUME NEW k \in Calls, ReadDone(k) PROVE PlainInv'
  <2>1. /\ calls[k].pc = "got"
        /\ Edit(k, calls[k].op, calls[k].list)
        /\ UNCHANGED <<file, temps, keyring>>
    BY <1>7 DEF ReadDone
  <2>2. calls[k].op.kind \in {"save", "delete"} => calls[k].op.id \in Ids
    BY <2>1 DEF TypeInv, OpInv
  <2>3. phase \in {"migrate", "up"}
    BY <2>1 DEF TypeInv, TypeOK, PlainInv, StartInv
  <2>4. /\ phase = "migrate" <=> calls[k].op.kind = "migrate"
        /\ calls[k].op.kind # "create"
        /\ phase = "migrate" => \A j \in Calls : j = k \/ calls[j].pc = "idle"
    BY <2>1, <2>3 DEF PlainInv, StartInv
  <2>5. keyring => phase = "migrate" /\ calls[k].list \in {EmptyList, file.list}
    BY <2>1 DEF PlainInv, CleanInv, CleanCall
  <2> QED
    BY <1>b, <2>1, <2>2, <2>3, <2>4, <2>5, EditPlain
(* The steps of a write: only a rename changes the file.                    *)
<1>d. ASSUME NEW k \in Calls, calls[k].pc \in {"tmp", "half", "rename"},
             calls'[k].pc \in {"half", "rename", "renamed"},
             calls'[k].op = calls[k].op, calls'[k].list = calls[k].list,
             calls'[k].pc = "rename" => temps'[k].list = calls[k].list,
             \A j \in Calls \ {k} : calls'[j] = calls[j] /\ temps'[j] = temps[j],
             file' = file \/ (keyring => NoPlain(file'.list)),
             calls'[k].pc = "renamed" => (keyring => NoPlain(file'.list)),
             phase = "migrate" => file' = file \/ calls'[k].pc = "renamed",
             UNCHANGED <<cache, keyring, phase>>
      PROVE  PlainInv'
  <2>1. StartInv'
    BY <1>d DEF PlainInv, StartInv
  <2>2. keyring => CleanInv'
    <3> SUFFICES ASSUME keyring PROVE CleanInv'
      OBVIOUS
    <3>1. \A j \in Calls \ {k} : CleanCall(j)'
      BY <1>d DEF PlainInv, StartInv, CleanInv, CleanCall
    <3>2. CleanCall(k)'
      BY <1>d DEF PlainInv, CleanInv, CleanCall
    <3> QED
      BY <1>d, <3>1, <3>2 DEF PlainInv, CleanInv
  <2> QED
    BY <1>d, <2>1, <2>2 DEF PlainInv
<1>8. ASSUME NEW k \in Calls, Truncate(k) PROVE PlainInv'
  BY <1>8, <1>d DEF Truncate, Tmp, Frame
<1>9. ASSUME NEW k \in Calls, WriteHappens(k) PROVE PlainInv'
  BY <1>9, <1>d DEF WriteHappens, Tmp, Frame
<1>10. ASSUME NEW k \in Calls, RenameHappens(k) PROVE PlainInv'
  <2>1. keyring => NoPlain(file'.list)
    BY <1>10 DEF RenameHappens, Tmp, PlainInv, CleanInv, CleanCall
  <2> QED
    BY <1>10, <1>d, <2>1 DEF RenameHappens, Tmp, Frame
<1>11. ASSUME NEW k \in Calls, WriteDone(k) PROVE PlainInv'
  <2>1. /\ calls[k].pc = "renamed" /\ calls'[k].pc = "idle"
        /\ \A j \in Calls \ {k} : calls'[j] = calls[j]
        /\ cache' = calls[k].list /\ phase' = PhaseAfter(calls[k].op.kind)
        /\ UNCHANGED <<file, temps, keyring>>
    BY <1>11 DEF WriteDone, Ends, Idle
  <2>2. CASE phase = "create"
    <3>1. calls[k].op.kind = "create" /\ cache' = EmptyList /\ phase' = "migrate"
      BY <2>1, <2>2 DEF PlainInv, StartInv, PhaseAfter
    <3>2. \A j \in Calls : calls'[j].pc = "idle"
      BY <2>1, <2>2 DEF PlainInv, StartInv
    <3>3. StartInv'
      BY <3>1, <3>2 DEF StartInv
    <3> QED
      BY <3>1, <3>2, <3>3, EmptyNoPlain DEF PlainInv, CleanInv, CleanCall
  <2>3. CASE phase = "migrate"
    <3>1. phase' = "up" /\ \A j \in Calls : calls'[j].pc = "idle"
      BY <2>1, <2>3 DEF PlainInv, StartInv, PhaseAfter
    <3>2. StartInv'
      BY <3>1 DEF StartInv
    <3>3. keyring => NoPlain(cache') /\ NoPlain(file'.list)
      BY <2>1 DEF PlainInv, CleanInv, CleanCall
    <3>4. cache' # None
      BY <1>b, <2>1, StoreAssumption
    <3> QED
      BY <2>1, <3>1, <3>2, <3>3, <3>4 DEF PlainInv, CleanInv, CleanCall
  <2>4. CASE phase = "up"
    <3>1. phase' = "up"
      BY <2>1, <2>4 DEF PlainInv, StartInv, PhaseAfter
    <3>2. StartInv'
      BY <2>1, <2>4, <3>1 DEF PlainInv, StartInv
    <3>3. keyring => NoPlain(cache') /\ NoPlain(file'.list)
      BY <2>1 DEF PlainInv, CleanInv, CleanCall
    <3>4. cache' # None
      BY <1>b, <2>1, StoreAssumption
    <3>5. keyring => \A j \in Calls : CleanCall(j)'
      BY <2>1, <2>4, <3>1 DEF PlainInv, CleanInv, CleanCall
    <3> QED
      BY <2>1, <3>1, <3>2, <3>3, <3>4, <3>5 DEF PlainInv, CleanInv
  <2> QED
    BY <2>1, <2>2, <2>3, <2>4 DEF TypeInv, TypeOK, PlainInv, StartInv
<1>12. ASSUME NEW k \in Calls, WriteFails(k) PROVE PlainInv'
  BY <1>12 DEF WriteFails, Tmp, Idle, PlainInv, StartInv, CleanInv, CleanCall
<1>13. CASE UNCHANGED vars
  BY <1>13 DEF vars, PlainInv, StartInv, CleanInv, CleanCall
<1> QED
  BY <1>1, <1>2, <1>3, <1>4, <1>5, <1>6, <1>7, <1>8, <1>9, <1>10, <1>11, <1>12,
     <1>13 DEF Next

(* What a run with a keyring leaves behind has no plain password inside: a  *)
(* temporary file belongs to a call that is writing it.                     *)
LeftInv ==
  /\ TRUE \notin leftovers
  /\ \A k \in Calls : temps[k].st # "missing" => calls[k].pc \in {"half", "rename"}

LEMMA NextLeftInv == TypeInv /\ PlainInv /\ LeftInv /\ [Next]_vars => LeftInv'
<1> SUFFICES ASSUME TypeInv, PlainInv, LeftInv, [Next]_vars PROVE LeftInv'
  OBVIOUS
<1>0. calls \in [Calls -> Frame] /\ temps \in [Calls -> File]
  BY DEF TypeInv, TypeOK
<1>1. keyring => \A k \in Calls : temps[k].st # "missing" => NoPlain(calls[k].list)
  BY DEF PlainInv, CleanInv, CleanCall, LeftInv
<1>2. TRUE \notin leftovers'
  <2>1. \A ks \in SUBSET Calls : TRUE \notin LeftBy(ks)
    BY <1>1 DEF LeftBy, Tmp
  <2>2. Stop => TRUE \notin leftovers'
    BY <2>1 DEF Stop, LeftInv
  <2>3. ASSUME NEW k \in Calls, WriteFails(k) PROVE TRUE \notin leftovers'
    BY <2>1, <2>3 DEF WriteFails, LeftInv
  <2> QED
    BY <2>2, <2>3, LeftoversStep DEF LeftInv
<1> DEFINE Own == \A k \in Calls : temps[k].st # "missing" => calls[k].pc \in {"half", "rename"}
<1>3. ASSUME NEW k \in Calls, UNCHANGED temps, calls[k].pc \notin {"half", "rename"},
             \A j \in Calls \ {k} : calls'[j] = calls[j]
      PROVE  Own'
  BY <1>3 DEF LeftInv
<1>4. ASSUME NEW k \in Calls, NEW op, NEW l, Edit(k, op, l), UNCHANGED temps,
             calls[k].pc \notin {"half", "rename"}
      PROVE  Own'
  BY <1>0, <1>3, <1>4 DEF Edit, Ends
<1>5. ASSUME NEW k \in Calls, NEW op, Begin(k, op) PROVE Own'
  BY <1>0, <1>3, <1>4, <1>5 DEF Begin
<1>6. Start \/ UNCHANGED vars => Own'
  BY DEF Start, vars, LeftInv
<1>7. Stop => Own'
  BY DEF Stop, Missing
<1>8. ASSUME NEW k \in Calls, Create(k) \/ ReadHappens(k) \/ WriteDone(k) PROVE Own'
  BY <1>0, <1>3, <1>8 DEF Create, ReadHappens, WriteDone, Ends
<1>9. ASSUME NEW k \in Calls, Migrate(k) PROVE Own'
  BY <1>5, <1>9 DEF Migrate, LeftInv
<1>10. ASSUME NEW k \in Calls, Handle(k) PROVE Own'
  BY <1>5, <1>10 DEF Handle
<1>11. ASSUME NEW k \in Calls, ReadDone(k) PROVE Own'
  BY <1>4, <1>11 DEF ReadDone
<1>12. ASSUME NEW k \in Calls, Truncate(k) \/ WriteHappens(k) PROVE Own'
  <2>1. /\ calls'[k].pc \in {"half", "rename"}
        /\ \A j \in Calls \ {k} : calls'[j] = calls[j] /\ temps'[j] = temps[j]
    BY <1>0, <1>12 DEF Truncate, WriteHappens, Tmp, Frame
  <2> QED
    BY <2>1 DEF LeftInv
<1>13. ASSUME NEW k \in Calls, RenameHappens(k) \/ WriteFails(k) PROVE Own'
  BY <1>0, <1>13 DEF RenameHappens, WriteFails, Tmp, Missing, LeftInv
<1>14. Own'
  BY <1>5, <1>6, <1>7, <1>8, <1>9, <1>10, <1>11, <1>12, <1>13 DEF Next
<1> QED
  BY <1>2, <1>14 DEF LeftInv

(* Once the migration is over and a list could be read, no password stays   *)
(* in plain text in connections.json, whatever handlers write after it; and *)
(* plain passwords in temporary files that failed or crashed writes left    *)
(* behind were written by a run without a keyring.                          *)
THEOREM NoPlainLeft == Spec => []PlainGone
<1>1. Init => PlainInv /\ LeftInv
  BY DEF Init, PlainInv, StartInv, CleanInv, CleanCall, Idle, LeftInv, Missing
<1>2. PlainInv /\ LeftInv => PlainGone
  BY DEF PlainInv, CleanInv, PlainGone, LeftInv
<1> QED
  BY <1>1, <1>2, NextPlainInv, NextLeftInv, StoreTypeCorrect, PTL DEF Spec

-----------------------------------------------------------------------------
(* Handlers that do not overlap implement ListStore *)

(* No two handlers wait at the same time.                                   *)
Serial == \A j, k \in Calls : calls[j].pc # "idle" /\ calls[k].pc # "idle" => j = k

(* What a serial handler may read: the saved list, or nothing of it.        *)
Current(l) == l \in {EmptyList, SavedList}

(* The list being written is an edit of the cached one.  The migration has  *)
(* put its edit into the cache already; creating the file needs no cache.   *)
Writing(k) ==
  \/ calls[k].op.kind = "create" /\ phase = "create"
  \/ /\ calls[k].op.kind = "migrate"
     /\ SavedList # EmptyList
     /\ calls[k].list = Migrated(SavedList)
     /\ cache = calls[k].list
  \/ /\ calls[k].op.kind \notin {"create", "migrate", "load"}
     /\ cache # None /\ Current(cache)
     /\ calls[k].list \in Edited(cache, calls[k].op)

SerialCall(k) ==
  /\ calls[k].pc \in {"open", "got"} => cache = None
  /\ calls[k].pc = "got" => Current(calls[k].list)
  /\ calls[k].pc \in {"tmp", "half", "rename"} => Writing(k)
  /\ calls[k].pc = "rename" => temps[k].list = calls[k].list
  /\ calls[k].pc = "renamed" => SavedList = calls[k].list

SerialInv ==
  /\ \A k \in Calls : SerialCall(k)
  /\ (\A k \in Calls : calls[k].pc = "idle") => cache = None \/ Current(cache)
  /\ phase = "create" /\ (\A k \in Calls : calls[k].pc # "renamed")
       => file.st = "missing"

\* What the proofs below take for granted of a state.
Known == TypeInv /\ WholeInv /\ StartInv /\ SerialInv

LEMMA SavedListType == file \in File => SavedList \in List
BY EmptyListType DEF SavedList, File

(* With a call waiting every other one is idle.                             *)
LEMMA OthersIdle ==
  ASSUME Serial, NEW k \in Calls, calls[k].pc # "idle"
  PROVE  \A j \in Calls \ {k} : calls[j].pc = "idle"
BY DEF Serial

(* A call keeps its part while nothing it speaks of changes.                *)
LEMMA SerialCallSame ==
  ASSUME NEW k \in Calls, SerialCall(k), calls'[k] = calls[k],
         UNCHANGED <<file, temps, cache, keyring, phase>>
  PROVE  SerialCall(k)'
<1>1. SavedList' = SavedList
  BY DEF SavedList
<1>2. Writing(k) => Writing(k)'
  BY <1>1 DEF Writing, Current, Migrated, Edited, Saved, SavedPassword, Sealed
<1>3. Current(calls[k].list) => Current(calls[k].list)'
  BY <1>1 DEF Current
<1> QED
  BY <1>1, <1>2, <1>3 DEF SerialCall

(* A handler that holds the saved list, or an empty one, edits it.          *)
LEMMA EditSerial ==
  ASSUME Known, Serial', NEW k \in Calls, NEW l \in List, NEW op \in Op,
         op.kind # "create", Current(l), phase \in {"migrate", "up"},
         \A j \in Calls \ {k} : calls[j].pc = "idle",
         Edit(k, op, l), UNCHANGED <<file, temps, keyring>>
  PROVE  SerialInv'
<1>1. calls \in [Calls -> Frame]
  BY DEF Known, TypeInv, TypeOK
<1>2. PICK new \in Edited(l, op) :
        /\ IF Writes(l, op, new)
           THEN /\ calls' = [calls EXCEPT ![k] = [pc |-> "tmp", op |-> op, list |-> new]]
                /\ UNCHANGED phase
           ELSE Ends(k, op.kind)
        /\ cache' = IF op.kind = "migrate" THEN new ELSE l
  BY DEF Edit
<1>3. SavedList' = SavedList /\ file' = file
  BY DEF SavedList
<1>4. l # None
  BY StoreAssumption
<1>5. \A j \in Calls \ {k} : SerialCall(j)'
  BY <1>1, <1>2 DEF SerialCall, Ends
<1>6. CASE Writes(l, op, new)
  <2>1. /\ calls'[k] = [pc |-> "tmp", op |-> op, list |-> new]
        /\ phase' = phase
    BY <1>1, <1>2, <1>6
  <2>2. Writing(k)'
    <3>1. CASE op.kind = "migrate"
      <4>1. new = Migrated(l) /\ new # l
        BY <1>2, <1>6, <3>1 DEF Edited, Writes
      <4>2. l # EmptyList
        <5> SUFFICES ASSUME l = EmptyList PROVE FALSE
          OBVIOUS
        <5> QED
          BY <4>1 DEF Migrated, EmptyList
      <4>3. l = SavedList
        BY <4>2 DEF Current
      <4> QED
        BY <1>2, <1>3, <2>1, <3>1, <4>1, <4>2, <4>3 DEF Writing, Migrated
    <3>2. CASE op.kind # "migrate"
      <4>1. cache' = l /\ op.kind # "load"
        BY <1>2, <1>6, <3>2 DEF Writes
      <4>2. keyring' = keyring
        OBVIOUS
      <4>3. new \in Edited(l, op)'
        BY <1>2, <4>2 DEF Edited, Saved, SavedPassword, Sealed
      <4>4. Current(l)'
        BY <1>3 DEF Current
      <4> QED
        BY <1>4, <2>1, <3>2, <4>1, <4>3, <4>4 DEF Writing, Current, Edited, Saved,
           SavedPassword, Sealed
    <3> QED
      BY <3>1, <3>2
  <2>3. SerialCall(k)'
    BY <2>1, <2>2 DEF SerialCall
  <2> QED
    BY <1>5, <2>1, <2>3 DEF SerialInv
<1>7. CASE ~Writes(l, op, new)
  <2>1. calls'[k] = Idle /\ phase' # "create"
    BY <1>1, <1>2, <1>7 DEF Ends, PhaseAfter
  <2>2. SerialCall(k)'
    BY <2>1 DEF SerialCall, Idle
  <2>3. Current(cache)'
    BY <1>2, <1>3, <1>7 DEF Writes, Current
  <2> QED
    BY <1>5, <2>1, <2>2, <2>3 DEF SerialInv
<1> QED
  BY <1>6, <1>7

(* A call that ends at once, with another one waiting, changes nothing.     *)
LEMMA BeginSerial ==
  ASSUME Known, Serial', NEW k \in Calls, NEW op \in Op,
         op.kind # "create", phase \in {"migrate", "up"},
         op.kind = "migrate" => /\ phase = "migrate"
                                /\ \A j \in Calls : calls[j].pc = "idle",
         Begin(k, op)
  PROVE  SerialInv' /\ cache' = cache
<1>1. /\ calls \in [Calls -> Frame] /\ calls[k].pc = "idle"
      /\ cache \in List \cup {None} /\ UNCHANGED <<file, temps, keyring>>
  BY DEF Known, TypeInv, TypeOK, Begin
<1>2. SavedList' = SavedList
  BY <1>1 DEF SavedList
<1>3. CASE cache = None
  <2>1. /\ calls' = [calls EXCEPT ![k] = [pc |-> "open", op |-> op, list |-> EmptyList]]
        /\ UNCHANGED <<cache, phase>>
    BY <1>3 DEF Begin
  <2>2. \A j \in Calls : SerialCall(j)'
    <3>1. SerialCall(k)'
      BY <1>1, <1>3, <2>1 DEF SerialCall
    <3>2. \A j \in Calls \ {k} : calls'[j].pc = "idle"
      BY <1>1, <2>1 DEF Serial
    <3> QED
      BY <3>1, <3>2 DEF SerialCall
  <2>3. phase' # "create"
    BY <2>1
  <2> QED
    BY <1>3, <2>1, <2>2, <2>3 DEF SerialInv
<1>4. CASE cache # None
  <2>1. cache \in List /\ Edit(k, op, cache)
    BY <1>1, <1>4 DEF Begin
  <2>2. PICK new \in Edited(cache, op) :
          /\ IF Writes(cache, op, new)
             THEN /\ calls' = [calls EXCEPT ![k] = [pc |-> "tmp", op |-> op, list |-> new]]
                  /\ UNCHANGED phase
             ELSE Ends(k, op.kind)
          /\ cache' = IF op.kind = "migrate" THEN new ELSE cache
    BY <2>1 DEF Edit
  <2>3. cache' = cache
    <3>1. CASE op.kind = "migrate"
      <4>1. cache = EmptyList
        BY <1>4, <3>1 DEF Known, StartInv
      <4>2. new = Migrated(EmptyList)
        BY <2>2, <3>1, <4>1 DEF Edited
      <4> QED
        BY <2>2, <3>1, <4>1, <4>2 DEF Migrated, EmptyList
    <3> QED
      BY <2>2, <3>1
  <2>4. CASE \A j \in Calls : calls[j].pc = "idle"
    <3>1. Current(cache)
      BY <1>4, <2>4 DEF Known, SerialInv
    <3> QED
      BY <1>1, <2>1, <2>3, <2>4, <3>1, EditSerial
  <2>5. CASE \E j \in Calls : calls[j].pc # "idle"
    <3>1. PICK j \in Calls : calls[j].pc # "idle" /\ j # k
      BY <1>1, <2>5
    <3>2. calls'[j] = calls[j]
      BY <1>1, <2>2, <3>1 DEF Ends
    <3>3. calls'[k].pc = "idle"
      BY <3>1, <3>2 DEF Serial
    <3>4. ~Writes(cache, op, new)
      <4> SUFFICES ASSUME Writes(cache, op, new) PROVE FALSE
        OBVIOUS
      <4>1. calls'[k].pc = "tmp"
        BY <1>1, <2>2
      <4> QED
        BY <3>3, <4>1
    <3>5. op.kind # "migrate"
      BY <3>1
    <3>6. /\ \A i \in Calls \ {k} : calls'[i] = calls[i]
          /\ phase' = phase
      BY <1>1, <2>2, <3>4, <3>5 DEF Ends, PhaseAfter
    <3>7. \A i \in Calls : SerialCall(i)'
      <4>1. ASSUME NEW i \in Calls \ {k} PROVE SerialCall(i)'
        BY <1>1, <2>3, <3>6, SerialCallSame DEF Known, SerialInv
      <4>2. SerialCall(k)'
        BY <3>3 DEF SerialCall
      <4> QED
        BY <4>1, <4>2
    <3>8. phase' # "create"
      BY <3>6
    <3> QED
      BY <2>3, <3>1, <3>2, <3>7, <3>8 DEF SerialInv
  <2> QED
    BY <2>4, <2>5
<1> QED
  BY <1>3, <1>4

LEMMA NextSerialInv == Known /\ Serial /\ Serial' /\ [Next]_vars => SerialInv'
<1> SUFFICES ASSUME Known, Serial, Serial', [Next]_vars PROVE SerialInv'
  OBVIOUS
<1>a. /\ calls \in [Calls -> Frame] /\ temps \in [Calls -> File]
      /\ file \in File /\ TypeInv /\ WholeInv /\ StartInv /\ SerialInv
  BY DEF Known, TypeInv, TypeOK
<1>b. \A k \in Calls : calls[k].list \in List /\ calls[k].op \in Op
  BY <1>a DEF Frame
<1> USE <1>a
<1>1. CASE Start
  BY <1>1 DEF Start, StartInv, SerialInv, SerialCall
<1>2. CASE Stop
  BY <1>2 DEF Stop, SerialInv, SerialCall, Idle
<1>3. ASSUME NEW k \in Calls, Create(k) PROVE SerialInv'
  <2>1. /\ calls'[k] = [pc |-> "tmp", op |-> OpOf("create"), list |-> EmptyList]
        /\ \A j \in Calls \ {k} : calls'[j] = calls[j] /\ calls[j].pc = "idle"
        /\ \A j \in Calls : calls[j].pc = "idle"
        /\ phase = "create" /\ UNCHANGED <<file, temps, cache, keyring, phase>>
    BY <1>3 DEF Create
  <2>2. SerialCall(k)'
    BY <2>1 DEF SerialCall, Writing, OpOf
  <2>3. \A j \in Calls \ {k} : SerialCall(j)'
    BY <2>1 DEF SerialCall
  <2> QED
    BY <2>1, <2>2, <2>3 DEF SerialInv
<1>4. ASSUME NEW k \in Calls, Migrate(k) PROVE SerialInv'
  <2>1. phase = "migrate" /\ \A j \in Calls : calls[j].pc = "idle"
    BY <1>4 DEF Migrate
  <2>2. CASE keyring
    <3>1. OpOf("migrate") \in Op /\ OpOf("migrate").kind = "migrate"
      BY OpTypes DEF Kinds, OpOf
    <3>2. Begin(k, OpOf("migrate"))
      BY <1>4, <2>2 DEF Migrate
    <3> QED
      BY <2>1, <3>1, <3>2, BeginSerial
  <2>3. CASE ~keyring
    <3>1. phase' = "up" /\ UNCHANGED <<file, temps, leftovers, cache, keyring, calls>>
      BY <1>4, <2>3 DEF Migrate
    <3> QED
      BY <2>1, <3>1 DEF SerialInv, SerialCall, Current, SavedList
  <2> QED
    BY <2>2, <2>3
<1>5. ASSUME NEW k \in Calls, Handle(k) PROVE SerialInv'
  <2>1. PICK op \in UserOps : phase = "up" /\ Begin(k, op)
    BY <1>5 DEF Handle
  <2>2. op \in Op /\ op.kind \notin {"migrate", "create"}
    BY OpTypes DEF UserOps
  <2> QED
    BY <2>1, <2>2, BeginSerial
<1>6. ASSUME NEW k \in Calls, ReadHappens(k) PROVE SerialInv'
  <2>1. /\ calls'[k].pc = "got" /\ calls[k].pc = "open"
        /\ calls'[k].list \in {EmptyList, SavedList}
        /\ \A j \in Calls \ {k} : calls'[j] = calls[j]
        /\ UNCHANGED <<file, temps, cache, keyring, phase>>
    BY <1>6 DEF ReadHappens, Frame, Readable, SavedList
  <2>2. SavedList' = SavedList /\ cache = None
    BY <2>1 DEF SavedList, SerialInv, SerialCall
  <2>3. SerialCall(k)'
    BY <2>1, <2>2 DEF SerialCall, Current
  <2>4. \A j \in Calls \ {k} : SerialCall(j)'
    BY <2>1, OthersIdle DEF SerialCall
  <2>5. phase' # "create"
    BY <2>1 DEF StartInv
  <2> QED
    BY <2>1, <2>3, <2>4, <2>5 DEF SerialInv
<1>7. ASSUME NEW k \in Calls, ReadDone(k) PROVE SerialInv'
  <2>1. /\ calls[k].pc = "got"
        /\ Edit(k, calls[k].op, calls[k].list)
        /\ UNCHANGED <<file, temps, keyring>>
    BY <1>7 DEF ReadDone
  <2>2. phase \in {"migrate", "up"} /\ calls[k].op.kind # "create"
    BY <2>1 DEF TypeInv, TypeOK, StartInv
  <2>3. Current(calls[k].list)
    BY <2>1 DEF SerialInv, SerialCall
  <2> QED
    BY <1>b, <2>1, <2>2, <2>3, OthersIdle, EditSerial DEF Known
(* The steps of a write before the rename.                                  *)
<1>c. ASSUME NEW k \in Calls, calls[k].pc \in {"tmp", "half"},
             calls'[k].pc \in {"half", "rename"},
             calls'[k].op = calls[k].op, calls'[k].list = calls[k].list,
             calls'[k].pc = "rename" => temps'[k].list = calls[k].list,
             \A j \in Calls \ {k} : calls'[j] = calls[j],
             UNCHANGED <<file, cache, keyring, phase>>
      PROVE  SerialInv'
  <2>1. Writing(k)
    BY <1>c DEF SerialInv, SerialCall
  <2>2. SavedList' = SavedList
    BY <1>c DEF SavedList
  <2>3. Writing(k)'
    BY <1>c, <2>1, <2>2 DEF Writing, Current, Migrated, Edited, Saved, SavedPassword, Sealed
  <2>4. SerialCall(k)'
    BY <1>c, <2>3 DEF SerialCall
  <2>5. \A j \in Calls \ {k} : SerialCall(j)'
    BY <1>c, OthersIdle DEF SerialCall
  <2>6. (\A j \in Calls : calls'[j].pc # "renamed") => \A j \in Calls : calls[j].pc # "renamed"
    BY <1>c
  <2> QED
    BY <1>c, <2>4, <2>5, <2>6 DEF SerialInv
<1>8. ASSUME NEW k \in Calls, Truncate(k) PROVE SerialInv'
  BY <1>8, <1>c DEF Truncate, Tmp, Frame
<1>9. ASSUME NEW k \in Calls, WriteHappens(k) PROVE SerialInv'
  BY <1>9, <1>c DEF WriteHappens, Tmp, Frame
<1>10. ASSUME NEW k \in Calls, RenameHappens(k) PROVE SerialInv'
  <2>1. /\ calls[k].pc = "rename" /\ calls'[k].pc = "renamed"
        /\ calls'[k].list = calls[k].list /\ file' = temps[k]
        /\ \A j \in Calls \ {k} : calls'[j] = calls[j]
    BY <1>10 DEF RenameHappens, Tmp, Frame
  <2>2. file'.st = "whole" /\ file'.list = calls[k].list
    BY <2>1 DEF WholeInv, RenameReady, SerialInv, SerialCall
  <2>3. SerialCall(k)'
    BY <2>1, <2>2 DEF SerialCall, SavedList
  <2>4. \A j \in Calls \ {k} : SerialCall(j)'
    BY <2>1, OthersIdle DEF SerialCall
  <2> QED
    BY <2>1, <2>3, <2>4 DEF SerialInv
<1>11. ASSUME NEW k \in Calls, WriteDone(k) PROVE SerialInv'
  <2>1. /\ calls[k].pc = "renamed" /\ calls'[k].pc = "idle"
        /\ \A j \in Calls \ {k} : calls'[j] = calls[j]
        /\ cache' = calls[k].list /\ phase' = PhaseAfter(calls[k].op.kind)
        /\ UNCHANGED file
    BY <1>11 DEF WriteDone, Ends, Idle
  <2>2. SavedList = calls[k].list /\ SavedList' = SavedList
    BY <2>1 DEF SerialInv, SerialCall, SavedList
  <2>3. \A j \in Calls : SerialCall(j)'
    BY <2>1, OthersIdle DEF SerialCall
  <2>4. phase' # "create"
    BY <2>1 DEF PhaseAfter, StartInv
  <2> QED
    BY <2>1, <2>2, <2>3, <2>4 DEF SerialInv, Current
<1>12. ASSUME NEW k \in Calls, WriteFails(k) PROVE SerialInv'
  <2>1. /\ calls[k].pc \in {"tmp", "half", "rename"} /\ calls'[k].pc = "idle"
        /\ \A j \in Calls \ {k} : calls'[j] = calls[j]
        /\ phase = "up" /\ UNCHANGED <<file, cache, phase>>
    BY <1>12 DEF WriteFails, Idle
  <2>2. calls[k].op.kind \notin {"create", "migrate"} /\ Writing(k)
    BY <2>1 DEF StartInv, SerialInv, SerialCall
  <2>3. Current(cache) /\ SavedList' = SavedList
    BY <2>1, <2>2 DEF Writing, SavedList
  <2>4. \A j \in Calls : SerialCall(j)'
    BY <2>1, OthersIdle DEF SerialCall
  <2> QED
    BY <2>1, <2>3, <2>4 DEF SerialInv, Current
<1>13. CASE UNCHANGED vars
  <2>1. SavedList' = SavedList
    BY <1>13 DEF vars, SavedList
  <2>2. \A k \in Calls : SerialCall(k)'
    BY <1>13, SerialCallSame DEF vars, SerialInv
  <2> QED
    BY <1>13, <2>1, <2>2 DEF vars, SerialInv, Current
<1> QED
  BY <1>1, <1>2, <1>3, <1>4, <1>5, <1>6, <1>7, <1>8, <1>9, <1>10, <1>11, <1>12,
     <1>13 DEF Next

-----------------------------------------------------------------------------
(* Every step maps to one of ListStore, or to none *)

AbstractStep == [Abstract!Next]_<<SavedList, View>>

(* The cached list is the base of an edit: the saved list, or, when the     *)
(* list could not be read, the empty one.                                   *)
LEMMA BaseIsCache ==
  ASSUME cache # None, Current(cache), \A k \in Calls : calls[k].pc # "renamed"
  PROVE  Abstract!Base = cache /\ View # "unread"
BY DEF Abstract!Base, Abstract!Empty, View, Current, EmptyList

(* What a handler other than the migration writes is an edit of ListStore.  *)
LEMMA EditedIsEdit ==
  ASSUME keyring \in BOOLEAN, NEW l \in List, NEW op \in Op,
         op.kind \in {"save", "delete"} => op.id \in Ids,
         op.kind \notin {"load", "create", "migrate"},
         NEW new \in Edited(l, op)
  PROVE  \/ \E i \in Ids, d \in Abstract!Saveable \cup {None} : new = Abstract!Put(l, i, d)
         \/ \E added \in SUBSET Ids : new = Abstract!Add(l, added)
         \/ new = Abstract!DropTemp(l)
<1>1. CASE op.kind = "save"
  <2>1. new = Saved(l, op) /\ op.id \in Ids
    BY <1>1 DEF Edited
  <2>2. /\ op.temp \in BOOLEAN /\ op.pw \in {"new", "keep", "none"}
        /\ l[op.id] \in Data \cup {None}
    BY <2>1 DEF Op, List
  <2> DEFINE d == [temp |-> op.temp, pw |-> SavedPassword(op.pw, l[op.id])]
  <2>3. d \in Abstract!Saveable
    BY <2>2, SavedPasswordType DEF Abstract!Saveable
  <2>4. new = Abstract!Put(l, op.id, d)
    BY <2>1 DEF Saved, Abstract!Put
  <2> QED
    BY <2>1, <2>3, <2>4
<1>2. CASE op.kind = "delete"
  <2>1. new = Abstract!Put(l, op.id, None)
    BY <1>2 DEF Edited, Abstract!Put
  <2> QED
    BY <1>2, <2>1
<1>3. CASE op.kind = "import"
  <2>1. PICK added \in SUBSET {i \in Ids : l[i] = None} : new = Imported(l, added)
    BY <1>3 DEF Edited
  <2>2. new = Abstract!Add(l, added)
    BY <2>1 DEF Imported, Abstract!Add
  <2> QED
    BY <2>2
<1>4. CASE op.kind = "dropTemp"
  BY <1>4 DEF Edited, WithoutTemps, Abstract!DropTemp
<1> QED
  BY <1>1, <1>2, <1>3, <1>4 DEF Op, Kinds

(* The migration seals what is in plain text.                               *)
LEMMA MigratedIsSeal == \A l \in List : Migrated(l) = Abstract!Seal(l)
<1> SUFFICES ASSUME NEW l \in List PROVE Migrated(l) = Abstract!Seal(l)
  OBVIOUS
<1>1. \A i \in Ids : l[i] # None => l[i] \in Data
  BY DEF List
<1>2. \A d \in Data : [d EXCEPT !.pw = "sealed"] = [temp |-> d.temp, pw |-> "sealed"]
  BY DEF Data
<1> QED
  BY <1>1, <1>2 DEF Migrated, Abstract!Seal

(* A step that leaves the file, the cache and the set of calls between      *)
(* rename and its completion alone is a stutter.                            *)
LEMMA Stutters ==
  ASSUME UNCHANGED <<file, cache>>,
         \A k \in Calls : calls'[k].pc = "renamed" <=> calls[k].pc = "renamed"
  PROVE  AbstractStep
<1>1. SavedList' = SavedList
  BY DEF SavedList
<1>2. View' = View
  BY <1>1 DEF View
<1> QED
  BY <1>1, <1>2 DEF AbstractStep

(* The rename is the moment of the edit.                                    *)
LEMMA RenameRefines ==
  ASSUME Known, Serial, NEW k \in Calls, RenameHappens(k)
  PROVE  AbstractStep
<1>1. /\ calls \in [Calls -> Frame] /\ keyring \in BOOLEAN /\ cache \in List \cup {None}
      /\ file \in File /\ calls[k].op \in Op
  BY DEF Known, TypeInv, TypeOK, Frame
<1>2. /\ calls[k].pc = "rename" /\ calls'[k].pc = "renamed" /\ cache' = cache
      /\ file' = temps[k]
  BY <1>1 DEF RenameHappens, Tmp, Frame
<1>3. SavedList' = calls[k].list
  BY <1>2 DEF Known, WholeInv, RenameReady, SerialInv, SerialCall, SavedList
<1>4. \A j \in Calls : calls[j].pc # "renamed"
  BY <1>2, OthersIdle
<1>5. Writing(k)
  BY <1>2 DEF Known, SerialInv, SerialCall
<1>6. cache # None => View' = "whole"
  BY <1>2 DEF View
<1>7. CASE calls[k].op.kind = "create"
  <2>1. phase = "create" /\ cache = None /\ calls[k].list = EmptyList
    BY <1>2, <1>5, <1>7 DEF Writing, Known, StartInv
  <2>2. SavedList = EmptyList
    BY <1>4, <2>1 DEF Known, SerialInv, SavedList
  <2> QED
    BY <1>2, <1>3, <2>1, <2>2 DEF View, AbstractStep
<1>8. CASE calls[k].op.kind = "migrate"
  <2>1. /\ SavedList # EmptyList /\ calls[k].list = Migrated(SavedList)
        /\ cache = calls[k].list
    BY <1>5, <1>8 DEF Writing
  <2>2. SavedList \in List /\ cache \in List /\ cache # None
    BY <1>1, <2>1, SavedListType, EditedType, StoreAssumption DEF Known, TypeInv, TypeOK, Frame
  <2>3. cache # EmptyList
    <3>1. PICK i \in Ids : SavedList[i] # None
      BY <2>1, <2>2 DEF List, EmptyList
    <3>2. SavedList[i] \in Data
      BY <2>2, <3>1 DEF List
    <3>3. cache[i] \in Data
      BY <2>1, <3>1, <3>2 DEF Migrated, Data
    <3> QED
      BY <3>3, StoreAssumption DEF EmptyList
  <2>4. View = "whole" /\ Abstract!Base = SavedList
    BY <2>2, <2>3 DEF View, Abstract!Base
  <2>5. SavedList' = Abstract!Seal(Abstract!Base)
    BY <1>3, <2>1, <2>2, <2>4, MigratedIsSeal
  <2>6. Abstract!Edit
    BY <1>6, <2>2, <2>4, <2>5 DEF Abstract!Edit
  <2> QED
    BY <2>6 DEF AbstractStep, Abstract!Next
<1>9. CASE calls[k].op.kind \notin {"create", "migrate"}
  <2>1. /\ calls[k].op.kind # "load" /\ cache # None /\ Current(cache)
        /\ calls[k].list \in Edited(cache, calls[k].op)
    BY <1>5, <1>9 DEF Writing
  <2>2. Abstract!Base = cache /\ View # "unread"
    BY <1>4, <2>1, BaseIsCache
  <2>3. calls[k].op.kind \in {"save", "delete"} => calls[k].op.id \in Ids
    BY <1>2 DEF Known, TypeInv, OpInv
  <2>4. \/ \E i \in Ids, d \in Abstract!Saveable \cup {None} :
             SavedList' = Abstract!Put(Abstract!Base, i, d)
        \/ \E added \in SUBSET Ids : SavedList' = Abstract!Add(Abstract!Base, added)
        \/ SavedList' = Abstract!DropTemp(Abstract!Base)
    BY <1>1, <1>3, <1>9, <2>1, <2>2, <2>3, EditedIsEdit
  <2>5. Abstract!Edit
    BY <1>6, <2>1, <2>2, <2>4 DEF Abstract!Edit
  <2> QED
    BY <2>5 DEF AbstractStep, Abstract!Next
<1> QED
  BY <1>7, <1>8, <1>9

LEMMA StepRefines == Known /\ Serial /\ Serial' /\ [Next]_vars => AbstractStep
<1> SUFFICES ASSUME Known, Serial, Serial', [Next]_vars PROVE AbstractStep
  OBVIOUS
<1>a. calls \in [Calls -> Frame] /\ cache \in List \cup {None}
  BY DEF Known, TypeInv, TypeOK
<1>b. \A k \in Calls : calls[k].list \in List /\ calls[k].op \in Op
  BY <1>a DEF Frame
<1>1. CASE Start
  BY <1>1, Stutters DEF Start
<1>2. CASE Stop
  <2>1. SavedList' = SavedList /\ View' = "unread"
    BY <1>2 DEF Stop, SavedList, View
  <2> QED
    BY <2>1 DEF AbstractStep, Abstract!Next, Abstract!Restart
<1>3. ASSUME NEW k \in Calls, Create(k) PROVE AbstractStep
  BY <1>a, <1>3, Stutters DEF Create
<1>c. ASSUME NEW k \in Calls, NEW op \in Op, Begin(k, op), cache' = cache
      PROVE  AbstractStep
  <2>1. file' = file /\ calls[k].pc = "idle"
    BY <1>c DEF Begin
  <2>2. /\ calls'[k].pc # "renamed"
        /\ \A j \in Calls \ {k} : calls'[j] = calls[j]
    BY <1>a, <1>c DEF Begin, Edit, Ends, Idle
  <2> QED
    BY <1>c, <2>1, <2>2, Stutters
<1>4. ASSUME NEW k \in Calls, Migrate(k) PROVE AbstractStep
  <2>1. phase = "migrate" /\ \A j \in Calls : calls[j].pc = "idle"
    BY <1>4 DEF Migrate
  <2>2. CASE keyring
    <3>1. OpOf("migrate") \in Op /\ OpOf("migrate").kind = "migrate"
      BY OpTypes DEF Kinds, OpOf
    <3>2. Begin(k, OpOf("migrate"))
      BY <1>4, <2>2 DEF Migrate
    <3> QED
      BY <1>c, <2>1, <3>1, <3>2, BeginSerial
  <2>3. CASE ~keyring
    BY <1>4, <2>3, Stutters DEF Migrate
  <2> QED
    BY <2>2, <2>3
<1>5. ASSUME NEW k \in Calls, Handle(k) PROVE AbstractStep
  <2>1. PICK op \in UserOps : phase = "up" /\ Begin(k, op)
    BY <1>5 DEF Handle
  <2>2. op \in Op /\ op.kind \notin {"migrate", "create"}
    BY OpTypes DEF UserOps
  <2> QED
    BY <1>c, <2>1, <2>2, BeginSerial
<1>6. ASSUME NEW k \in Calls, ReadHappens(k) PROVE AbstractStep
  <2>1. /\ calls'[k].pc = "got" /\ calls[k].pc = "open"
        /\ \A j \in Calls \ {k} : calls'[j] = calls[j]
        /\ UNCHANGED <<file, cache>>
    BY <1>a, <1>6 DEF ReadHappens, Frame
  <2> QED
    BY <2>1, Stutters
<1>7. ASSUME NEW k \in Calls, ReadDone(k) PROVE AbstractStep
  <2>1. calls[k].pc = "got" /\ Edit(k, calls[k].op, calls[k].list) /\ file' = file
    BY <1>7 DEF ReadDone
  <2>2. cache = None
    BY <2>1 DEF Known, SerialInv, SerialCall
  <2>3. cache' # None
    BY <1>b, <2>1, EditType, StoreAssumption DEF Known, TypeInv, OpInv
  <2>4. SavedList' = SavedList
    BY <2>1 DEF SavedList
  <2>5. View = "unread" /\ View' \in {"whole", "blind"}
    BY <2>2, <2>3 DEF View
  <2> QED
    BY <2>4, <2>5 DEF AbstractStep, Abstract!Next, Abstract!Open
<1>8. ASSUME NEW k \in Calls, Truncate(k) PROVE AbstractStep
  BY <1>a, <1>8, Stutters DEF Truncate, Frame
<1>9. ASSUME NEW k \in Calls, WriteHappens(k) PROVE AbstractStep
  BY <1>a, <1>9, Stutters DEF WriteHappens, Frame
<1>10. ASSUME NEW k \in Calls, RenameHappens(k) PROVE AbstractStep
  BY <1>10, RenameRefines
<1>11. ASSUME NEW k \in Calls, WriteDone(k) PROVE AbstractStep
  <2>1. /\ calls[k].pc = "renamed" /\ cache' = calls[k].list /\ file' = file
    BY <1>11 DEF WriteDone
  <2>2. SavedList' = SavedList /\ SavedList = calls[k].list
    BY <2>1 DEF Known, SerialInv, SerialCall, SavedList
  <2>3. cache' # None
    BY <1>b, <2>1, StoreAssumption
  <2>4. View' = "whole" /\ View \in {"unread", "whole"}
    BY <2>1, <2>2, <2>3 DEF View
  <2> QED
    BY <2>2, <2>4 DEF AbstractStep, Abstract!Next, Abstract!Open
<1>12. ASSUME NEW k \in Calls, WriteFails(k) PROVE AbstractStep
  BY <1>a, <1>12, Stutters DEF WriteFails, Idle
<1>13. CASE UNCHANGED vars
  BY <1>13, Stutters DEF vars
<1> QED
  BY <1>1, <1>2, <1>3, <1>4, <1>5, <1>6, <1>7, <1>8, <1>9, <1>10, <1>11, <1>12,
     <1>13 DEF Next

(* Without overlapping handlers SerialInv holds.                            *)
LEMMA SerialKnown == Spec /\ []Serial => []Known
<1>1. Init => SerialInv
  BY DEF Init, SerialInv, SerialCall, Idle
<1>2. Init => WholeInv /\ PlainInv
  BY DEF Init, WholeInv, FileWhole, RenameReady, Missing, PlainInv, StartInv, CleanInv,
     CleanCall, Idle
<1>3. PlainInv => StartInv
  BY DEF PlainInv
<1>4. TypeInv /\ WholeInv /\ StartInv /\ SerialInv <=> Known
  BY DEF Known
<1>5. Spec => [](TypeInv /\ WholeInv /\ StartInv)
  BY <1>2, <1>3, NextWholeInv, NextPlainInv, StoreTypeCorrect, PTL DEF Spec
<1> QED
  BY <1>1, <1>4, <1>5, NextSerialInv, PTL DEF Spec

(* As long as no two handlers wait at the same time, the store implements   *)
(* ListStore: one whole edit at a time, each applied to the list that was   *)
(* saved last, and no edit is lost when the program stops.  With one call   *)
(* only, as in the run, that is so in every behaviour.                      *)
THEOREM SerialImplements == Spec /\ []Serial => ImplementsListStore
<1>1. Init => Abstract!Init
  <2> SUFFICES ASSUME Init PROVE Abstract!Init
    OBVIOUS
  <2>1. SavedList \in List
    BY InitTypeInv, SavedListType DEF TypeInv, TypeOK
  <2>2. Data \subseteq Abstract!Saveable \cup [temp : BOOLEAN, pw : {"plain"}]
    BY DEF Data, Abstract!Saveable
  <2>3. View = "unread"
    BY DEF Init, View
  <2> QED
    BY <2>1, <2>2, <2>3 DEF Abstract!Init, List
<1>2. Spec /\ []Serial => [][Abstract!Next]_<<SavedList, View>>
  BY SerialKnown, StepRefines, PTL DEF Spec, AbstractStep
<1> QED
  BY <1>1, <1>2, PTL DEF Spec, ImplementsListStore, Abstract!Spec

(* And the cache is then what its comment says: a list it holds while       *)
(* nothing is under way is the saved one.  Only overlap makes it stale.     *)
THEOREM SerialCacheLatest == Spec /\ []Serial => []CacheLatest
<1>1. Known => CacheLatest
  <2> SUFFICES ASSUME Known, \A k \in Calls : calls[k].pc = "idle",
                      cache \notin {None, EmptyList}
               PROVE  cache = file.list
    BY DEF CacheLatest
  <2> QED
    BY DEF Known, SerialInv, Current, SavedList
<1> QED
  BY <1>1, SerialKnown, PTL

(* A program with one handler at a time.                                    *)
COROLLARY OneCallImplements ==
  ASSUME \A j, k \in Calls : j = k
  PROVE  Spec => ImplementsListStore
<1>1. Serial
  BY DEF Serial
<1> QED
  BY <1>1, SerialImplements, PTL
=============================================================================
