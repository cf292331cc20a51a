---------------------------- MODULE SftpProofs -----------------------------
(***************************************************************************)
(* Proofs about SftpPanel, for any directories, names and numbers of tasks *)
(* and requests: the rows of the file browser belong to the path shown,    *)
(* and are what the server has once all tasks have ended, but for what     *)
(* uploads that failed have left there.                                    *)
(***************************************************************************)
EXTENDS SftpPanel, Queues

(* What can be under way, in both directions, and what a task can be.       *)
RequestType ==
  [op : {"list"}, who : Listers, dir : Dirs, name : {NoDir}, to : {NoDir}]
    \cup [op : {"add", "put", "remove"}, who : SftpTasks, dir : Dirs, name : Names, to : {NoDir}]
    \cup [op : {"rename"}, who : SftpTasks, dir : Dirs, name : Names, to : Names]

AnswerType == [who : Listers \cup SftpTasks, dir : Dirs, ok : BOOLEAN, names : SUBSET Names]

LoopType == [kind : Loops, dialog : {FALSE}, todo : SUBSET Names, dir : {NoDir}]
DialogType ==
  [kind : {"upload"}, dialog : BOOLEAN, todo : SUBSET Names, dir : Dirs]
    \cup [kind : {"mkdir", "rename", "unlink"}, dialog : BOOLEAN, todo : SUBSET Names, dir : {NoDir}]
TaskType == {NoTask} \cup LoopType \cup DialogType

SftpTyped ==
  /\ remote \in [Dirs -> SUBSET Names] /\ partial \in [Dirs -> SUBSET Names]
  /\ sftp \in {"none", "live", "ended"}
  /\ panel \in Panel
  /\ requests \in Seq(RequestType) /\ answers \in Seq(AnswerType)
  /\ task \in [SftpTasks -> TaskType]

(* Nothing is under way for a panel that has no path yet, and its buttons   *)
(* are not there; a panel that was told of the end has no session.          *)
NoTasks == \A k \in SftpTasks : task[k] = NoTask
PathInv ==
  /\ sftp = "none" => panel.path = NoDir
  /\ panel.path = NoDir => /\ requests = <<>> /\ answers = <<>> /\ NoTasks
                           /\ panel.gone \/ panel.loading \/ panel.error
  /\ panel.closed => sftp = "ended"

(* The first listing is alone, and the spinner turns until it is answered.  *)
NoOpening(s) == \A i \in 1..Len(s) : s[i].who # "opening"
Opening == NoTasks /\ (panel.gone \/ (panel.loading /\ panel.path = Home))
OpeningInv ==
  \/ NoOpening(requests) /\ NoOpening(answers)
  \/ Opening /\ requests = <<ListFor("opening", Home)>> /\ answers = <<>>
  \/ Opening /\ requests = <<>> /\ Len(answers) = 1 /\ answers[1].dir = Home

EntriesInv == panel.gone \/ panel.loading \/ panel.error \/ panel.of = panel.path

(* Whether a listing is sure to follow: of a loop, of an operation that was *)
(* carried out, or one that is under way.  Where none is, the last listing  *)
(* answered, or else the panel, shows what the server has, but for what     *)
(* uploads that failed since have left.                                     *)
ShowsAll(names, dir) == names \subseteq remote[dir] /\ remote[dir] \ names \subseteq partial[dir]
Lists == {r \in RequestType : r.who \in Listers}
Listings == {a \in AnswerType : a.who \in Listers}
Changes == {a \in AnswerType : a.who \in SftpTasks /\ a.ok}
Showing == {a \in AnswerType : a.ok => ShowsAll(a.names, a.dir)}

Unlisted ==
  /\ sftp = "live" /\ ~panel.gone
  /\ \A k \in SftpTasks : task[k].kind \notin Loops
  /\ Without(requests, Lists) /\ Without(answers, Changes)
Current ==
  \/ panel.error \/ panel.path = NoDir
  \/ panel.of = panel.path /\ ShowsAll(panel.names, panel.path)
FreshInv ==
  Unlisted => LastIn(answers, Listings, Showing) /\ (Without(answers, Listings) => Current)

SftpInv == SftpTyped /\ PathInv /\ OpeningInv /\ EntriesInv /\ FreshInv

-----------------------------------------------------------------------------
(* Requests and tasks *)

LEMMA ListForType ==
  ASSUME NEW who \in Listers, NEW dir \in Dirs
  PROVE  ListFor(who, dir) \in RequestType /\ ListFor(who, dir).who = who
         /\ ListFor(who, dir).dir = dir /\ ListFor(who, dir).op = "list"
BY DEF ListFor, Request, RequestType

LEMMA OperationTypes ==
  ASSUME NEW k \in SftpTasks, NEW dir \in Dirs, NEW name \in Names
  PROVE  /\ \A op \in {"add", "put", "remove"} : Request(op, k, dir, name, NoDir) \in RequestType
         /\ \A to \in Names : Request("rename", k, dir, name, to) \in RequestType
         /\ \A op, to : Request(op, k, dir, name, to).who = k
BY DEF Request, RequestType

LEMMA TaskTypes ==
  /\ NoTask \in TaskType /\ NoTask.kind = "none" /\ ~NoTask.dialog
  /\ \A t \in LoopType : t \in TaskType /\ t.kind \in Loops /\ ~t.dialog
  /\ \A t \in DialogType : t \in TaskType /\ t.kind \in Dialogs /\ t.kind \notin Loops
  /\ \A t \in TaskType : t = NoTask \/ t \in LoopType \/ t \in DialogType
BY DEF TaskType, LoopType, DialogType, NoTask, Loops, Dialogs

(* A listing of the path shown is asked for, or nobody is there to ask.     *)
Asking(dir) ==
  /\ panel' \in Panel
  /\ panel'.gone = panel.gone /\ panel'.closed = panel.closed
  /\ panel'.path = panel.path /\ panel'.of = panel.of /\ panel'.names = panel.names
  /\ IF panel.gone \/ panel.closed
     THEN /\ requests' = requests
          /\ panel'.loading = panel.loading /\ panel'.error = panel.error
     ELSE panel'.loading /\ requests' = Append(requests, ListFor("panel", dir))

LEMMA NavigatingAsks ==
  ASSUME SftpTyped, NEW dir \in Dirs, NEW p \in Panel,
         p = panel \/ p = [panel EXCEPT !.multi = {}],
         panel' = Navigating(p, dir), requests' = requests \o ListRequest(p, dir)
  PROVE  Asking(dir)
<1>1. /\ p.gone = panel.gone /\ p.closed = panel.closed /\ p.path = panel.path /\ p.of = panel.of
      /\ p.names = panel.names /\ p.loading = panel.loading /\ p.error = panel.error
  BY DEF SftpTyped, Panel
<1>2. CASE p.gone \/ p.closed
  <2>1. requests \o <<>> = requests
    BY ConcatEmptySeq DEF SftpTyped
  <2> QED
    BY <1>1, <1>2, <2>1 DEF Asking, Navigating, ListRequest
<1>3. CASE ~(p.gone \/ p.closed)
  <2>1. panel' = [p EXCEPT !.loading = TRUE, !.error = FALSE]
    BY <1>3 DEF Navigating
  <2>2. /\ panel' \in Panel /\ panel'.loading
        /\ panel'.gone = p.gone /\ panel'.closed = p.closed /\ panel'.path = p.path
        /\ panel'.of = p.of /\ panel'.names = p.names
    BY <2>1 DEF Panel
  <2>3. requests' = Append(requests, ListFor("panel", dir))
    <3>1. ListFor("panel", dir) \in RequestType
      BY ListForType DEF Listers
    <3> QED
      BY <1>3, <3>1, AppendIsConcat DEF ListRequest, SftpTyped
  <2> QED
    BY <1>1, <1>3, <2>2, <2>3 DEF Asking
<1> QED
  BY <1>2, <1>3

(* What becomes of a task: it ends with a listing, or it is a loop that     *)
(* goes on with an operation.                                               *)
TaskEnds(k) == task' = [task EXCEPT ![k] = NoTask] /\ Asking(panel.path)
LoopGoesOn(k) ==
  /\ panel' = panel
  /\ \E t \in LoopType, r \in RequestType :
       r.who = k /\ task' = [task EXCEPT ![k] = t] /\ requests' = Append(requests, r)

LEMMA LoopMoves ==
  ASSUME SftpTyped, NEW k \in SftpTasks, NEW todo \in SUBSET Names, panel.path \in Dirs,
         DeleteLoop(k, todo) \/ DropLoop(k, todo)
  PROVE  TaskEnds(k) \/ LoopGoesOn(k)
<1>1. panel \in Panel /\ [panel EXCEPT !.multi = {}] \in Panel
      /\ [panel EXCEPT !.multi = {}].path = panel.path
  BY DEF SftpTyped, Panel
<1>2. CASE Refresh(k, panel) \/ Refresh(k, [panel EXCEPT !.multi = {}])
  BY <1>1, <1>2, NavigatingAsks DEF Refresh, TaskEnds
<1>3. ASSUME NEW kind \in Loops, NEW name \in todo, NEW skipped, NEW op \in {"add", "put", "remove"},
             task' = [task EXCEPT ![k] = [NoTask EXCEPT !.kind = kind,
                                                        !.todo = Left(todo, name) \ skipped]],
             requests' = Append(requests, Request(op, k, panel.path, name, NoDir)),
             UNCHANGED panel
      PROVE  LoopGoesOn(k)
  <2>1. [NoTask EXCEPT !.kind = kind, !.todo = Left(todo, name) \ skipped] \in LoopType
    BY DEF NoTask, LoopType, Left
  <2>2. name \in Names
    OBVIOUS
  <2>3. Request(op, k, panel.path, name, NoDir) \in RequestType
        /\ Request(op, k, panel.path, name, NoDir).who = k
    BY <2>2, OperationTypes
  <2> QED
    BY <1>3, <2>1, <2>3 DEF LoopGoesOn
<1>4. CASE DeleteLoop(k, todo)
  <2>1. CASE todo \cap panel.names = {}
    BY <1>2, <1>4, <2>1 DEF DeleteLoop
  <2>2. ASSUME NEW name \in todo \cap panel.names, NEW skipped \in SUBSET (todo \ panel.names),
               task' = [task EXCEPT ![k] = [NoTask EXCEPT !.kind = "delete",
                                                          !.todo = Left(todo, name) \ skipped]],
               requests' = Append(requests, Request("remove", k, panel.path, name, NoDir)),
               UNCHANGED panel
        PROVE  LoopGoesOn(k)
    BY <1>3, <2>2 DEF Loops
  <2> QED
    BY <1>2, <1>4, <2>2 DEF DeleteLoop
<1>5. CASE DropLoop(k, todo)
  <2>1. ASSUME NEW name \in todo,
               task' = [task EXCEPT ![k] = [NoTask EXCEPT !.kind = "drop",
                                                          !.todo = Left(todo, name)]],
               requests' = Append(requests, Request("put", k, panel.path, name, NoDir)),
               UNCHANGED panel
        PROVE  LoopGoesOn(k)
    <3>1. Left(todo, name) \ {} = Left(todo, name)
      OBVIOUS
    <3>2. [NoTask EXCEPT !.kind = "drop", !.todo = Left(todo, name)]
            = [NoTask EXCEPT !.kind = "drop", !.todo = Left(todo, name) \ {}]
      BY <3>1
    <3> QED
      BY <1>3, <2>1, <3>2 DEF Loops
  <2> QED
    BY <1>2, <1>5, <2>1 DEF DropLoop
<1> QED
  BY <1>4, <1>5

(* A panel without a path has nothing under way.                            *)
LEMMA HasPath ==
  ASSUME SftpTyped, PathInv,
         Browsing \/ requests # <<>> \/ answers # <<>> \/ ~NoTasks
  PROVE  panel.path \in Dirs
<1>1. panel.path # NoDir
  BY DEF PathInv, Browsing
<1> QED
  BY <1>1 DEF SftpTyped, Panel

LEMMA LoopStarts ==
  ASSUME SftpTyped, PathInv, NEW k \in SftpTasks, StartLoop(k)
  PROVE  /\ TaskEnds(k) \/ LoopGoesOn(k)
         /\ PanelCalm /\ task[k] = NoTask /\ UNCHANGED <<remote, partial, sftp, answers>>
<1>1. panel.path \in Dirs
  BY HasPath DEF StartLoop, PanelCalm
<1>2. panel.multi \in SUBSET Names
  BY DEF SftpTyped, Panel
<1>3. TaskEnds(k) \/ LoopGoesOn(k)
  <2>1. CASE DeleteLoop(k, panel.multi)
    BY <1>1, <1>2, <2>1, LoopMoves
  <2>2. CASE \E files \in SUBSET Names \ {{}} : DropLoop(k, files)
    BY <1>1, <2>2, LoopMoves
  <2> QED
    BY <2>1, <2>2 DEF StartLoop
<1> QED
  BY <1>3 DEF StartLoop

LEMMA TaskHears ==
  ASSUME SftpTyped, PathInv, NEW k \in SftpTasks, TaskAnswered(k)
  PROVE  /\ answers # <<>> /\ answers' = Tail(answers) /\ Head(answers) \in AnswerType
         /\ Head(answers).who = k /\ UNCHANGED <<remote, partial, sftp>>
         /\ \/ TaskEnds(k) \/ LoopGoesOn(k)
            \/ /\ task[k].kind \notin Loops /\ ~Head(answers).ok
               /\ task' = [task EXCEPT ![k] = NoTask] /\ UNCHANGED <<panel, requests>>
<1>1. answers # <<>> /\ answers' = Tail(answers) /\ Head(answers) \in AnswerType
      /\ Head(answers).who = k /\ UNCHANGED <<remote, partial, sftp>>
  BY Taken DEF TaskAnswered, SftpTyped
<1>2. panel.path \in Dirs
  BY <1>1, HasPath
<1>3. task[k] \in TaskType /\ task[k].todo \in SUBSET Names
  <2>1. task[k] \in TaskType
    BY DEF SftpTyped
  <2>2. /\ \A t \in LoopType : t.todo \in SUBSET Names
        /\ \A t \in DialogType : t.todo \in SUBSET Names
        /\ NoTask.todo \in SUBSET Names
    BY DEF LoopType, DialogType, NoTask
  <2> QED
    BY <2>1, <2>2, TaskTypes
<1>4. CASE task[k].kind \in Loops
  BY <1>1, <1>2, <1>3, <1>4, LoopMoves DEF TaskAnswered, Loops
<1>5. CASE task[k].kind \notin Loops
  <2>1. IF Head(answers).ok THEN Refresh(k, panel)
        ELSE task' = [task EXCEPT ![k] = NoTask] /\ UNCHANGED <<panel, requests>>
    BY <1>5 DEF TaskAnswered, Loops
  <2>2. CASE Refresh(k, panel)
    BY <1>1, <1>2, <2>2, NavigatingAsks DEF Refresh, TaskEnds, SftpTyped
  <2> QED
    BY <1>1, <1>5, <2>1, <2>2
<1> QED
  BY <1>4, <1>5

(* A dialog that is answered sends an operation, on behalf of its task.     *)
LEMMA DialogMoves ==
  ASSUME SftpTyped, PathInv, NEW k \in SftpTasks, DialogEnds(k)
  PROVE  /\ task[k].kind \notin Loops /\ task[k] # NoTask
         /\ UNCHANGED <<remote, partial, sftp, panel, answers>>
         /\ \E t \in {NoTask} \cup DialogType : task' = [task EXCEPT ![k] = t]
         /\ \/ requests' = requests
            \/ \E r \in RequestType : r.who = k /\ requests' = Append(requests, r)
<1>1. task[k] \in DialogType /\ task[k].dialog
  <2>1. task[k] \in TaskType /\ task[k].dialog
    BY DEF SftpTyped, DialogEnds
  <2> QED
    BY <2>1, TaskTypes
<1>2. task[k].kind \notin Loops /\ task[k] # NoTask
  BY <1>1, TaskTypes
<1>3. panel.path \in Dirs
  BY <1>2, HasPath DEF NoTasks
<1>4. ASSUME NEW name \in task[k].todo, NEW to \in Names
      PROVE  DialogRequest(k, name, to) \in RequestType /\ DialogRequest(k, name, to).who = k
  <2>1. name \in Names /\ task[k].kind \in {"upload", "mkdir", "rename", "unlink"}
        /\ (task[k].kind = "upload" => task[k].dir \in Dirs)
    BY <1>1 DEF DialogType
  <2> QED
    BY <1>3, <2>1, OperationTypes DEF DialogRequest
<1>5. CASE task' = [task EXCEPT ![k] = NoTask] /\ UNCHANGED requests
  BY <1>2, <1>5 DEF DialogEnds
<1>6. CASE /\ \E name \in task[k].todo, to \in Names :
                requests' = Append(requests, DialogRequest(k, name, to))
           /\ task' = [task EXCEPT ![k].dialog = FALSE, ![k].todo = {}]
  <2>1. task' = [task EXCEPT ![k] = [task[k] EXCEPT !.dialog = FALSE, !.todo = {}]]
    BY <1>6 DEF SftpTyped
  <2>2. [task[k] EXCEPT !.dialog = FALSE, !.todo = {}] \in DialogType
    BY <1>1 DEF DialogType
  <2> QED
    BY <1>2, <1>4, <1>6, <2>1, <2>2 DEF DialogEnds
<1> QED
  BY <1>5, <1>6 DEF DialogEnds

-----------------------------------------------------------------------------
(* Types *)

LEMMA EffectType ==
  ASSUME SftpTyped, NEW r \in RequestType
  PROVE  /\ Effect(r) \in [Dirs -> SUBSET Names]
         /\ r.op = "list" => Effect(r) = remote
         /\ \A ok \in BOOLEAN : /\ AnswerTo(r, ok) \in AnswerType
                                /\ AnswerTo(r, ok).who = r.who /\ AnswerTo(r, ok).ok = ok
                                /\ AnswerTo(r, ok).dir = r.dir
<1>1. r.dir \in Dirs /\ r.who \in Listers \cup SftpTasks /\ remote[r.dir] \in SUBSET Names
  BY DEF RequestType, SftpTyped
<1>2. r.op \in {"list", "add", "put", "remove", "rename"}
      /\ (r.op # "list" => r.name \in Names) /\ (r.op = "rename" => r.to \in Names)
  BY DEF RequestType
<1>3. Effect(r) \in [Dirs -> SUBSET Names]
  <2>1. remote \in [Dirs -> SUBSET Names]
    BY DEF SftpTyped
  <2>2. CASE r.op = "list"
    BY <2>1, <2>2 DEF Effect
  <2>3. CASE r.op \in {"add", "put"}
    BY <1>1, <1>2, <2>1, <2>3 DEF Effect
  <2>4. CASE r.op = "remove"
    BY <1>1, <1>2, <2>1, <2>4 DEF Effect
  <2>5. CASE r.op = "rename"
    BY <1>1, <1>2, <2>1, <2>5 DEF Effect
  <2> QED
    BY <1>2, <2>2, <2>3, <2>4, <2>5
<1>4. r.op = "list" => Effect(r) = remote
  BY DEF Effect
<1>5. \A ok \in BOOLEAN : AnswerTo(r, ok) \in AnswerType
  BY <1>1 DEF AnswerTo, AnswerType
<1> QED
  BY <1>3, <1>4, <1>5 DEF AnswerTo

(* The server's answer, or its refusal.                                     *)
LEMMA Served ==
  ASSUME SftpTyped, ServerAnswers
  PROVE  /\ requests # <<>> /\ requests' = Tail(requests) /\ Head(requests) \in RequestType
         /\ UNCHANGED <<sftp, panel, task>>
         /\ \E ok \in BOOLEAN :
              /\ answers' = Append(answers, AnswerTo(Head(requests), ok))
              /\ ok => remote' = Effect(Head(requests))
              /\ ~ok => \A dir \in Dirs : /\ remote[dir] \subseteq remote'[dir]
                                        /\ remote'[dir] \ remote[dir] \subseteq partial'[dir]
                                        /\ partial[dir] \subseteq partial'[dir]
         /\ remote' \in [Dirs -> SUBSET Names] /\ partial' \in [Dirs -> SUBSET Names]
<1> DEFINE r == Head(requests)
<1>1. /\ requests # <<>> /\ requests' = Tail(requests) /\ r \in RequestType
      /\ UNCHANGED <<sftp, panel, task>>
  BY Taken DEF ServerAnswers, SftpTyped
<1>2. PICK ok \in BOOLEAN :
        /\ remote' \in IF ok THEN {Effect(r)} ELSE AfterFailure(r)
        /\ partial' = PartialAfter(r, ok, remote')
        /\ answers' = Append(answers, AnswerTo(r, ok))
  BY DEF ServerAnswers
<1>3. /\ remote \in [Dirs -> SUBSET Names] /\ partial \in [Dirs -> SUBSET Names]
      /\ r.dir \in Dirs /\ Effect(r) \in [Dirs -> SUBSET Names]
  BY <1>1, EffectType DEF SftpTyped, RequestType
<1>4. remote' \in [Dirs -> SUBSET Names] /\ remote'[r.dir] \in SUBSET Names
  BY <1>2, <1>3 DEF AfterFailure
<1>5. partial' \in [Dirs -> SUBSET Names]
  BY <1>2, <1>3, <1>4 DEF PartialAfter
<1>6. ASSUME ~ok, NEW dir \in Dirs
      PROVE  /\ remote[dir] \subseteq remote'[dir]
             /\ remote'[dir] \ remote[dir] \subseteq partial'[dir]
             /\ partial[dir] \subseteq partial'[dir]
  <2>1. partial' = [partial EXCEPT ![r.dir] = partial[r.dir] \cup (remote'[r.dir] \ remote[r.dir])]
    BY <1>2, <1>6 DEF PartialAfter
  <2>2. remote' = remote \/ remote' = [remote EXCEPT ![r.dir] = remote[r.dir] \cup {r.name}]
    BY <1>2, <1>6 DEF AfterFailure, Effect
  <2>3. remote[dir] \subseteq remote'[dir] /\ (dir # r.dir => remote'[dir] = remote[dir])
    BY <1>3, <2>2
  <2>4. partial[dir] \subseteq partial'[dir]
        /\ (dir = r.dir => partial'[dir] = partial[dir] \cup (remote'[dir] \ remote[dir]))
    BY <1>3, <2>1
  <2> QED
    BY <2>3, <2>4
<1> QED
  BY <1>1, <1>2, <1>4, <1>5, <1>6

LEMMA AfterListingType ==
  ASSUME SftpTyped, NEW a \in AnswerType
  PROVE  AfterListing(panel, a) \in Panel
<1>1. panel \in Panel /\ a.dir \in Dirs /\ a.names \in SUBSET Names
  BY DEF SftpTyped, AnswerType
<1>2. CASE a.ok
  BY <1>1, <1>2 DEF AfterListing, Panel
<1>3. CASE ~a.ok
  BY <1>1, <1>3 DEF AfterListing, Panel
<1> QED
  BY <1>2, <1>3

LEMMA PanelTypes ==
  /\ NoPanel \in Panel
  /\ [NoPanel EXCEPT !.gone = FALSE, !.loading = TRUE] \in Panel
BY DEF NoPanel, Panel

(* What a task does, as far as types go.                                    *)
LEMMA TaskTyped ==
  ASSUME SftpTyped, NEW k \in SftpTasks, TaskEnds(k) \/ LoopGoesOn(k), panel.path \in Dirs
  PROVE  /\ panel' \in Panel /\ requests' \in Seq(RequestType)
         /\ task' \in [SftpTasks -> TaskType]
<1>1. \A r \in RequestType : Append(requests, r) \in Seq(RequestType)
  BY Appended DEF SftpTyped
<1>2. \A t \in TaskType : [task EXCEPT ![k] = t] \in [SftpTasks -> TaskType]
  BY DEF SftpTyped
<1>3. CASE TaskEnds(k)
  <2>1. ListFor("panel", panel.path) \in RequestType
    BY ListForType DEF Listers
  <2> QED
    BY <1>1, <1>2, <1>3, <2>1, TaskTypes DEF TaskEnds, Asking, SftpTyped
<1>4. CASE LoopGoesOn(k)
  <2>1. PICK t \in LoopType, r \in RequestType :
          task' = [task EXCEPT ![k] = t] /\ requests' = Append(requests, r)
    BY <1>4 DEF LoopGoesOn
  <2> QED
    BY <1>1, <1>2, <1>4, <2>1, TaskTypes DEF LoopGoesOn, SftpTyped
<1> QED
  BY <1>3, <1>4

LEMMA SftpTypedStep ==
  ASSUME SftpTyped, PathInv, [SftpNext]_sftpVars
  PROVE  SftpTyped'
<1> USE DEF SftpTyped
<1>a. /\ \A q \in RequestType : Append(requests, q) \in Seq(RequestType)
      /\ \A a \in AnswerType : Append(answers, a) \in Seq(AnswerType)
  BY Appended
<1>1. NoFiles \in [Dirs -> SUBSET Names]
  BY DEF NoFiles
<1>2. CASE OpenSftpTab
  BY <1>2, PanelTypes DEF OpenSftpTab
<1>3. CASE ServerAnswers
  <2>1. PICK ok \in BOOLEAN : answers' = Append(answers, AnswerTo(Head(requests), ok))
    BY <1>3, Served
  <2>2. AnswerTo(Head(requests), ok) \in AnswerType
    BY <1>3, <2>1, Served, EffectType
  <2>3. answers' \in Seq(AnswerType)
    BY <1>a, <2>1, <2>2
  <2>4. requests' \in Seq(RequestType)
    <3>1. requests # <<>> /\ requests' = Tail(requests)
      BY <1>3, Served
    <3> QED
      BY <3>1, Taken
  <2> QED
    BY <1>3, <2>2, <2>3, <2>4, Served
<1>4. CASE SessionEnds
  BY <1>1, <1>4 DEF SessionEnds
<1>5. CASE CloseTold
  BY <1>5 DEF CloseTold, Panel
<1>6. CASE HomeAnswers
  <2>1. ListFor("opening", Home) \in RequestType
    BY ListForType, SftpAssumption DEF Listers
  <2>2. [panel EXCEPT !.path = Home] \in Panel
        /\ [panel EXCEPT !.loading = FALSE, !.error = TRUE] \in Panel
    BY SftpAssumption DEF Panel
  <2>3. <<ListFor("opening", Home)>> \in Seq(RequestType)
    BY <2>1
  <2>4. panel' \in Panel /\ requests' \in Seq(RequestType)
    BY <1>6, <2>2, <2>3 DEF HomeAnswers
  <2> QED
    BY <1>6, <2>4 DEF HomeAnswers
<1>7. CASE ListAnswers
  <2>1. Head(answers) \in AnswerType /\ Tail(answers) \in Seq(AnswerType)
    BY <1>7, Taken DEF ListAnswers
  <2> QED
    BY <1>7, <2>1, AfterListingType DEF ListAnswers
<1>8. CASE CloseSftpTab
  <2>1. [NoPanel EXCEPT !.closed = panel.closed, !.path = panel.path, !.of = panel.of,
                        !.names = panel.names] \in Panel
    BY DEF Panel, NoPanel
  <2> QED
    BY <1>1, <1>8, <2>1 DEF CloseSftpTab
<1>9. ASSUME NEW dir \in Dirs, Navigate(dir) PROVE SftpTyped'
  <2>1. Asking(dir)
    BY <1>9, NavigatingAsks DEF Navigate
  <2>2. ListFor("panel", dir) \in RequestType
    BY ListForType DEF Listers
  <2>3. requests' \in Seq(RequestType)
    BY <1>a, <2>1, <2>2 DEF Asking
  <2> QED
    BY <1>9, <2>1, <2>3 DEF Asking, Navigate
<1>10. ASSUME NEW name \in Names, Mark(name) PROVE SftpTyped'
  <2>1. panel' \in Panel
    BY <1>10 DEF Mark, Panel
  <2> QED
    BY <1>10, <2>1 DEF Mark
<1>11. ASSUME NEW k \in SftpTasks, StartLoop(k) PROVE SftpTyped'
  <2>1. panel.path \in Dirs
    BY <1>11, HasPath DEF StartLoop, PanelCalm
  <2> QED
    BY <1>11, <2>1, LoopStarts, TaskTyped
<1>12. ASSUME NEW k \in SftpTasks, DialogEnds(k) PROVE SftpTyped'
  <2>1. PICK t \in {NoTask} \cup DialogType : task' = [task EXCEPT ![k] = t]
    BY <1>12, DialogMoves
  <2>2. task' \in [SftpTasks -> TaskType]
    BY <2>1, TaskTypes
  <2>3. requests' \in Seq(RequestType)
    <3>1. requests' = requests \/ \E q \in RequestType : requests' = Append(requests, q)
      BY <1>12, DialogMoves
    <3> QED
      BY <1>a, <3>1
  <2> QED
    BY <1>12, <2>2, <2>3, DialogMoves
<1>13. ASSUME NEW k \in SftpTasks, TaskAnswered(k) PROVE SftpTyped'
  <2>1. panel.path \in Dirs
    BY <1>13, HasPath, TaskHears
  <2>2. answers' \in Seq(AnswerType) /\ UNCHANGED <<remote, partial, sftp>>
    <3>1. answers # <<>> /\ answers' = Tail(answers) /\ UNCHANGED <<remote, partial, sftp>>
      BY <1>13, TaskHears
    <3>2. Tail(answers) \in Seq(AnswerType)
      BY <3>1, Taken
    <3> QED
      BY <3>1, <3>2
  <2>3. CASE TaskEnds(k) \/ LoopGoesOn(k)
    BY <2>1, <2>2, <2>3, TaskTyped
  <2>4. CASE task' = [task EXCEPT ![k] = NoTask] /\ UNCHANGED <<panel, requests>>
    BY <2>2, <2>4, TaskTypes
  <2> QED
    BY <1>13, <2>3, <2>4, TaskHears
<1>14. ASSUME NEW k \in SftpTasks, NEW kind \in Dialogs, NEW name \in Names,
              StartDialog(k, kind, name)
       PROVE  SftpTyped'
  <2>1. panel.path \in Dirs
    BY <1>14, HasPath DEF StartDialog, PanelCalm
  <2>2. [kind |-> kind, dialog |-> TRUE, todo |-> {name},
         dir |-> IF kind = "upload" THEN panel.path ELSE NoDir] \in DialogType
    BY <2>1 DEF DialogType, Dialogs
  <2> QED
    BY <1>14, <2>2, TaskTypes DEF StartDialog
<1>15. CASE UNCHANGED sftpVars
  BY <1>15 DEF sftpVars
<1> QED
  BY <1>2, <1>3, <1>4, <1>5, <1>6, <1>7, <1>8, <1>9, <1>10, <1>11, <1>12, <1>13, <1>14, <1>15
     DEF SftpNext

-----------------------------------------------------------------------------
(* The path, and the first listing *)

LEMMA PathStep ==
  ASSUME SftpTyped, PathInv, [SftpNext]_sftpVars
  PROVE  PathInv'
<1>a. Home # NoDir /\ \A dir \in Dirs : dir # NoDir
  BY SftpAssumption
<1>b. ASSUME NEW k \in SftpTasks, panel.path \in Dirs, TaskEnds(k) \/ LoopGoesOn(k),
             UNCHANGED sftp
      PROVE  PathInv'
  BY <1>a, <1>b DEF TaskEnds, LoopGoesOn, Asking, PathInv
<1>1. CASE OpenSftpTab
  <2>1. panel' = [NoPanel EXCEPT !.gone = FALSE, !.loading = TRUE]
    BY <1>1 DEF OpenSftpTab
  <2>2. panel'.path = NoDir /\ panel'.loading /\ ~panel'.closed
    BY <2>1 DEF NoPanel
  <2> QED
    BY <1>1, <2>2 DEF OpenSftpTab, PathInv, NoTasks
<1>2. CASE ServerAnswers
  <2>1. panel.path # NoDir
    BY <1>2, Served DEF PathInv
  <2> QED
    BY <1>2, <2>1, Served DEF PathInv
<1>3. CASE SessionEnds
  BY <1>3 DEF SessionEnds, PathInv, NoTasks
<1>4. CASE CloseTold
  <2>1. /\ panel'.path = panel.path /\ panel'.gone = panel.gone
        /\ panel'.loading = panel.loading /\ panel'.error = panel.error
    BY <1>4 DEF CloseTold, SftpTyped, Panel
  <2> QED
    BY <1>4, <2>1 DEF CloseTold, PathInv, NoTasks
<1>5. CASE HomeAnswers
  <2>1. CASE sftp = "live" /\ panel' = [panel EXCEPT !.path = Home]
    <3>1. panel'.path = Home /\ panel'.closed = panel.closed
      BY <2>1 DEF SftpTyped, Panel
    <3> QED
      BY <1>a, <1>5, <2>1, <3>1 DEF HomeAnswers, PathInv
  <2>2. CASE panel' = [panel EXCEPT !.loading = FALSE, !.error = TRUE] /\ UNCHANGED requests
    <3>1. panel'.path = panel.path /\ panel'.closed = panel.closed /\ panel'.error
      BY <2>2 DEF SftpTyped, Panel
    <3> QED
      BY <1>5, <2>2, <3>1 DEF HomeAnswers, PathInv, NoTasks
  <2> QED
    BY <1>5, <2>1, <2>2 DEF HomeAnswers
<1>6. CASE ListAnswers
  <2>1. panel.path # NoDir /\ Head(answers) \in AnswerType
    BY <1>6, Taken DEF ListAnswers, PathInv, SftpTyped
  <2>2. Head(answers).dir # NoDir
    BY <1>a, <2>1 DEF AnswerType
  <2>3. panel'.path \in {panel.path, Head(answers).dir} /\ panel'.closed = panel.closed
    BY <1>6 DEF ListAnswers, AfterListing, SftpTyped, Panel
  <2> QED
    BY <1>6, <2>1, <2>2, <2>3 DEF ListAnswers, PathInv
<1>7. CASE CloseSftpTab
  <2>1. panel'.gone /\ panel'.path = panel.path /\ sftp' = "ended"
    BY <1>7 DEF CloseSftpTab, NoPanel
  <2> QED
    BY <1>7, <2>1 DEF CloseSftpTab, PathInv, NoTasks
<1>8. ASSUME NEW dir \in Dirs, Navigate(dir) PROVE PathInv'
  <2>1. Asking(dir)
    BY <1>8, NavigatingAsks DEF Navigate, SftpTyped
  <2>2. panel.path \in Dirs
    BY <1>8, HasPath DEF Navigate
  <2> QED
    BY <1>a, <1>8, <2>1, <2>2 DEF Navigate, Asking, PathInv
<1>9. ASSUME NEW name \in Names, Mark(name) PROVE PathInv'
  <2>1. panel.path \in Dirs
    BY <1>9, HasPath DEF Mark, PanelCalm
  <2>2. panel'.path = panel.path /\ panel'.closed = panel.closed
    BY <1>9 DEF Mark, SftpTyped, Panel
  <2> QED
    BY <1>a, <1>9, <2>1, <2>2 DEF Mark, PathInv
<1>10. ASSUME NEW k \in SftpTasks, StartLoop(k) PROVE PathInv'
  <2>1. panel.path \in Dirs
    BY <1>10, HasPath DEF StartLoop, PanelCalm
  <2> QED
    BY <1>b, <1>10, <2>1, LoopStarts
<1>11. ASSUME NEW k \in SftpTasks, DialogEnds(k) PROVE PathInv'
  <2>1. panel.path \in Dirs /\ UNCHANGED <<sftp, panel>>
    BY <1>11, HasPath, DialogMoves DEF NoTasks
  <2> QED
    BY <1>a, <2>1 DEF PathInv
<1>12. ASSUME NEW k \in SftpTasks, TaskAnswered(k) PROVE PathInv'
  <2>1. panel.path \in Dirs /\ UNCHANGED sftp
    BY <1>12, HasPath, TaskHears
  <2>2. CASE TaskEnds(k) \/ LoopGoesOn(k)
    BY <1>b, <2>1, <2>2
  <2>3. CASE UNCHANGED panel
    BY <1>a, <2>1, <2>3 DEF PathInv
  <2> QED
    BY <1>12, <2>2, <2>3, TaskHears
<1>13. ASSUME NEW k \in SftpTasks, NEW kind \in Dialogs, NEW name \in Names,
              StartDialog(k, kind, name)
       PROVE  PathInv'
  <2>1. panel.path \in Dirs /\ UNCHANGED <<sftp, panel>>
    BY <1>13, HasPath DEF StartDialog, PanelCalm
  <2> QED
    BY <1>a, <2>1 DEF PathInv
<1>14. CASE UNCHANGED sftpVars
  BY <1>14 DEF sftpVars, PathInv, NoTasks
<1> QED
  BY <1>1, <1>2, <1>3, <1>4, <1>5, <1>6, <1>7, <1>8, <1>9, <1>10, <1>11, <1>12, <1>13, <1>14
     DEF SftpNext

LEMMA OpeningAppended ==
  ASSUME NEW S, NEW s \in Seq(S), NEW m \in S, m.who # "opening", NoOpening(s)
  PROVE  NoOpening(Append(s, m))
<1>1. \A i \in 1..Len(Append(s, m)) : i \in 1..Len(s) \/ i = Len(s) + 1
  BY Appended
<1> QED
  BY <1>1, Appended DEF NoOpening

LEMMA OpeningTaken ==
  ASSUME NEW S, NEW s \in Seq(S), s # <<>>, NoOpening(s)
  PROVE  NoOpening(Tail(s)) /\ Head(s).who # "opening"
<1>1. \A i \in 1..Len(Tail(s)) : i + 1 \in 1..Len(s) /\ Tail(s)[i] = s[i + 1]
  BY Taken
<1>2. 1 \in 1..Len(s) /\ Head(s) = s[1]
  BY Taken
<1> QED
  BY <1>1, <1>2 DEF NoOpening

LEMMA EmptyOpening == NoOpening(<<>>)
BY EmptySeq DEF NoOpening

(* While the first listing is under way no button is there, and no task.    *)
LEMMA OpeningBlocks ==
  ASSUME SftpTyped, OpeningInv, Browsing \/ ~NoTasks
  PROVE  NoOpening(requests) /\ NoOpening(answers)
BY DEF OpeningInv, Opening, Browsing

(* The listing that ends the opening is of the path shown.                  *)
LEMMA OpeningAnswered ==
  ASSUME SftpTyped, OpeningInv, answers # <<>>, Head(answers).who = "opening"
  PROVE  /\ Opening /\ requests = <<>> /\ Tail(answers) = <<>>
         /\ Head(answers).dir = Home
<1>1. ~NoOpening(answers)
  BY OpeningTaken DEF SftpTyped
<1>2. Opening /\ requests = <<>> /\ Len(answers) = 1 /\ answers[1].dir = Home
  BY <1>1 DEF OpeningInv
<1>3. Head(answers) = answers[1] /\ Len(Tail(answers)) = 0 /\ Tail(answers) \in Seq(AnswerType)
  BY <1>2, Taken DEF SftpTyped
<1> QED
  BY <1>2, <1>3, EmptySeq

LEMMA TaskOpening ==
  ASSUME SftpTyped, NEW k \in SftpTasks, TaskEnds(k) \/ LoopGoesOn(k), panel.path \in Dirs,
         NoOpening(requests)
  PROVE  NoOpening(requests')
<1>1. k # "opening"
  BY SftpAssumption
<1>2. \A r \in RequestType : r.who # "opening" => NoOpening(Append(requests, r))
  BY OpeningAppended DEF SftpTyped
<1>3. CASE TaskEnds(k)
  BY <1>2, <1>3, ListForType DEF TaskEnds, Asking, Listers
<1>4. CASE LoopGoesOn(k)
  BY <1>1, <1>2, <1>4 DEF LoopGoesOn
<1> QED
  BY <1>3, <1>4

LEMMA OpeningStep ==
  ASSUME SftpTyped, PathInv, OpeningInv, [SftpNext]_sftpVars
  PROVE  OpeningInv'
<1>a. ASSUME NoOpening(requests'), NoOpening(answers') PROVE OpeningInv'
  BY <1>a DEF OpeningInv
<1>b. ASSUME UNCHANGED <<requests, answers, task>>,
             panel'.gone \/ (panel'.gone = panel.gone /\ panel'.loading = panel.loading
                             /\ panel'.path = panel.path)
      PROVE  OpeningInv'
  BY <1>b DEF OpeningInv, Opening, NoTasks, NoOpening
<1>c. \A k \in SftpTasks : k # "opening"
  BY SftpAssumption
<1>1. CASE OpenSftpTab
  <2>1. requests' = <<>> /\ answers' = <<>>
    BY <1>1 DEF OpenSftpTab, PathInv
  <2> QED
    BY <1>a, <2>1, EmptyOpening
<1>2. CASE ServerAnswers
  <2>1. PICK ok \in BOOLEAN : answers' = Append(answers, AnswerTo(Head(requests), ok))
    BY <1>2, Served
  <2> DEFINE r == Head(requests)
  <2>2. /\ requests # <<>> /\ requests' = Tail(requests) /\ r \in RequestType
        /\ UNCHANGED <<panel, task>>
    BY <1>2, Served
  <2>3. AnswerTo(r, ok) \in AnswerType /\ AnswerTo(r, ok).who = r.who /\ AnswerTo(r, ok).dir = r.dir
    BY <2>2, EffectType
  <2>4. CASE NoOpening(requests) /\ NoOpening(answers)
    <3>1. NoOpening(requests') /\ r.who # "opening"
      BY <2>2, <2>4, OpeningTaken DEF SftpTyped
    <3>2. NoOpening(answers')
      BY <2>1, <2>3, <2>4, <3>1, OpeningAppended DEF SftpTyped
    <3> QED
      BY <1>a, <3>1, <3>2
  <2>5. CASE Opening /\ requests = <<ListFor("opening", Home)>> /\ answers = <<>>
    <3>1. r.dir = Home /\ requests' = <<>>
      <4>1. Head(requests) = ListFor("opening", Home) /\ Tail(requests) = <<>>
        BY <2>5
      <4> QED
        BY <2>2, <4>1, ListForType, SftpAssumption DEF Listers
    <3>2. Len(answers') = 1 /\ answers'[1] = AnswerTo(r, ok)
      BY <2>1, <2>3, <2>5
    <3>3. Opening'
      BY <2>2, <2>5 DEF Opening, NoTasks
    <3> QED
      BY <2>3, <3>1, <3>2, <3>3 DEF OpeningInv
  <2> QED
    BY <2>2, <2>4, <2>5 DEF OpeningInv
<1>3. CASE SessionEnds
  BY <1>b, <1>3 DEF SessionEnds
<1>4. CASE CloseTold
  BY <1>b, <1>4 DEF CloseTold, SftpTyped, Panel
<1>5. CASE HomeAnswers
  <2>1. CASE panel' = [panel EXCEPT !.path = Home] /\ requests' = <<ListFor("opening", Home)>>
    <3>1. panel'.path = Home /\ panel'.loading
      BY <1>5, <2>1 DEF HomeAnswers, SftpTyped, Panel
    <3>2. NoTasks'
      BY <1>5 DEF HomeAnswers, PathInv, NoTasks
    <3> QED
      BY <1>5, <2>1, <3>1, <3>2 DEF HomeAnswers, OpeningInv, Opening
  <2>2. CASE UNCHANGED requests
    BY <1>a, <1>5, <2>2, EmptyOpening DEF HomeAnswers
  <2> QED
    BY <1>5, <2>1, <2>2 DEF HomeAnswers
<1>6. CASE ListAnswers
  <2>1. answers # <<>> /\ answers' = Tail(answers) /\ requests' = requests
    BY <1>6 DEF ListAnswers
  <2>2. CASE Head(answers).who = "opening"
    BY <1>a, <2>1, <2>2, OpeningAnswered, EmptyOpening
  <2>3. CASE NoOpening(requests) /\ NoOpening(answers)
    BY <1>a, <2>1, <2>3, OpeningTaken DEF SftpTyped
  <2>4. CASE Len(answers) = 1 /\ requests = <<>>
    <3>1. answers' = <<>>
      BY <2>1, <2>4, Taken, EmptySeq DEF SftpTyped
    <3> QED
      BY <1>a, <2>1, <2>4, <3>1, EmptyOpening
  <2> QED
    BY <2>1, <2>3, <2>4 DEF OpeningInv
<1>7. CASE CloseSftpTab
  <2>1. panel'.gone
    BY <1>7 DEF CloseSftpTab, NoPanel
  <2> QED
    BY <1>b, <1>7, <2>1 DEF CloseSftpTab
<1>8. ASSUME NEW dir \in Dirs, Navigate(dir) PROVE OpeningInv'
  <2>1. Asking(dir) /\ NoOpening(requests) /\ NoOpening(answers) /\ answers' = answers
    BY <1>8, NavigatingAsks, OpeningBlocks DEF Navigate, SftpTyped
  <2>2. NoOpening(Append(requests, ListFor("panel", dir)))
    BY <2>1, ListForType, OpeningAppended DEF SftpTyped, Listers
  <2> QED
    BY <1>a, <2>1, <2>2 DEF Asking
<1>9. ASSUME NEW name \in Names, Mark(name) PROVE OpeningInv'
  BY <1>b, <1>9 DEF Mark, SftpTyped, Panel
<1>10. ASSUME NEW k \in SftpTasks, StartLoop(k) PROVE OpeningInv'
  <2>1. NoOpening(requests) /\ NoOpening(answers) /\ panel.path \in Dirs
    BY <1>10, OpeningBlocks, HasPath DEF StartLoop, PanelCalm
  <2> QED
    BY <1>a, <1>10, <2>1, LoopStarts, TaskOpening
<1>11. ASSUME NEW k \in SftpTasks, DialogEnds(k) PROVE OpeningInv'
  <2>1. NoOpening(requests) /\ NoOpening(answers) /\ answers' = answers
    BY <1>11, OpeningBlocks, DialogMoves DEF NoTasks
  <2>2. \A r \in RequestType : r.who = k => NoOpening(Append(requests, r))
    BY <1>c, <2>1, OpeningAppended DEF SftpTyped
  <2>3. requests' = requests \/ \E r \in RequestType : r.who = k /\ requests' = Append(requests, r)
    BY <1>11, DialogMoves
  <2>4. NoOpening(requests')
    BY <2>1, <2>2, <2>3
  <2> QED
    BY <1>a, <2>1, <2>4
<1>12. ASSUME NEW k \in SftpTasks, TaskAnswered(k) PROVE OpeningInv'
  <2>1. /\ answers # <<>> /\ answers' = Tail(answers) /\ Head(answers).who = k
        /\ panel.path \in Dirs
    BY <1>12, TaskHears, HasPath
  <2>2. CASE NoOpening(requests) /\ NoOpening(answers)
    <3>1. NoOpening(answers')
      BY <2>1, <2>2, OpeningTaken DEF SftpTyped
    <3>2. NoOpening(requests')
      BY <1>12, <2>1, <2>2, TaskHears, TaskOpening
    <3> QED
      BY <1>a, <3>1, <3>2
  <2>3. CASE Opening /\ requests = <<>> /\ Len(answers) = 1
    <3>1. answers' = <<>>
      BY <2>1, <2>3, Taken, EmptySeq DEF SftpTyped
    <3>2. NoOpening(requests')
      BY <1>12, <2>1, <2>3, TaskHears, TaskOpening, EmptyOpening
    <3> QED
      BY <1>a, <3>1, <3>2, EmptyOpening
  <2> QED
    BY <2>1, <2>2, <2>3 DEF OpeningInv
<1>13. ASSUME NEW k \in SftpTasks, NEW kind \in Dialogs, NEW name \in Names,
              StartDialog(k, kind, name)
       PROVE  OpeningInv'
  <2>1. NoOpening(requests) /\ NoOpening(answers) /\ UNCHANGED <<requests, answers>>
    BY <1>13, OpeningBlocks DEF StartDialog, PanelCalm
  <2> QED
    BY <1>a, <2>1 DEF NoOpening
<1>14. CASE UNCHANGED sftpVars
  BY <1>b, <1>14 DEF sftpVars
<1> QED
  BY <1>1, <1>2, <1>3, <1>4, <1>5, <1>6, <1>7, <1>8, <1>9, <1>10, <1>11, <1>12, <1>13, <1>14
     DEF SftpNext

-----------------------------------------------------------------------------
(* The rows belong to the path *)

LEMMA EntriesStep ==
  ASSUME SftpTyped, PathInv, OpeningInv, EntriesInv, [SftpNext]_sftpVars
  PROVE  EntriesInv'
<1>a. ASSUME UNCHANGED panel PROVE EntriesInv'
  BY <1>a DEF EntriesInv
<1>b. ASSUME NEW dir, Asking(dir), PathInv, ~panel.closed \/ EntriesInv PROVE EntriesInv'
  BY <1>b DEF Asking, EntriesInv
<1>1. CASE OpenSftpTab
  BY <1>1 DEF OpenSftpTab, NoPanel, EntriesInv
<1>2. CASE ServerAnswers \/ SessionEnds
  BY <1>a, <1>2, Served DEF SessionEnds
<1>3. CASE CloseTold
  BY <1>3 DEF CloseTold, EntriesInv, SftpTyped, Panel
<1>4. CASE HomeAnswers
  <2>1. panel'.loading \/ panel'.error
    BY <1>4 DEF HomeAnswers, SftpTyped, Panel
  <2> QED
    BY <2>1 DEF EntriesInv
<1>5. CASE ListAnswers
  <2> DEFINE a == Head(answers)
  <2>1. a.who \in Listers /\ panel' = AfterListing(panel, a) /\ answers # <<>>
    BY <1>5 DEF ListAnswers
  <2>2. CASE ~a.ok
    BY <2>1, <2>2 DEF AfterListing, EntriesInv, SftpTyped, Panel
  <2>3. CASE a.ok /\ a.who = "panel"
    BY <2>1, <2>3 DEF AfterListing, EntriesInv, SftpTyped, Panel
  <2>4. CASE a.ok /\ a.who = "opening"
    <3>1. a.dir = Home /\ (panel.gone \/ panel.path = Home)
      BY <2>1, <2>4, OpeningAnswered DEF Opening
    <3>2. panel'.of = a.dir /\ panel'.path = panel.path /\ panel'.gone = panel.gone
      BY <2>1, <2>4 DEF AfterListing, SftpTyped, Panel
    <3> QED
      BY <3>1, <3>2 DEF EntriesInv
  <2> QED
    BY <2>1, <2>2, <2>3, <2>4 DEF Listers
<1>6. CASE CloseSftpTab
  BY <1>6 DEF CloseSftpTab, NoPanel, EntriesInv
<1>7. ASSUME NEW dir \in Dirs, Navigate(dir) PROVE EntriesInv'
  <2>1. Asking(dir)
    BY <1>7, NavigatingAsks DEF Navigate, SftpTyped
  <2> QED
    BY <1>b, <2>1
<1>8. ASSUME NEW name \in Names, Mark(name) PROVE EntriesInv'
  BY <1>8 DEF Mark, EntriesInv, SftpTyped, Panel
<1>9. ASSUME NEW k \in SftpTasks, TaskEnds(k) \/ LoopGoesOn(k) \/ UNCHANGED panel PROVE EntriesInv'
  BY <1>a, <1>b, <1>9 DEF TaskEnds, LoopGoesOn
<1>10. ASSUME NEW k \in SftpTasks, StartLoop(k) \/ TaskAnswered(k) PROVE EntriesInv'
  BY <1>9, <1>10, LoopStarts, TaskHears
<1>11. ASSUME NEW k \in SftpTasks, DialogEnds(k) PROVE EntriesInv'
  BY <1>a, <1>11, DialogMoves
<1>12. ASSUME NEW k \in SftpTasks, NEW kind \in Dialogs, NEW name \in Names,
              StartDialog(k, kind, name)
       PROVE  EntriesInv'
  BY <1>a, <1>12 DEF StartDialog
<1>13. CASE UNCHANGED sftpVars
  BY <1>a, <1>13 DEF sftpVars
<1> QED
  BY <1>1, <1>2, <1>3, <1>4, <1>5, <1>6, <1>7, <1>8, <1>10, <1>11, <1>12, <1>13 DEF SftpNext

-----------------------------------------------------------------------------
(* The rows are what the server has *)

LEMMA ListAsked ==
  ASSUME SftpTyped, NEW dir \in Dirs
  PROVE  ~Without(Append(requests, ListFor("panel", dir)), Lists)
<1> DEFINE m == ListFor("panel", dir)
<1>1. m \in RequestType /\ m \in Lists /\ requests \in Seq(RequestType)
  BY ListForType DEF Lists, Listers, SftpTyped
<1> HIDE DEF m
<1>2. Append(requests, m)[Len(requests) + 1] = m
      /\ Len(requests) + 1 \in 1..Len(Append(requests, m))
  BY <1>1, Appended
<1> QED
  BY <1>1, <1>2 DEF Without, m

(* A step after which a loop or a listing is under way promises nothing.    *)
LEMMA ListingFollows ==
  ASSUME SftpTyped, PathInv, NEW k \in SftpTasks, TaskEnds(k) \/ LoopGoesOn(k), UNCHANGED sftp,
         panel.path \in Dirs
  PROVE  ~Unlisted'
<1>1. CASE LoopGoesOn(k)
  <2>1. PICK t \in LoopType : task' = [task EXCEPT ![k] = t]
    BY <1>1 DEF LoopGoesOn
  <2>2. task'[k].kind \in Loops
    BY <2>1, TaskTypes DEF SftpTyped
  <2> QED
    BY <2>2 DEF Unlisted
<1>2. CASE TaskEnds(k)
  <2> SUFFICES ASSUME Unlisted' PROVE FALSE
    OBVIOUS
  <2>1. ~panel.gone /\ ~panel.closed
    BY <1>2 DEF Unlisted, TaskEnds, Asking, PathInv
  <2>2. requests' = Append(requests, ListFor("panel", panel.path))
    BY <1>2, <2>1 DEF TaskEnds, Asking
  <2>3. ~Without(requests', Lists)
    BY <2>2, ListAsked
  <2> QED
    BY <2>3 DEF Unlisted, Lists
<1> QED
  BY <1>1, <1>2

(* The server and the directories it has stay as they are.                  *)
LEMMA StillFresh ==
  ASSUME FreshInv, UNCHANGED <<remote, partial, answers>>, Unlisted' => Unlisted,
         panel'.error = panel.error, panel'.path = panel.path, panel'.of = panel.of,
         panel'.names = panel.names
  PROVE  FreshInv'
<1>1. Showing' = Showing
  BY DEF Showing, ShowsAll
<1> QED
  BY <1>1 DEF FreshInv, Current, ShowsAll

LEMMA FreshServed ==
  ASSUME SftpTyped, FreshInv, ServerAnswers
  PROVE  FreshInv'
<1> SUFFICES ASSUME Unlisted'
             PROVE  /\ LastIn(answers', Listings, Showing')
                    /\ Without(answers', Listings) => Current'
  BY DEF FreshInv
<1> DEFINE r == Head(requests)
<1>1. PICK ok \in BOOLEAN : /\ answers' = Append(answers, AnswerTo(r, ok))
                            /\ ok => remote' = Effect(r)
                            /\ ~ok => \A dir \in Dirs :
                                 /\ remote[dir] \subseteq remote'[dir]
                                 /\ remote'[dir] \ remote[dir] \subseteq partial'[dir]
                                 /\ partial[dir] \subseteq partial'[dir]
  BY Served
<1>2. PICK m : m = AnswerTo(r, ok)
  OBVIOUS
<1>3. /\ requests # <<>> /\ requests' = Tail(requests) /\ r \in RequestType
      /\ UNCHANGED <<sftp, panel, task>>
  BY Served
<1>4. m \in AnswerType /\ m.who = r.who /\ m.ok = ok /\ m.dir = r.dir
  BY <1>2, <1>3, EffectType
<1>5. answers' = Append(answers, m) /\ answers \in Seq(AnswerType)
  BY <1>1, <1>2 DEF SftpTyped
<1>6. CASE r.who \in Listers
  <2>1. r.op = "list"
    BY <1>3, <1>6, SftpAssumption DEF RequestType, Listers
  <2>2. ok => remote' = remote
    BY <1>1, <1>3, <2>1, EffectType
  <2>3. m.ok => ShowsAll(m.names, m.dir)'
    BY <1>2, <1>4, <2>1, <2>2 DEF AnswerTo, ShowsAll
  <2>4. m \in Listings /\ m \in Showing'
    BY <1>4, <1>6, <2>3 DEF Listings, Showing
  <2> QED
    BY <1>4, <1>5, <2>4, AppendedLast
<1>7. CASE r.who \notin Listers
  <2>1. r \notin Lists /\ m \notin Listings
    BY <1>4, <1>7 DEF Lists, Listings
  <2>2. m.who \in SftpTasks
    BY <1>4, <1>7 DEF AnswerType
  <2>3. Without(answers', Changes)
    BY DEF Unlisted, Changes
  <2>4. Without(answers, Changes) /\ m \notin Changes
    BY <1>4, <1>5, <2>3, AppendedLast
  <2>5. ~ok
    BY <1>4, <2>2, <2>4 DEF Changes
  <2>6. Without(requests, Lists)
    BY <1>3, <2>1, TakenLast DEF Unlisted, SftpTyped
  <2>7. Unlisted
    BY <1>3, <2>4, <2>6 DEF Unlisted
  <2>8. /\ \A names : \A dir \in Dirs : ShowsAll(names, dir) => ShowsAll(names, dir)'
        /\ Showing \subseteq Showing' /\ (Current => Current')
    <3>1. \A names : \A dir \in Dirs : ShowsAll(names, dir) => ShowsAll(names, dir)'
      BY <1>1, <2>5 DEF ShowsAll
    <3>2. Showing \subseteq Showing'
      BY <3>1 DEF Showing, AnswerType
    <3>3. panel.path \in Dirs \cup {NoDir}
      BY DEF SftpTyped, Panel
    <3> QED
      BY <1>3, <3>1, <3>2, <3>3 DEF Current
  <2>9. LastIn(answers, Listings, Showing) /\ (Without(answers, Listings) => Current)
    BY <2>7 DEF FreshInv
  <2>10. LastIn(answers, Listings, Showing')
    BY <2>8, <2>9 DEF LastIn
  <2> QED
    BY <1>4, <1>5, <2>1, <2>8, <2>9, <2>10, AppendedLast
<1> QED
  BY <1>6, <1>7

LEMMA FreshListed ==
  ASSUME SftpTyped, OpeningInv, FreshInv, ListAnswers
  PROVE  FreshInv'
<1> SUFFICES ASSUME Unlisted'
             PROVE  /\ LastIn(answers', Listings, Showing')
                    /\ Without(answers', Listings) => Current'
  BY DEF FreshInv
<1> DEFINE a == Head(answers)
<1>1. /\ answers # <<>> /\ answers' = Tail(answers) /\ answers \in Seq(AnswerType)
      /\ a \in AnswerType /\ a.who \in Listers
      /\ panel' = AfterListing(panel, a) /\ UNCHANGED <<remote, partial, sftp, requests, task>>
  BY Taken DEF ListAnswers, SftpTyped
<1>2. a \in Listings /\ a \notin Changes
  BY <1>1, SftpAssumption DEF Listings, Changes, Listers
<1>3. panel'.gone = panel.gone
  BY <1>1 DEF AfterListing, SftpTyped, Panel
<1>4. Unlisted
  <2>1. Without(Tail(answers), Changes)
    BY <1>1 DEF Unlisted, Changes
  <2>2. Without(answers, Changes)
    BY <1>1, <1>2, <2>1, TakenLast
  <2> QED
    BY <1>1, <1>3, <2>2 DEF Unlisted
<1>5. LastIn(answers, Listings, Showing) /\ Showing' = Showing
  BY <1>1, <1>4 DEF FreshInv, Showing, ShowsAll
<1>6. LastIn(answers', Listings, Showing')
  BY <1>1, <1>5, TakenLast
<1>7. ASSUME Without(answers', Listings) PROVE Current'
  <2>1. a \in Showing
    BY <1>1, <1>2, <1>5, <1>7, TakenLast
  <2>2. CASE ~a.ok
    <3>1. panel'.error
      BY <1>1, <2>2 DEF AfterListing, SftpTyped, Panel
    <3> QED
      BY <3>1 DEF Current
  <2>3. CASE a.ok
    <3>1. a.names \subseteq remote'[a.dir] /\ remote'[a.dir] \ a.names \subseteq partial'[a.dir]
      BY <1>1, <2>1, <2>3 DEF Showing, ShowsAll
    <3>2. panel'.of = a.dir /\ panel'.names = a.names
          /\ panel'.path = IF a.who = "panel" THEN a.dir ELSE panel.path
      BY <1>1, <2>3 DEF AfterListing, SftpTyped, Panel
    <3>3. panel'.path = a.dir
      <4>1. CASE a.who = "panel"
        BY <3>2, <4>1
      <4>2. CASE a.who = "opening"
        <5>1. a.dir = Home /\ panel.path = Home
          BY <1>1, <1>4, <4>2, OpeningAnswered DEF Opening, Unlisted
        <5> QED
          BY <3>2, <4>2, <5>1
      <4> QED
        BY <1>1, <4>1, <4>2 DEF Listers
    <3> QED
      BY <3>1, <3>2, <3>3 DEF Current, ShowsAll
  <2> QED
    BY <2>2, <2>3
<1> QED
  BY <1>6, <1>7

LEMMA FreshStep ==
  ASSUME SftpTyped, PathInv, OpeningInv, FreshInv, [SftpNext]_sftpVars
  PROVE  FreshInv'
<1>a. ASSUME ~Unlisted' PROVE FreshInv'
  BY <1>a DEF FreshInv
<1>b. ASSUME answers' = <<>>, panel'.path = NoDir \/ panel'.error PROVE FreshInv'
  <2>1. \A K, G : LastIn(<<>>, K, G)
    BY EmptySeq DEF LastIn
  <2> QED
    BY <1>b, <2>1 DEF FreshInv, Current
<1>c. \A r \in RequestType : r.who \in SftpTasks => r \notin Lists
  BY SftpAssumption DEF Lists, Listers
<1>1. CASE OpenSftpTab
  <2>1. panel'.path = NoDir /\ answers' = <<>>
    BY <1>1 DEF OpenSftpTab, NoPanel, PathInv
  <2> QED
    BY <1>b, <2>1
<1>2. CASE ServerAnswers
  BY <1>2, FreshServed
<1>3. CASE SessionEnds \/ CloseSftpTab
  <2>1. sftp' = "ended"
    BY <1>3 DEF SessionEnds, CloseSftpTab
  <2> QED
    BY <1>a, <2>1 DEF Unlisted
<1>4. CASE CloseTold
  BY <1>a, <1>4 DEF CloseTold, Unlisted
<1>5. CASE HomeAnswers
  <2>1. CASE requests' = <<ListFor("opening", Home)>>
    <3>1. ListFor("opening", Home) \in Lists
      BY ListForType, SftpAssumption DEF Lists, Listers
    <3>2. Len(requests') = 1 /\ requests'[1] = ListFor("opening", Home)
      BY <2>1
    <3>3. ~Without(requests', Lists)
      BY <3>1, <3>2 DEF Without
    <3> QED
      BY <1>a, <3>3 DEF Unlisted
  <2>2. CASE panel' = [panel EXCEPT !.loading = FALSE, !.error = TRUE]
    <3>1. panel'.error /\ answers' = <<>>
      BY <1>5, <2>2 DEF HomeAnswers, SftpTyped, Panel
    <3> QED
      BY <1>b, <3>1
  <2> QED
    BY <1>5, <2>1, <2>2 DEF HomeAnswers
<1>6. CASE ListAnswers
  BY <1>6, FreshListed
<1>7. ASSUME NEW dir \in Dirs, Navigate(dir) PROVE FreshInv'
  <2>1. Asking(dir) /\ ~panel.gone /\ ~panel.closed
    BY <1>7, NavigatingAsks DEF Navigate, Browsing, SftpTyped
  <2>2. ~Without(requests', Lists)
    BY <2>1, ListAsked DEF Asking
  <2> QED
    BY <1>a, <2>2 DEF Unlisted, Lists
<1>8. ASSUME NEW name \in Names, Mark(name) PROVE FreshInv'
  <2>1. /\ panel'.gone = panel.gone /\ panel'.error = panel.error /\ panel'.path = panel.path
        /\ panel'.of = panel.of /\ panel'.names = panel.names
        /\ UNCHANGED <<remote, partial, sftp, requests, answers, task>>
    BY <1>8 DEF Mark, SftpTyped, Panel
  <2>2. Unlisted' => Unlisted
    BY <2>1 DEF Unlisted, Changes
  <2> QED
    BY <2>1, <2>2, StillFresh
<1>9. ASSUME NEW k \in SftpTasks, StartLoop(k) PROVE FreshInv'
  <2>1. panel.path \in Dirs
    BY <1>9, HasPath DEF StartLoop, PanelCalm
  <2> QED
    BY <1>a, <1>9, <2>1, LoopStarts, ListingFollows
<1>d. ASSUME NEW k \in SftpTasks, task[k].kind \notin Loops, NEW t, task' = [task EXCEPT ![k] = t],
             \A j \in SftpTasks : task'[j].kind \notin Loops
      PROVE  \A j \in SftpTasks : task[j].kind \notin Loops
  BY <1>d DEF SftpTyped
<1>10. ASSUME NEW k \in SftpTasks, DialogEnds(k) PROVE FreshInv'
  <2>1. /\ task[k].kind \notin Loops /\ UNCHANGED <<remote, partial, sftp, panel, answers>>
        /\ \E t \in {NoTask} \cup DialogType : task' = [task EXCEPT ![k] = t]
    BY <1>10, DialogMoves
  <2>2. requests' = requests \/ \E r \in RequestType : r.who = k /\ requests' = Append(requests, r)
    BY <1>10, DialogMoves
  <2>3. Without(requests', Lists) => Without(requests, Lists)
    <3>1. requests \in Seq(RequestType)
      BY DEF SftpTyped
    <3>2. \A q \in RequestType : Without(Append(requests, q), Lists) => Without(requests, Lists)
      BY <3>1, AppendedLast
    <3> QED
      BY <2>2, <3>2
  <2>4. Unlisted' => Unlisted
    BY <1>d, <2>1, <2>3 DEF Unlisted, Changes, Lists
  <2> QED
    BY <2>1, <2>4, StillFresh
<1>11. ASSUME NEW k \in SftpTasks, TaskAnswered(k) PROVE FreshInv'
  <2>1. /\ answers # <<>> /\ answers' = Tail(answers) /\ Head(answers) \in AnswerType
        /\ Head(answers).who = k /\ UNCHANGED <<remote, partial, sftp>> /\ panel.path \in Dirs
    BY <1>11, TaskHears, HasPath
  <2>2. CASE TaskEnds(k) \/ LoopGoesOn(k)
    BY <1>a, <2>1, <2>2, ListingFollows
  <2>3. CASE /\ task[k].kind \notin Loops /\ ~Head(answers).ok
             /\ task' = [task EXCEPT ![k] = NoTask] /\ UNCHANGED <<panel, requests>>
    <3>1. Head(answers) \notin Changes /\ Head(answers) \notin Listings
      BY <2>1, <2>3, SftpAssumption DEF Changes, Listings, Listers
    <3> SUFFICES ASSUME Unlisted'
                 PROVE  /\ LastIn(answers', Listings, Showing')
                        /\ Without(answers', Listings) => Current'
      BY DEF FreshInv
    <3>2. Without(answers, Changes)
      <4>1. Without(Tail(answers), Changes)
        BY <2>1 DEF Unlisted, Changes
      <4> QED
        BY <2>1, <3>1, <4>1, TakenLast DEF SftpTyped
    <3>3. Unlisted
      BY <1>d, <2>1, <2>3, <3>2 DEF Unlisted, Lists
    <3>4. LastIn(answers, Listings, Showing) /\ (Without(answers, Listings) => Current)
      BY <3>3 DEF FreshInv
    <3>5. Showing' = Showing /\ Current' = Current
      BY <2>1, <2>3 DEF Showing, Current, ShowsAll
    <3>6. LastIn(Tail(answers), Listings, Showing)
      BY <2>1, <3>4, TakenLast DEF SftpTyped
    <3>7. Without(Tail(answers), Listings) => Without(answers, Listings)
      BY <2>1, <3>1, TakenLast DEF SftpTyped
    <3> QED
      BY <2>1, <3>4, <3>5, <3>6, <3>7
  <2> QED
    BY <1>11, <2>2, <2>3, TaskHears
<1>12. ASSUME NEW k \in SftpTasks, NEW kind \in Dialogs, NEW name \in Names,
              StartDialog(k, kind, name)
       PROVE  FreshInv'
  <2>1. /\ task[k] = NoTask /\ UNCHANGED <<remote, partial, sftp, panel, requests, answers>>
        /\ task' = [task EXCEPT ![k] = [kind |-> kind, dialog |-> TRUE, todo |-> {name},
                                        dir |-> IF kind = "upload" THEN panel.path ELSE NoDir]]
    BY <1>12 DEF StartDialog
  <2>2. task[k].kind \notin Loops
    BY <2>1, TaskTypes DEF Loops
  <2>3. Unlisted' => Unlisted
    BY <1>d, <2>1, <2>2 DEF Unlisted, Changes, Lists
  <2> QED
    BY <2>1, <2>3, StillFresh
<1>13. CASE UNCHANGED sftpVars
  <2>1. Unlisted' => Unlisted
    BY <1>13 DEF sftpVars, Unlisted, Changes, Lists
  <2> QED
    BY <1>13, <2>1, StillFresh DEF sftpVars
<1> QED
  BY <1>1, <1>2, <1>3, <1>4, <1>5, <1>6, <1>7, <1>8, <1>9, <1>10, <1>11, <1>12, <1>13 DEF SftpNext

-----------------------------------------------------------------------------
(* Theorems *)

(* The types of everything under way, the path and the first listing, and   *)
(* the two conditions on the rows, at the start and after every step.       *)
THEOREM SftpCorrect == SftpSpec => []SftpInv
<1>1. SftpInit => SftpInv
  <2> SUFFICES ASSUME SftpInit PROVE SftpInv
    OBVIOUS
  <2>1. SftpTyped
    <3>1. <<>> \in Seq(RequestType) /\ <<>> \in Seq(AnswerType)
      BY EmptySeq
    <3> QED
      BY <3>1, PanelTypes, TaskTypes DEF SftpInit, SftpTyped, NoFiles
  <2>2. PathInv
    BY DEF SftpInit, PathInv, NoPanel, NoTasks
  <2>3. OpeningInv
    BY EmptyOpening DEF SftpInit, OpeningInv
  <2>4. EntriesInv /\ FreshInv
    BY DEF SftpInit, EntriesInv, FreshInv, Unlisted, NoPanel
  <2> QED
    BY <2>1, <2>2, <2>3, <2>4 DEF SftpInv
<1>2. SftpInv /\ [SftpNext]_sftpVars => SftpInv'
  BY SftpTypedStep, PathStep, OpeningStep, EntriesStep, FreshStep DEF SftpInv
<1> QED
  BY <1>1, <1>2, PTL DEF SftpSpec

(* Every reachable state of the file browser is well typed.                 *)
THEOREM SftpTypesHold == SftpSpec => []SftpTypeOK
<1>1. SftpTyped => SftpTypeOK
  <2> SUFFICES ASSUME SftpTyped PROVE SftpTypeOK
    OBVIOUS
  <2>1. \A i \in DOMAIN requests : requests[i] \in RequestType
    BY ElementOfSeq, LenProperties DEF SftpTyped
  <2>2. \A i \in DOMAIN answers : answers[i] \in AnswerType
    BY ElementOfSeq, LenProperties DEF SftpTyped
  <2>3. \A k \in SftpTasks : task[k] \in TaskType
    BY DEF SftpTyped
  <2>4. /\ \A r \in RequestType : r.who \in Listers \cup SftpTasks /\ r.dir \in Dirs
        /\ \A a \in AnswerType : a.ok \in BOOLEAN /\ a.names \subseteq Names
    BY DEF RequestType, AnswerType
  <2>5. /\ \A t \in LoopType : t.kind \in Loops /\ t.todo \subseteq Names
        /\ \A t \in DialogType : t.kind \in Dialogs /\ t.todo \subseteq Names
        /\ NoTask.kind = "none" /\ NoTask.todo \subseteq Names
    BY DEF LoopType, DialogType, NoTask, Dialogs
  <2>6. \A k \in SftpTasks :
          task[k].kind \in Loops \cup Dialogs \cup {"none"} /\ task[k].todo \subseteq Names
    BY <2>3, <2>5, TaskTypes
  <2> QED
    BY <2>1, <2>2, <2>4, <2>6 DEF SftpTypeOK, SftpTyped
<1>2. SftpInv => SftpTyped
  BY DEF SftpInv
<1> QED
  BY <1>1, <1>2, SftpCorrect, PTL

(* The rows shown are those of the path shown, so that a name is joined to  *)
(* the directory it is in (main.ts, sftpNavigate and the row handlers).     *)
THEOREM RowsOfPath == SftpSpec => []EntriesOfPath
<1>1. SftpInv => EntriesOfPath
  BY DEF SftpInv, EntriesInv, EntriesOfPath
<1> QED
  BY <1>1, SftpCorrect, PTL

(* Once all tasks have ended the rows are what the server has, but for what *)
(* an upload that failed left there and no listing has shown since (main.ts,*)
(* the handlers of the SFTP tab; ssh-session.js, sftpUpload).               *)
THEOREM RowsFresh == SftpSpec => []ListingFresh
<1>1. SftpInv => ListingFresh
  <2> SUFFICES ASSUME SftpInv, SftpQuiet, sftp = "live", Browsing
               PROVE  ShowsAll(panel.names, panel.path)
    BY DEF ListingFresh, ShowsAll
  <2>1. /\ \A K : Without(requests, K) /\ Without(answers, K)
        /\ \A k \in SftpTasks : task[k].kind \notin Loops
    BY EmptySeq, TaskTypes DEF SftpQuiet, Without, Loops
  <2>2. Unlisted
    BY <2>1 DEF Unlisted, Browsing
  <2>3. Current
    BY <2>1, <2>2 DEF SftpInv, FreshInv
  <2>4. ~panel.error /\ panel.path # NoDir
    BY DEF SftpInv, PathInv, Browsing
  <2> QED
    BY <2>3, <2>4 DEF Current
<1> QED
  BY <1>1, SftpCorrect, PTL
=============================================================================
