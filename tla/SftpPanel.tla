----------------------------- MODULE SftpPanel -----------------------------
(***************************************************************************)
(* The file browser of an SFTP tab (renderer/src/main.ts) over one SFTP    *)
(* session (ssh-session.js, ipc.js).  A click starts a task that awaits    *)
(* the server between its steps; the panel goes on reacting meanwhile, so  *)
(* the path a task uses is the one shown when it gets there.  The server   *)
(* handles requests in the order they were sent and answers in that order. *)
(***************************************************************************)
EXTENDS Naturals, Sequences, FiniteSets

CONSTANTS
  Dirs, Home,   \* remote directories, the one sftpHome answers
  Names,        \* names of files
  SftpTasks,    \* click handlers that can be under way at once
  NoDir,
  MaxRequests   \* bound: the user clicks only while fewer are under way

ASSUME SftpAssumption ==
  /\ Home \in Dirs /\ NoDir \notin Dirs /\ MaxRequests \in Nat \ {0}
  /\ SftpTasks \cap {"opening", "panel"} = {}

VARIABLES
  remote,    \* the files in each remote directory
  partial,   \* history: those a failed upload may have left there, until a listing shows them
  sftp,      \* the session: none yet, live or ended
  panel,     \* the tab
  requests,  \* on their way to the server
  answers,   \* on their way to the page
  task

sftpVars == <<remote, partial, sftp, panel, requests, answers, task>>

Panel == [gone : BOOLEAN, closed : BOOLEAN, loading : BOOLEAN, error : BOOLEAN,
          path : Dirs \cup {NoDir}, of : Dirs \cup {NoDir}, names : SUBSET Names,
          multi : SUBSET Names]

Loops == {"delete", "drop"}
Dialogs == {"mkdir", "rename", "unlink", "upload"}
NoTask == [kind |-> "none", dialog |-> FALSE, todo |-> {}, dir |-> NoDir]

(* A request: a listing for the panel, or one operation of a task.          *)
Request(op, who, dir, name, to) == [op |-> op, who |-> who, dir |-> dir, name |-> name, to |-> to]
ListFor(who, dir) == Request("list", who, dir, NoDir, NoDir)
Listers == {"opening", "panel"}

SftpTypeOK ==
  /\ remote \in [Dirs -> SUBSET Names] /\ partial \in [Dirs -> SUBSET Names]
  /\ sftp \in {"none", "live", "ended"}
  /\ panel \in Panel
  /\ \A i \in DOMAIN requests :
       /\ requests[i].who \in Listers \cup SftpTasks
       /\ requests[i].dir \in Dirs
  /\ \A i \in DOMAIN answers : answers[i].ok \in BOOLEAN /\ answers[i].names \subseteq Names
  /\ \A k \in SftpTasks :
       /\ task[k].kind \in Loops \cup Dialogs \cup {"none"}
       /\ task[k].todo \subseteq Names

NoPanel == [gone |-> TRUE, closed |-> FALSE, loading |-> FALSE, error |-> FALSE,
            path |-> NoDir, of |-> NoDir, names |-> {}, multi |-> {}]

NoFiles == [dir \in Dirs |-> {}]

SftpInit ==
  /\ remote = NoFiles /\ partial = NoFiles /\ sftp = "none" /\ panel = NoPanel
  /\ requests = <<>> /\ answers = <<>>
  /\ task = [k \in SftpTasks |-> NoTask]

-----------------------------------------------------------------------------
(* The session *)

Exists(dir, name) == name \in remote[dir]

(* What the server makes of a request it can carry out.                     *)
Possible(r) ==
  CASE r.op = "remove" -> Exists(r.dir, r.name)
    [] r.op = "rename" -> Exists(r.dir, r.name) /\ ~Exists(r.dir, r.to)
    [] OTHER -> TRUE

Effect(r) ==
  CASE r.op = "remove" -> [remote EXCEPT ![r.dir] = @ \ {r.name}]
    [] r.op \in {"add", "put"} -> [remote EXCEPT ![r.dir] = @ \cup {r.name}]
    [] r.op = "rename" -> [remote EXCEPT ![r.dir] = (@ \ {r.name}) \cup {r.to}]
    [] OTHER           -> remote

(* What may be on the server after a request it refused or gave up: an      *)
(* upload may have made the file.                                           *)
AfterFailure(r) == IF r.op = "put" /\ sftp = "live" THEN {remote, Effect(r)} ELSE {remote}

PartialAfter(r, ok, after) ==
  IF ok THEN (IF r.op = "list" THEN [partial EXCEPT ![r.dir] = {}] ELSE partial)
  ELSE [partial EXCEPT ![r.dir] = @ \cup (after[r.dir] \ remote[r.dir])]

AnswerTo(r, ok) ==
  [who |-> r.who, dir |-> r.dir, ok |-> ok,
   names |-> IF ok /\ r.op = "list" THEN remote[r.dir] ELSE {}]

(* sftpList, sftpDelete, sftpRename, sftpMkdir, sftpUpload.  Without a      *)
(* session they reject, those under way when it ends too.                   *)
ServerAnswers ==
  LET r == Head(requests) IN
  /\ requests # <<>> /\ requests' = Tail(requests)
  /\ \E ok \in BOOLEAN :
       /\ ok => sftp = "live" /\ Possible(r)
       /\ remote' \in IF ok THEN {Effect(r)} ELSE AfterFailure(r)
       /\ partial' = PartialAfter(r, ok, remote')
       /\ answers' = Append(answers, AnswerTo(r, ok))
  /\ UNCHANGED <<sftp, panel, task>>

(* The connection ends.  What the server holds from then on is not followed.*)
SessionEnds ==
  /\ sftp = "live" /\ sftp' = "ended"
  /\ remote' = NoFiles /\ partial' = NoFiles
  /\ UNCHANGED <<panel, requests, answers, task>>

(* onSshClose.  A close tells the page if it finds the session still there, *)
(* so not after an error or a disconnect.                                   *)
CloseTold ==
  /\ sftp = "ended" /\ ~panel.gone /\ ~panel.closed
  /\ panel' = [panel EXCEPT !.closed = TRUE]
  /\ UNCHANGED <<remote, partial, sftp, requests, answers, task>>

-----------------------------------------------------------------------------
(* The panel *)

(* sftpNavigate up to its await; it does nothing for a tab that is closed.  *)
Navigating(p, dir) ==
  IF p.gone \/ p.closed THEN p ELSE [p EXCEPT !.loading = TRUE, !.error = FALSE]
ListRequest(p, dir) == IF p.gone \/ p.closed THEN <<>> ELSE <<ListFor("panel", dir)>>

\* Mutant: the spinner is not stopped when the listing fails.
SpinnerLeft(p, a) ==
  IF a.ok THEN [p EXCEPT !.loading = FALSE, !.of = a.dir, !.names = a.names,
                         !.path = IF a.who = "panel" THEN a.dir ELSE @]
  ELSE [p EXCEPT !.error = TRUE]

\* Mutant: the path of a listing that succeeded is not taken over.
PathKept(p, a) ==
  IF a.ok THEN [p EXCEPT !.loading = FALSE, !.of = a.dir, !.names = a.names]
  ELSE [p EXCEPT !.loading = FALSE, !.error = TRUE]

(* After the await: the path is set by sftpNavigate only, and an error      *)
(* leaves path and entries alone.                                           *)
AfterListing(p, a) ==
  IF a.ok THEN [p EXCEPT !.loading = FALSE, !.of = a.dir, !.names = a.names,
                         !.path = IF a.who = "panel" THEN a.dir ELSE @]
  ELSE [p EXCEPT !.loading = FALSE, !.error = TRUE]

(* addTermTab has its session id; the spinner turns until the first list.   *)
OpenSftpTab ==
  /\ sftp = "none" /\ sftp' = "live"
  /\ remote' \in [Dirs -> SUBSET Names]
  /\ panel' = [NoPanel EXCEPT !.gone = FALSE, !.loading = TRUE]
  /\ UNCHANGED <<partial, requests, answers, task>>

\* addTermTab: sftpHome, then the first listing.
HomeAnswers ==
  /\ panel.path = NoDir /\ panel.loading /\ requests = <<>> /\ answers = <<>>
  /\ \/ /\ sftp = "live"
        /\ panel' = [panel EXCEPT !.path = Home]
        /\ requests' = <<ListFor("opening", Home)>>
     \/ panel' = [panel EXCEPT !.loading = FALSE, !.error = TRUE] /\ UNCHANGED requests
  /\ UNCHANGED <<remote, partial, sftp, answers, task>>

ListAnswers ==
  /\ answers # <<>> /\ Head(answers).who \in Listers
  /\ answers' = Tail(answers)
  /\ panel' = AfterListing(panel, Head(answers))
  /\ UNCHANGED <<remote, partial, sftp, requests, task>>

(* The panel has its buttons and rows only then.  A dialog blocks them.     *)
Browsing ==
  /\ ~panel.gone /\ ~panel.loading /\ ~panel.closed /\ ~panel.error
  /\ \A k \in SftpTasks : ~task[k].dialog
  /\ Len(requests) + Len(answers) < MaxRequests

\* Bound: rows are marked and tasks begun while no request is under way.
PanelCalm == Browsing /\ requests = <<>> /\ answers = <<>>

\* Up, a crumb, a typed path, a double click on a directory, refresh.
Navigate(dir) ==
  /\ Browsing
  /\ panel' = Navigating(panel, dir) /\ requests' = requests \o ListRequest(panel, dir)
  /\ UNCHANGED <<remote, partial, sftp, answers, task>>

(* A row is clicked: with the control key it joins or leaves the marked     *)
(* ones.  They stay marked when the panel moves on to another directory.    *)
Mark(name) ==
  /\ PanelCalm /\ name \in panel.names
  /\ \E marked \in {{}, (panel.multi \ {name}) \cup ({name} \ panel.multi)} :
       panel' = [panel EXCEPT !.multi = marked]
  /\ UNCHANGED <<remote, partial, sftp, requests, answers, task>>

(* closeTermTab.  Of the tab only what its tasks still read is kept.        *)
CloseSftpTab ==
  /\ ~panel.gone
  /\ panel' = [NoPanel EXCEPT !.closed = panel.closed, !.path = panel.path, !.of = panel.of,
                              !.names = panel.names]
  /\ sftp' = "ended" /\ remote' = NoFiles /\ partial' = NoFiles
  /\ UNCHANGED <<requests, answers, task>>

-----------------------------------------------------------------------------
(* Tasks *)

\* Mutant: the panel is not listed again.
LeftStale(k, p) ==
  /\ task' = [task EXCEPT ![k] = NoTask]
  /\ panel' = p /\ UNCHANGED requests

(* The end of a task that changed something: list the path shown now.       *)
Refresh(k, p) ==
  /\ task' = [task EXCEPT ![k] = NoTask]
  /\ panel' = Navigating(p, p.path) /\ requests' = requests \o ListRequest(p, p.path)

\* Mutant: the loop does not move on to the next name.
LeftSame(todo, name) == todo

Left(todo, name) == todo \ {name}

(* The loops up to their next await.  "Delete n" takes the marked names     *)
(* that are in the entries shown now and skips those it meets that are not. *)
DeleteLoop(k, todo) ==
  \/ \E name \in todo \cap panel.names : \E skipped \in SUBSET (todo \ panel.names) :
       /\ task' = [task EXCEPT ![k] = [NoTask EXCEPT !.kind = "delete",
                                                     !.todo = Left(todo, name) \ skipped]]
       /\ requests' = Append(requests, Request("remove", k, panel.path, name, NoDir))
       /\ UNCHANGED panel
  \/ /\ todo \cap panel.names = {}
     /\ Refresh(k, [panel EXCEPT !.multi = {}])

DropLoop(k, todo) ==
  \/ \E name \in todo :
       /\ task' = [task EXCEPT ![k] = [NoTask EXCEPT !.kind = "drop", !.todo = Left(todo, name)]]
       /\ requests' = Append(requests, Request("put", k, panel.path, name, NoDir))
       /\ UNCHANGED panel
  \/ todo = {} /\ Refresh(k, panel)

StartLoop(k) ==
  /\ PanelCalm /\ task[k] = NoTask
  /\ \/ panel.multi # {} /\ DeleteLoop(k, panel.multi)
     \/ \E files \in SUBSET Names \ {{}} : DropLoop(k, files)
  /\ UNCHANGED <<remote, partial, sftp, answers>>

(* New folder, upload, rename, delete: a dialog first.  Upload has passed   *)
(* the path on already; a name for the others is a row shown now.           *)
StartDialog(k, kind, name) ==
  /\ PanelCalm /\ task[k] = NoTask
  /\ kind \in {"rename", "unlink"} => name \in panel.names
  /\ task' = [task EXCEPT ![k] = [kind |-> kind, dialog |-> TRUE, todo |-> {name},
                                  dir |-> IF kind = "upload" THEN panel.path ELSE NoDir]]
  /\ UNCHANGED <<remote, partial, sftp, panel, requests, answers>>

DialogRequest(k, name, to) ==
  LET kind == task[k].kind IN
  CASE kind = "upload" -> Request("put", k, task[k].dir, name, NoDir)
    [] kind = "mkdir"  -> Request("add", k, panel.path, name, NoDir)
    [] kind = "rename" -> Request("rename", k, panel.path, name, to)
    [] kind = "unlink" -> Request("remove", k, panel.path, name, NoDir)

(* The dialog is answered.  The operation is on the path shown by now.      *)
DialogEnds(k) ==
  /\ task[k].dialog
  /\ \/ task' = [task EXCEPT ![k] = NoTask] /\ UNCHANGED requests
     \/ /\ panel.closed => task[k].kind = "upload"
        /\ \E name \in task[k].todo, to \in Names :
             /\ task[k].kind = "rename" => to # name
             /\ requests' = Append(requests, DialogRequest(k, name, to))
        /\ task' = [task EXCEPT ![k].dialog = FALSE, ![k].todo = {}]
  /\ UNCHANGED <<remote, partial, sftp, panel, answers>>

(* A loop goes on whatever the answer; the others refresh on success only.  *)
TaskAnswered(k) ==
  LET a == Head(answers) IN
  /\ answers # <<>> /\ a.who = k /\ answers' = Tail(answers)
  /\ CASE task[k].kind = "delete" -> DeleteLoop(k, task[k].todo)
       [] task[k].kind = "drop"   -> DropLoop(k, task[k].todo)
       [] OTHER -> IF a.ok THEN Refresh(k, panel)
                   ELSE task' = [task EXCEPT ![k] = NoTask] /\ UNCHANGED <<panel, requests>>
  /\ UNCHANGED <<remote, partial, sftp>>

SftpNext ==
  \/ OpenSftpTab \/ ServerAnswers \/ SessionEnds \/ CloseTold \/ HomeAnswers \/ ListAnswers \/ CloseSftpTab
  \/ \E dir \in Dirs : Navigate(dir)
  \/ \E name \in Names : Mark(name)
  \/ \E k \in SftpTasks :
       \/ StartLoop(k) \/ DialogEnds(k) \/ TaskAnswered(k)
       \/ \E kind \in Dialogs, name \in Names : StartDialog(k, kind, name)

SftpSpec == SftpInit /\ [][SftpNext]_sftpVars

(* Every request is answered or rejected, and the page handles its events.  *)
SftpFairness ==
  /\ WF_sftpVars(ServerAnswers) /\ WF_sftpVars(HomeAnswers) /\ WF_sftpVars(ListAnswers)
  /\ \A k \in SftpTasks : WF_sftpVars(TaskAnswered(k))

-----------------------------------------------------------------------------
(* Properties *)

(* The entries shown are those of the path shown, however the listings of   *)
(* clicks and tasks overlap: a name is joined to the path it belongs to.    *)
EntriesOfPath ==
  ~panel.gone /\ ~panel.loading /\ ~panel.error => panel.of = panel.path

(* Once all tasks have ended the panel shows what the server has: every     *)
(* operation that was carried out is followed by a listing of where it took *)
(* place.  What an upload that failed has left is shown by the next listing *)
(* only: the upload button asks for none, a drop does.                      *)
SftpQuiet == requests = <<>> /\ answers = <<>> /\ \A k \in SftpTasks : task[k] = NoTask
ListingFresh == SftpQuiet /\ sftp = "live" /\ Browsing =>
  /\ panel.names \subseteq remote[panel.path]
  /\ remote[panel.path] \ panel.names \subseteq partial[panel.path]

(* The spinner stops, also when the session ends or a listing fails.        *)
SpinnerEnds == panel.loading ~> ~panel.loading

(* A loop over marked or dropped files ends, also on a tab that was closed. *)
FileLoopsEnd == \A k \in SftpTasks : task[k].kind \in Loops ~> task[k].kind \notin Loops
=============================================================================
