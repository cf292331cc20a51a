------------------------------- MODULE Views -------------------------------
(***************************************************************************)
(* The connection list and the statuses shown by the main window           *)
(* (renderer/src/main.ts) against those the main process holds (ipc.js,    *)
(* messaging.js, sync.js).  Everything main sends to the page, answers and *)
(* broadcasts, arrives in order; the page asks in order too.  What a       *)
(* handler writes and answers is one step here: see ConnStore.             *)
(***************************************************************************)
EXTENDS Naturals, Sequences, FiniteSets

CONSTANTS
  Ids,          \* connections
  Refreshes,    \* refreshConnections calls that can be under way at once
  NoId,
  MaxMessages   \* bound: main acts on its own only while fewer are under way

ASSUME ViewsAssumption ==
  /\ NoId \notin Ids /\ MaxMessages \in Nat \ {0}
  /\ IsFiniteSet(Refreshes) /\ Refreshes # {} /\ "user" \notin Refreshes /\ "all" \notin Refreshes

VARIABLES
  own, managed,   \* main: connections.json and the managed list
  mainStatus,     \* connectionStatuses
  view,           \* the page's connections and statuses
  refresh,        \* the refreshConnections calls
  edit,           \* what the user has asked for in the sidebar
  asked,          \* requests on their way to main
  channel         \* answers and broadcasts on their way to the page

viewsVars == <<own, managed, mainStatus, view, refresh, edit, asked, channel>>

Status == {"disconnected", "connected"}
NoRefresh == [st |-> "idle", own |-> {}]

ViewsTypeOK ==
  /\ own \subseteq Ids /\ managed \subseteq Ids
  /\ mainStatus \in [Ids -> Status]
  /\ view \in [loaded : BOOLEAN, own : SUBSET Ids, managed : SUBSET Ids,
               status : [Ids -> Status]]
  /\ refresh \in [Refreshes -> [st : {"idle", "own", "managed", "statuses"}, own : SUBSET Ids]]
  /\ edit \in {"none", "delete", "save", "load"}
  /\ \A i \in DOMAIN asked : asked[i].who \in Refreshes \cup {"user"}
  /\ \A i \in DOMAIN channel : channel[i].what \in {"own", "managed", "status", "statuses", "saved"}

ViewsInit ==
  /\ own = {} /\ managed = {}
  /\ mainStatus = [c \in Ids |-> "disconnected"]
  /\ view = [loaded |-> FALSE, own |-> {}, managed |-> {},
             status |-> [c \in Ids |-> "disconnected"]]
  /\ refresh = [r \in Refreshes |-> NoRefresh]
  /\ edit = "none" /\ asked = <<>> /\ channel = <<>>

Ask(who, what) == [who |-> who, what |-> what, id |-> NoId]
AskFor(who, what, c) == [Ask(who, what) EXCEPT !.id = c]

\* An answer is for somebody, a broadcast for nobody.
ToPage(who, what, value) == [who |-> who, what |-> what, value |-> value]
Broadcast(what, value) == ToPage("all", what, value)

\* Mutant: the page attaches its listeners after its first refresh.
ListeningOnceRefreshed == view.loaded /\ \A r \in Refreshes : refresh[r].st = "idle"

(* The script attaches its listeners before it asks for anything; what is   *)
(* broadcast before that is lost.                                           *)
Listening == view.loaded
Sent(messages) == IF Listening THEN channel \o messages ELSE channel

SavedSent == Cardinality({i \in DOMAIN channel : channel[i].what = "saved"})
IdleRefreshes == {r \in Refreshes : refresh[r].st = "idle"}

(* Bounds: main acts on its own only while the page keeps up.               *)
Room == Len(channel) < MaxMessages
RoomForRefresh == Room /\ Cardinality(IdleRefreshes) > SavedSent

-----------------------------------------------------------------------------
(* The main process *)

\* updateStatus, from whatever changes a status.
UpdateStatus(c, s) ==
  /\ Room /\ mainStatus[c] # s
  /\ mainStatus' = [mainStatus EXCEPT ![c] = s]
  /\ channel' = Sent(<<Broadcast("status", <<c, s>>)>>)
  /\ UNCHANGED <<own, managed, view, refresh, edit, asked>>

\* save-connection and import-connections, from another window.
Saved(c) ==
  /\ RoomForRefresh
  /\ own' = own \cup {c}
  /\ channel' = Sent(<<Broadcast("saved", NoId)>>)
  /\ UNCHANGED <<managed, mainStatus, view, refresh, edit, asked>>

\* fetchAndApply
Fetched(list) ==
  /\ Room /\ list # managed
  /\ managed' = list
  /\ channel' = Sent(<<Broadcast("managed", list)>>)
  /\ UNCHANGED <<own, mainStatus, view, refresh, edit, asked>>

(* load-connections, get-managed-connections, get-connection-statuses       *)
HandleGet ==
  LET q == Head(asked)
      value == CASE q.what = "own" -> own
                 [] q.what = "managed" -> managed
                 [] q.what = "statuses" -> mainStatus
  IN
  /\ asked # <<>> /\ q.what \in {"own", "managed", "statuses"}
  /\ asked' = Tail(asked)
  /\ channel' = Append(channel, ToPage(q.who, q.what, value))
  /\ UNCHANGED <<own, managed, mainStatus, view, refresh, edit>>

(* delete-connection stops the connection and answers what remains of the   *)
(* user's own list; it tells no window.                                     *)
HandleDelete ==
  LET c == Head(asked).id IN
  /\ asked # <<>> /\ Head(asked).what = "delete"
  /\ asked' = Tail(asked)
  /\ own' = own \ {c} /\ mainStatus' = [mainStatus EXCEPT ![c] = "disconnected"]
  /\ channel' = Append(Sent(<<Broadcast("status", <<c, "disconnected">>)>>),
                       ToPage("user", "own", own'))
  /\ UNCHANGED <<managed, view, refresh, edit>>

\* save-connection of a duplicate gets a new id.
HandleSave ==
  /\ asked # <<>> /\ Head(asked).what = "save"
  /\ Cardinality(IdleRefreshes) > SavedSent       \* bound
  /\ \E c \in Ids : own' = own \cup {c}
  /\ asked' = Tail(asked)
  /\ channel' = Append(Sent(<<Broadcast("saved", NoId)>>), ToPage("user", "own", {}))
  /\ UNCHANGED <<managed, mainStatus, view, refresh, edit>>

-----------------------------------------------------------------------------
(* The page *)

(* The awaits of refreshConnections, one after the other.                   *)
NextAwait(st) ==
  CASE st = "idle" -> "own" [] st = "own" -> "managed"
    [] st = "managed" -> "statuses" [] st = "statuses" -> "idle"

Advanced(r) == [refresh[r] EXCEPT !.st = NextAwait(@)]
Asks(r) == IF NextAwait(refresh[r].st) = "idle" THEN <<>> ELSE <<Ask(r, NextAwait(refresh[r].st))>>

\* init
PageLoads ==
  /\ ~view.loaded
  /\ \E r \in IdleRefreshes :
       /\ refresh' = [refresh EXCEPT ![r] = Advanced(r)]
       /\ asked' = asked \o Asks(r)
  /\ view' = [view EXCEPT !.loaded = TRUE]
  /\ UNCHANGED <<own, managed, mainStatus, edit, channel>>

\* Mutant: while a refresh is under way no other is started.
RefreshUnlessBusy(rs) == IF rs = Refreshes THEN rs ELSE {}

StartedOnSaved(rs) == rs

\* onConnectionSaved
HearSaved ==
  /\ channel # <<>> /\ Head(channel).what = "saved"
  /\ channel' = Tail(channel)
  /\ IF StartedOnSaved(IdleRefreshes) = {} THEN UNCHANGED <<refresh, asked>>
     ELSE \E r \in IdleRefreshes :
            /\ refresh' = [refresh EXCEPT ![r] = Advanced(r)]
            /\ asked' = asked \o Asks(r)
  /\ UNCHANGED <<own, managed, mainStatus, view, edit>>

\* onStatusUpdate, onManagedConnectionsUpdated
HearUpdate ==
  LET m == Head(channel) IN
  /\ channel # <<>> /\ m.who = "all" /\ m.what \in {"status", "managed"}
  /\ channel' = Tail(channel)
  /\ view' = IF m.what = "status" THEN [view EXCEPT !.status[m.value[1]] = m.value[2]]
             ELSE [view EXCEPT !.managed = m.value \ view.own]
  /\ UNCHANGED <<own, managed, mainStatus, refresh, edit, asked>>

(* refreshConnections after each await: the own list is kept until the      *)
(* managed one is there, and the statuses are replaced as a whole.          *)
RefreshContinues(r) ==
  LET m == Head(channel) IN
  /\ channel # <<>> /\ m.who = r
  /\ channel' = Tail(channel) /\ asked' = asked \o Asks(r)
  /\ refresh' = [refresh EXCEPT ![r] = IF m.what = "own" THEN [Advanced(r) EXCEPT !.own = m.value]
                                       ELSE IF NextAwait(refresh[r].st) = "idle" THEN NoRefresh
                                       ELSE Advanced(r)]
  /\ view' = CASE m.what = "own" -> view
               [] m.what = "managed" ->
                    [view EXCEPT !.own = refresh[r].own, !.managed = m.value \ refresh[r].own]
               [] m.what = "statuses" -> [view EXCEPT !.status = m.value]
  /\ UNCHANGED <<own, managed, mainStatus, edit>>

(* The sidebar's delete, after its confirmation, and duplicate.             *)
UserDeletes(c) ==
  /\ edit = "none" /\ c \in view.own \cup view.managed
  /\ edit' = "delete" /\ asked' = Append(asked, AskFor("user", "delete", c))
  /\ UNCHANGED <<own, managed, mainStatus, view, refresh, channel>>

UserDuplicates ==
  /\ edit = "none" /\ view.own \cup view.managed # {}
  /\ edit' = "save" /\ asked' = Append(asked, Ask("user", "save"))
  /\ UNCHANGED <<own, managed, mainStatus, view, refresh, channel>>

(* Both replace the whole list by the user's own connections: the managed   *)
(* ones are not shown until the next refresh.                               *)
EditAnswered ==
  LET m == Head(channel) IN
  /\ channel # <<>> /\ m.who = "user"
  /\ channel' = Tail(channel)
  /\ IF edit = "save"
     THEN edit' = "load" /\ asked' = Append(asked, Ask("user", "own")) /\ UNCHANGED view
     ELSE edit' = "none" /\ UNCHANGED asked
          /\ view' = [view EXCEPT !.own = m.value, !.managed = {}]
  /\ UNCHANGED <<own, managed, mainStatus, refresh>>

ViewsNext ==
  \/ \E c \in Ids : Saved(c) \/ UserDeletes(c) \/ \E s \in Status : UpdateStatus(c, s)
  \/ \E list \in SUBSET Ids : Fetched(list)
  \/ HandleGet \/ HandleDelete \/ HandleSave
  \/ PageLoads \/ HearSaved \/ HearUpdate \/ UserDuplicates \/ EditAnswered
  \/ \E r \in Refreshes : RefreshContinues(r)

ViewsSpec == ViewsInit /\ [][ViewsNext]_viewsVars

-----------------------------------------------------------------------------
(* Properties *)

ViewsQuiet ==
  /\ view.loaded /\ asked = <<>> /\ channel = <<>> /\ edit = "none"
  /\ \A r \in Refreshes : refresh[r].st = "idle"

(* Whenever nothing is under way the page shows the status main holds, of   *)
(* every connection: a refresh never overwrites a later update.             *)
StatusShown == ViewsQuiet => view.status = mainStatus

(* And every connection of the user: overlapping refreshes, deletions and   *)
(* saves never leave one out.  One that was deleted may still be listed.    *)
OwnShown == ViewsQuiet => own \subseteq view.own
=============================================================================
