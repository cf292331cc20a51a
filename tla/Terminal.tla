------------------------------ MODULE Terminal ------------------------------
(***************************************************************************)
(* The embedded terminals as a whole: the sessions of the main process,    *)
(* the connect, disconnect and report handlers (actions.js, ipc.js), and   *)
(* the tabs of the terminal windows (renderer/src/main.ts), which talk to  *)
(* the main process by requests and events.                                *)
(***************************************************************************)
EXTENDS SshSession, TelnetSession, SerialSession

-----------------------------------------------------------------------------
(* Windows and tabs *)

Listed(w) == {t \in Tabs : tab[t].win = w /\ tab[t].st \in {"creating", "open", "closed", "failed"}}

\* Mutant: every tab counts, SFTP tabs too.
LiveTabs(w) == {t \in Listed(w) : tab[t].st \in {"creating", "open"}}

LiveTerms(w) == {t \in Listed(w) : tab[t].kind = "term" /\ tab[t].st \in {"creating", "open"}}

Msg(op) == [op |-> op, tab |-> None]

\* Mutant: the arguments of the request are swapped.
MsgOnSwapped(op, t) == [op |-> t, tab |-> op]
MsgOn(op, t) == [op |-> op, tab |-> t]

Mentioned(t) == \E w \in Windows : \E i \in DOMAIN outbox[w] : outbox[w][i].tab = t

\* A tab can be made anew once nothing of its past is left; an orphan stays one.
Free == {t \in Tabs : /\ tab[t].st = "off"
                      /\ link[t] = NoLink \/ (link[t].st = "lost" /\ ~link[t].jump)
                      /\ ~Mentioned(t)}

(* Bounds: a window that loads finds a free tab, and a window acts only     *)
(* while few of its requests are under way.                                 *)
RoomForTab == Cardinality(Free) > Cardinality({w \in Windows : win[w] = "loading"})
Calm(w) == win[w] = "open" /\ Len(outbox[w]) <= MaxOutbox

NewTab(w, kind) ==
  [st |-> "creating", win |-> w, kind |-> kind, timer |-> FALSE, attempt |-> 0]

(* createTerminalWindow; several windows may show one connection.           *)
OpenWindow(w) ==
  /\ win[w] = "none" /\ outbox[w] = <<>> /\ RoomForTab
  /\ win' = [win EXCEPT ![w] = "loading"]

(* initTerminalWindow looks the connection up in the user's own list only.  *)
WindowLoads(w) ==
  /\ win[w] = "loading"
  /\ win' = [win EXCEPT ![w] = "open"]
  /\ IF source = "own"
     THEN \E t \in Free :
            /\ tab' = [tab EXCEPT ![t] = NewTab(w, "term")]
            /\ link' = [link EXCEPT ![t] = NoLink]
            /\ outbox' = [outbox EXCEPT ![w] = <<MsgOn("term", t)>>]
     ELSE UNCHANGED <<tab, link, outbox>>
  /\ UNCHANGED <<confVars, mainVars, reply, closeEvent, auto>>

\* The new-tab menu: addTermTab.  SFTP is offered for SSH only.
AddTab(w, kind) ==
  /\ Calm(w) /\ Listed(w) # {} /\ RoomForTab
  /\ kind = "sftp" => proto = "ssh"
  /\ \E t \in Free :
       /\ tab' = [tab EXCEPT ![t] = NewTab(w, kind)]
       /\ link' = [link EXCEPT ![t] = NoLink]
       /\ outbox' = [outbox EXCEPT ![w] = Append(@, MsgOn(kind, t))]
  /\ UNCHANGED <<confVars, mainVars, reply, closeEvent, win, auto>>

(* The tabs when the page of w goes away: what a tab still holds, or has    *)
(* asked for, nobody will close.                                            *)
PageGone(w, tabs) ==
  [t \in Tabs |-> IF tabs[t].win # w THEN tabs[t]
                  ELSE IF tabs[t].st \in {"creating", "cancelled", "open"} THEN Orphan
                  ELSE NoTab]

\* Messages to tabs that are no longer there are lost.
Deaf(tabs) ==
  /\ reply' = [t \in Tabs |-> IF tabs[t].st \in {"creating", "cancelled"} THEN reply[t] ELSE "none"]
  /\ closeEvent' = [t \in Tabs |-> closeEvent[t] /\ tabs[t].st \in {"creating", "cancelled", "open"}]

(* What closeTermTab asks the main process for.  A session ends with its    *)
(* tab; a tab that is still connecting cancels the clients of the           *)
(* connection and reports a disconnect whatever else the window shows.      *)
CloseRequests(t) ==
  IF tab[t].st = "open"
  THEN <<MsgOn("close", t)>>
         \o IF tab[t].kind = "term" /\ LiveTerms(tab[t].win) \subseteq {t}
            THEN <<Msg("down")>> ELSE <<>>
  ELSE IF tab[t].st = "creating" THEN <<Msg("cancel"), Msg("down")>>
  ELSE <<>>

Unlisted(t) == IF tab[t].st = "creating" THEN [tab[t] EXCEPT !.st = "cancelled"] ELSE NoTab

(* closeTermTab.  The last tab takes the window with it.                    *)
CloseTab(w, t) ==
  LET rest == [tab EXCEPT ![t] = Unlisted(t)]
      last == Listed(w) = {t}
      tabs == IF last THEN PageGone(w, rest) ELSE rest
  IN
  /\ Calm(w) /\ t \in Listed(w)
  /\ outbox' = [outbox EXCEPT ![w] = @ \o CloseRequests(t)]
  /\ tab' = tabs /\ Deaf(tabs)
  /\ win' = IF last THEN [win EXCEPT ![w] = "none"] ELSE win
  /\ auto' = IF last THEN [auto EXCEPT ![w] = FALSE] ELSE auto
  /\ UNCHANGED <<confVars, mainVars, link>>

(* closeTermTab followed by addTermTab, which the Reconnect button and the  *)
(* reconnect timer both do.  Of the last tab this closes the window; its    *)
(* create request may still leave the page.                                 *)
Replace(w, t, requests) ==
  LET fresh == [tab EXCEPT ![t] = NewTab(w, "term")] IN
  /\ link[t] = NoLink /\ ~Mentioned(t)      \* bound: the tab is used again
  /\ IF Listed(w) = {t}
     THEN /\ tab' = PageGone(w, fresh) /\ Deaf(tab')
          /\ win' = [win EXCEPT ![w] = "none"]
          /\ auto' = [auto EXCEPT ![w] = FALSE]
          /\ \E sent \in {<<>>, <<MsgOn("term", t)>>} :
               outbox' = [outbox EXCEPT ![w] = @ \o requests \o sent]
     ELSE /\ tab' = fresh
          /\ outbox' = [outbox EXCEPT ![w] = @ \o requests \o <<MsgOn("term", t)>>]
          /\ UNCHANGED <<win, auto, reply, closeEvent>>
  /\ UNCHANGED <<confVars, mainVars, link>>

ReconnectButton(w, t) ==
  /\ Calm(w) /\ t \in Listed(w) /\ tab[t].st = "closed" /\ tab[t].kind = "term"
  /\ Replace(w, t, <<>>)

(* The timer sets closed to false first, so closeTermTab takes the tab for  *)
(* one that is connecting.                                                  *)
TimerFires(w, t) ==
  /\ Calm(w) /\ tab[t].win = w /\ tab[t].timer
  /\ Replace(w, t, <<Msg("cancel"), Msg("down")>>)

(* The window's close button: the page has no handler for it, and the main  *)
(* process none for a terminal window that is gone.                         *)
CloseWindow(w) ==
  /\ win[w] # "none"
  /\ win' = [win EXCEPT ![w] = "none"] /\ auto' = [auto EXCEPT ![w] = FALSE]
  /\ tab' = PageGone(w, tab) /\ Deaf(tab')
  /\ UNCHANGED <<confVars, mainVars, link, outbox>>

-----------------------------------------------------------------------------
(* What the page does with an answer or an event *)

\* Mutant: addTermTab does not look at tab.cancelled.
AfterCreateUnchecked(t, ok) ==
  IF tab[t].kind = "sftp" THEN <<>> ELSE <<Msg(IF ok THEN "up" ELSE "down")>>

(* addTermTab after its await: a cancelled tab lets the session go; only a  *)
(* terminal tab reports.                                                    *)
AfterCreate(t, ok) ==
  IF tab[t].st = "cancelled" THEN (IF ok THEN <<MsgOn("close", t)>> ELSE <<>>)
  ELSE IF tab[t].kind = "sftp" THEN <<>>
  ELSE <<Msg(IF ok THEN "up" ELSE "down")>>

CreateSettles(t) ==
  LET w == tab[t].win
      ok == reply[t] = "ok"
      tabs == IF tab[t].st = "cancelled" THEN [tab EXCEPT ![t] = NoTab]
              ELSE [tab EXCEPT ![t].st = IF ok THEN "open" ELSE "failed"]
  IN
  /\ reply[t] # "none"
  /\ tab' = tabs
  /\ reply' = [reply EXCEPT ![t] = "none"]
  /\ closeEvent' = [closeEvent EXCEPT ![t] = @ /\ tabs[t].st = "open"]
  /\ outbox' = [outbox EXCEPT ![w] = @ \o AfterCreate(t, ok)]
  /\ UNCHANGED <<confVars, mainVars, link, win, auto>>

\* onSshClose of a routed session: report, and arm the reconnect timer.
Retries(t) ==
  auto[tab[t].win] /\ tab[t].kind = "term" /\ tab[t].attempt < MaxAttempts

CloseSeen(t) ==
  LET w == tab[t].win IN
  /\ closeEvent[t] /\ reply[t] = "none" /\ tab[t].st = "open"
  /\ closeEvent' = [closeEvent EXCEPT ![t] = FALSE]
  /\ tab' = [tab EXCEPT ![t] = [@ EXCEPT !.st = "closed", !.timer = Retries(t),
                                         !.attempt = tab[t].attempt + IF Retries(t) THEN 1 ELSE 0]]
  /\ outbox' = [outbox EXCEPT ![w] = @ \o IF LiveTerms(w) \subseteq {t}
                                         THEN <<Msg("down")>> ELSE <<>>]
  /\ UNCHANGED <<confVars, mainVars, link, reply, win, auto>>

(* settings-did-change, which is the only way a terminal window learns the  *)
(* settings: a save in another window, or its own once an OS was detected.  *)
SettingsSaved ==
  /\ \E on \in BOOLEAN :
       auto' = [w \in Windows |-> IF win[w] = "open" THEN on ELSE FALSE]
  /\ UNCHANGED <<confVars, mainVars, link, reply, closeEvent, outbox, win, tab>>

-----------------------------------------------------------------------------
(* The handlers of the main process, in the order a window sent its requests *)

Takes(w, op) ==
  /\ outbox[w] # <<>> /\ Head(outbox[w]).op = op
  /\ outbox' = [outbox EXCEPT ![w] = Tail(@)]

Dial(kind) == CASE proto = "ssh" -> SshDial(kind)
                [] proto = "telnet" -> TelnetDial(kind)
                [] proto = "serial" -> SerialDial(kind)

\* ssh-term-create, ssh-sftp-create, telnet-term-create, serial-term-create.
CreateSession(w, kind) ==
  LET t == Head(outbox[w]).tab IN
  /\ Takes(w, kind)
  /\ IF source = "own"
     THEN link' = [link EXCEPT ![t] = Dial(kind)] /\ UNCHANGED reply
     ELSE Answer(t, "err") /\ UNCHANGED link      \* "Connection not found"
  /\ UNCHANGED <<confVars, mainVars, closeEvent, win, auto, tab>>

Closed(l) == CASE proto = "ssh" -> SshClosed(l)
               [] proto = "telnet" -> TelnetClosed(l)
               [] proto = "serial" -> SerialClosed(l)

CloseSession(w) ==
  /\ Takes(w, "close")
  /\ link' = [link EXCEPT ![Head(outbox[w]).tab] = Closed(@)]
  /\ UNCHANGED <<confVars, mainVars, reply, closeEvent, win, auto, tab>>

CancelConnect(w) ==
  /\ Takes(w, "cancel")
  /\ CancelPending
  /\ UNCHANGED <<confVars, mainVars, closeEvent, win, auto, tab>>

\* ssh-report-status: only the first success of an entry counts.
Stamps == entry = "fresh"

ReportUp(w) ==
  /\ Takes(w, "up")
  /\ IF Stamps THEN entry' = "stamped" /\ status' = "connected"
     ELSE UNCHANGED <<entry, status>>
  /\ UNCHANGED <<confVars, source, link, reply, closeEvent, win, auto, tab>>

ReportDown(w) ==
  /\ Takes(w, "down")
  /\ entry' = "none" /\ status' = "disconnected"
  /\ UNCHANGED <<confVars, source, link, reply, closeEvent, win, auto, tab>>

(* connectById, from the renderer (which then opens a terminal window) or   *)
(* from the tray (which does not, and lists the user's own connections).    *)
BeginConnect ==
  /\ source # "deleted" /\ status = "disconnected"
  /\ entry' = "fresh" /\ status' = "connecting"
  /\ UNCHANGED <<confVars, source, link, reply, closeEvent, outbox, auto, tab>>

Connect(w) == BeginConnect /\ OpenWindow(w)
TrayConnect == BeginConnect /\ source = "own" /\ UNCHANGED win

\* "Open terminal" of a connected connection.
OpenTerminal(w) ==
  /\ source # "deleted" /\ status = "connected"
  /\ OpenWindow(w)
  /\ UNCHANGED <<confVars, mainVars, link, reply, closeEvent, outbox, auto, tab>>

\* disconnectById: the sessions that exist now, then the entry.
Disconnect ==
  /\ status # "disconnected"
  /\ link' = [t \in Tabs |-> Closed(link[t])]
  /\ entry' = "none" /\ status' = "disconnected"
  /\ UNCHANGED <<confVars, source, reply, closeEvent, winVars>>

\* delete-connection stops the connection without closing its sessions.
Delete ==
  /\ source = "own"
  /\ source' = "deleted" /\ entry' = "none" /\ status' = "disconnected"
  /\ UNCHANGED <<confVars, link, reply, closeEvent, winVars>>

-----------------------------------------------------------------------------

WindowNext ==
  \E w \in Windows :
    \/ WindowLoads(w) \/ CloseWindow(w)
    \/ \E kind \in {"term", "sftp"} : AddTab(w, kind)
    \/ \E t \in Tabs : CloseTab(w, t) \/ ReconnectButton(w, t) \/ TimerFires(w, t)

PageNext == SettingsSaved \/ \E t \in Tabs : CreateSettles(t) \/ CloseSeen(t)

Handle(w) ==
  \/ \E kind \in {"term", "sftp"} : CreateSession(w, kind)
  \/ CloseSession(w) \/ CancelConnect(w) \/ ReportUp(w) \/ ReportDown(w)

MainNext ==
  \/ \E w \in Windows : Handle(w) \/ Connect(w) \/ OpenTerminal(w)
  \/ TrayConnect \/ Disconnect \/ Delete

Next == WindowNext \/ PageNext \/ MainNext \/ SshNext \/ TelnetNext \/ SerialNext
Init == TermInit

Spec == Init /\ [][Next]_termVars

(* Messages are delivered, pages load, clients and servers answer, a        *)
(* timeout fires (30 s and 20 s for SSH, 15 s for Telnet; an open channel   *)
(* that is never answered fails with the keep-alive) or an SSH connection   *)
(* is closed in its handshake; closed sessions end (5 s), and timers fire.  *)
(* No user acts, and no session ends by itself.                             *)
Fairness ==
  /\ \A w \in Windows : WF_termVars(WindowLoads(w)) /\ WF_termVars(Handle(w))
  /\ \A t \in Tabs :
       /\ WF_termVars(CreateSettles(t) \/ CloseSeen(t))
       /\ WF_termVars(SshProgress(t) \/ TelnetProgress(t) \/ SerialProgress(t))
       /\ \A w \in Windows : WF_termVars(TimerFires(w, t))

FairSpec == Spec /\ Fairness

-----------------------------------------------------------------------------
(* Properties *)

TypeOK == TermTypeOK

(* A window never loses a session: one that is open belongs to a tab that   *)
(* shows it, will be told of it, or has asked for its end, unless the whole *)
(* window was closed over it.                                               *)
SessionHasTab ==
  \A t \in Tabs : link[t].st = "open" =>
    \/ tab[t].st \in {"open", "orphan"}
    \/ (tab[t].st \in {"creating", "cancelled"} /\ reply[t] = "ok")
    \/ \E w \in Windows : \E i \in DOMAIN outbox[w] : outbox[w][i] = MsgOn("close", t)

(* A terminal tab that shows a session has one, or is about to be told that *)
(* it is over.  Not so for SFTP tabs and serial ports after an error.       *)
OpenTabBacked ==
  \A t \in Tabs : tab[t].st = "open" /\ tab[t].kind = "term" /\ proto # "serial" =>
    link[t].st \in {"open", "ending"} \/ closeEvent[t]

(* A connected connection has a terminal tab, or is about to be reported    *)
(* disconnected, unless a window was closed over its tabs.  A tab that is   *)
(* still connecting counts, as it does for closeTermTab and onSshClose: it  *)
(* reports its own outcome.  What made the connection "connected" may have  *)
(* been another session's late report: see MCStamp.                         *)
ConnectedBacked ==
  status = "connected" =>
    \/ \E t \in Tabs : tab[t].kind = "term" /\ tab[t].st \in {"creating", "open"}
    \/ \E t \in Tabs : tab[t].st = "orphan"
    \/ \E w \in Windows : \E i \in DOMAIN outbox[w] : outbox[w][i].op = "down"

(* A tab waits for ever only for a client that the closing of another tab   *)
(* of the connection destroyed, or that was closed in its handshake without *)
(* an error.                                                                *)
TabsSettle ==
  \A t \in Watched : tab[t].st = "creating" ~>
    tab[t].st # "creating" \/ link[t].st = "lost"

(* What a closed tab had asked for comes to an end: if the client still     *)
(* becomes a session, that session is closed, and it ends.  Unless the      *)
(* window is closed first.                                                  *)
Underway == {"jump", "dialing", "shell", "open", "ending"}
ClosedTabEnds ==
  \A t \in Watched :
    tab[t].st \in {"off", "cancelled"} /\ link[t].st \in Underway
      ~> link[t].st \notin Underway \/ tab[t].st = "orphan"
=============================================================================
