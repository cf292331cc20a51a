---------------------------- MODULE TermSession ----------------------------
(***************************************************************************)
(* What the embedded terminals share: one connection whose protocol the    *)
(* program speaks itself, its registry entry and status, the sessions the  *)
(* main process holds for it, and the terminal windows (renderer           *)
(* processes) with their tabs.  SshSession, TelnetSession and              *)
(* SerialSession add the events of a session, Terminal the handlers.       *)
(*                                                                         *)
(* One call of addTermTab makes one tab, one request and one session id,   *)
(* so a single index, the tab, names all three.                            *)
(***************************************************************************)
EXTENDS Naturals, Sequences, FiniteSets

CONSTANTS
  Tabs,         \* tabs, and the session ids made for them
  Watched,      \* those the liveness properties look at; all tabs are alike
  Windows,      \* terminal windows that can be open at once
  Protocols,    \* protocols considered
  JumpHosts,    \* may an SSH connection have a jump host (a set of BOOLEANs)
  Sources,      \* "own" or "managed": the list the connection is in
  MaxAttempts,  \* autoReconnectAttempts
  MaxOutbox,    \* bound: a window acts only with fewer requests under way
  None

ASSUME TermAssumption ==
  /\ IsFiniteSet(Tabs) /\ Watched \subseteq Tabs
  /\ Protocols \subseteq {"ssh", "telnet", "serial"}
  /\ JumpHosts \subseteq BOOLEAN
  /\ Sources \subseteq {"own", "managed"}
  /\ MaxAttempts \in Nat \ {0} /\ MaxOutbox \in Nat
  /\ None \notin Windows \cup Tabs

VARIABLES
  proto,       \* the connection's protocol
  hasJump,     \* its jumpHost is set
  source,      \* the list it is in, or "deleted"
  entry,       \* its entry in activeConnections: connectedAt null or set
  status,      \* its connectionStatuses
  link,        \* sessions, pendingClients and the clients in neither
  reply,       \* answers to the create requests, on their way to the window
  closeEvent,  \* ssh-close events on their way to the window
  outbox,      \* requests of each window, on their way to the main process
  win,         \* terminal windows
  auto,        \* the window's currentSettings say autoReconnect
  tab          \* termState of the windows, with sidToTab

confVars == <<proto, hasJump>>
mainVars == <<source, entry, status>>
winVars == <<outbox, win, auto, tab>>
termVars == <<confVars, mainVars, link, reply, closeEvent, winVars>>

(* "jump" awaits openJumpProxy; "dialing" is a client in its handshake (in  *)
(* pendingClients, for SSH); "shell" awaits the shell or SFTP channel;      *)
(* "open" is in the sessions map; "ending" was closed by the program and    *)
(* its close event is to come.  The rest nothing refers to any more:        *)
(* "lost" was destroyed or closed while dialing: its promise never settles; *)
(* "stray" is still connected, of a "leak" the jump host's client is.       *)
Link == [st : {"none", "jump", "dialing", "shell", "open", "ending",
               "lost", "stray", "leak"},
         kind : {"term", "sftp"}, jump : BOOLEAN]
NoLink == [st |-> "none", kind |-> "term", jump |-> FALSE]

(* "creating" awaits the create request; a tab that was closed meanwhile is *)
(* "cancelled".  "open" has a session id, "closed" lost it, "failed" never  *)
(* got one.  "orphan": its window was closed before it could let go of its  *)
(* session.                                                                 *)
Tab == [st : {"off", "creating", "cancelled", "open", "closed", "failed", "orphan"},
        win : Windows \cup {None}, kind : {"term", "sftp"},
        timer : BOOLEAN, attempt : 0..MaxAttempts]
NoTab == [st |-> "off", win |-> None, kind |-> "term", timer |-> FALSE, attempt |-> 0]
Orphan == [NoTab EXCEPT !.st = "orphan"]

Message == [op : {"term", "sftp", "close", "cancel", "up", "down"},
            tab : Tabs \cup {None}]

TermTypeOK ==
  /\ proto \in {"ssh", "telnet", "serial"} /\ hasJump \in BOOLEAN
  /\ source \in {"own", "managed", "deleted"}
  /\ entry \in {"none", "fresh", "stamped"}
  /\ status \in {"disconnected", "connecting", "connected"}
  /\ link \in [Tabs -> Link]
  /\ reply \in [Tabs -> {"none", "ok", "err"}]
  /\ closeEvent \in [Tabs -> BOOLEAN]
  /\ outbox \in [Windows -> Seq(Message)]
  /\ win \in [Windows -> {"none", "loading", "open"}]
  /\ auto \in [Windows -> BOOLEAN]
  /\ tab \in [Tabs -> Tab]

TermInit ==
  /\ proto \in Protocols
  /\ hasJump \in IF proto = "ssh" THEN JumpHosts ELSE {FALSE}
  /\ source \in Sources
  /\ entry = "none" /\ status = "disconnected"
  /\ link = [t \in Tabs |-> NoLink]
  /\ reply = [t \in Tabs |-> "none"] /\ closeEvent = [t \in Tabs |-> FALSE]
  /\ outbox = [w \in Windows |-> <<>>]
  /\ win = [w \in Windows |-> "none"] /\ auto = [w \in Windows |-> FALSE]
  /\ tab = [t \in Tabs |-> NoTab]

-----------------------------------------------------------------------------
(* What the main process tells the tab.  Messages to one window keep their  *)
(* order, so the answer to a create is seen before the close of its         *)
(* session; a tab that waits for neither would ignore them.                 *)

Awaiting(t) == tab[t].st \in {"creating", "cancelled"}

Answer(t, r) ==
  reply' = IF Awaiting(t) THEN [reply EXCEPT ![t] = r] ELSE reply

OnClose(t) ==
  closeEvent' = [closeEvent EXCEPT ![t] = tab[t].st \in {"creating", "cancelled", "open"}]

(* The create request of t settles with a session, or is rejected.          *)
SessionOpens(t) ==
  /\ link' = [link EXCEPT ![t].st = "open"]
  /\ Answer(t, "ok")
  /\ UNCHANGED <<confVars, mainVars, closeEvent, winVars>>

\* What is left of a session whose jump host's client was not ended.
LeftOf(l) == IF l.jump THEN [l EXCEPT !.st = "leak"] ELSE NoLink

\* Mutant: the promise of the create request is not rejected.
OpeningFailsSilently(t) ==
  /\ link' = [link EXCEPT ![t] = LeftOf(@)]
  /\ UNCHANGED <<confVars, mainVars, reply, closeEvent, winVars>>

OpeningFails(t) ==
  /\ link' = [link EXCEPT ![t] = LeftOf(@)]
  /\ Answer(t, "err")
  /\ UNCHANGED <<confVars, mainVars, closeEvent, winVars>>

(* The session of t is over and onClose is called for it.                   *)
SessionOver(t) ==
  /\ link' = [link EXCEPT ![t] = NoLink]
  /\ OnClose(t)
  /\ UNCHANGED <<confVars, mainVars, reply, winVars>>
=============================================================================
