--------------------------- MODULE TelnetSession ---------------------------
(***************************************************************************)
(* telnet-session.js: the events of a Telnet socket.  The close event of a *)
(* socket that never connected carries an id no window knows.              *)
(***************************************************************************)
EXTENDS TermSession

TelnetDial(kind) == [st |-> "dialing", kind |-> kind, jump |-> FALSE]

TelnetOpens(t) ==
  /\ proto = "telnet" /\ link[t].st = "dialing"
  /\ SessionOpens(t)

\* An error, or no connection within 15 s.
TelnetFails(t) ==
  /\ proto = "telnet" /\ link[t].st = "dialing"
  /\ OpeningFails(t)

\* An error deletes the session; the close event that follows is the same.
TelnetCloses(t) ==
  /\ proto = "telnet" /\ link[t].st \in {"open", "ending"}
  /\ SessionOver(t)

\* telnetCloseSession and closeTelnetSessionsForConnection, for one session.
TelnetClosed(l) == IF l.st = "open" THEN [l EXCEPT !.st = "ending"] ELSE l

TelnetProgress(t) ==
  TelnetOpens(t) \/ TelnetFails(t) \/ (link[t].st = "ending" /\ TelnetCloses(t))

TelnetNext == \E t \in Tabs : TelnetOpens(t) \/ TelnetFails(t) \/ TelnetCloses(t)
=============================================================================
