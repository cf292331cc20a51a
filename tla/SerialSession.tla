--------------------------- MODULE SerialSession ---------------------------
(***************************************************************************)
(* serial-session.js: the events of a serial port.  A port that is open    *)
(* already, even if nothing refers to it any more, cannot be opened again. *)
(***************************************************************************)
EXTENDS TermSession

SerialDial(kind) == [st |-> "dialing", kind |-> kind, jump |-> FALSE]

PortBusy == \E t \in Tabs : link[t].st \in {"open", "ending", "stray"}

SerialOpens(t) ==
  /\ proto = "serial" /\ link[t].st = "dialing"
  /\ ~PortBusy
  /\ SessionOpens(t)

SerialFails(t) ==
  /\ proto = "serial" /\ link[t].st = "dialing"
  /\ OpeningFails(t)

\* An error event deletes the session and leaves the port open.
SerialErrs(t) ==
  /\ proto = "serial" /\ link[t].st = "open"
  /\ link' = [link EXCEPT ![t].st = "stray"]
  /\ UNCHANGED <<confVars, mainVars, reply, closeEvent, winVars>>

\* The close event: the device is gone, or the program closed the port.
SerialCloses(t) ==
  /\ proto = "serial" /\ link[t].st \in {"open", "ending", "stray"}
  /\ SessionOver(t)

\* serialCloseSession and closeSerialSessionsForConnection, for one session.
SerialClosed(l) == IF l.st = "open" THEN [l EXCEPT !.st = "ending"] ELSE l

SerialProgress(t) ==
  SerialOpens(t) \/ SerialFails(t) \/ (link[t].st = "ending" /\ SerialCloses(t))

SerialNext ==
  \E t \in Tabs : \/ SerialOpens(t) \/ SerialFails(t)
                  \/ SerialErrs(t) \/ SerialCloses(t)
=============================================================================
