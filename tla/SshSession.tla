----------------------------- MODULE SshSession -----------------------------
(***************************************************************************)
(* ssh-session.js: the events of an SSH client, directly or through a jump *)
(* host, for terminals and for SFTP.  Whether destroy() of a client in its *)
(* handshake emits an error is up to the library.                          *)
(***************************************************************************)
EXTENDS TermSession

\* sshCreateTerm and sshCreateSftp up to their first pending await.
SshDial(kind) ==
  [st |-> IF hasJump THEN "jump" ELSE "dialing", kind |-> kind, jump |-> FALSE]

\* openJumpProxy: forwardOut succeeded.
JumpOpens(t) ==
  /\ link[t].st = "jump"
  /\ link' = [link EXCEPT ![t] = [@ EXCEPT !.st = "dialing", !.jump = TRUE]]
  /\ UNCHANGED <<confVars, mainVars, reply, closeEvent, winVars>>

\* An error or timeout of the jump host; forwardOut failed and it was ended.
JumpFails(t) == link[t].st = "jump" /\ OpeningFails(t)

SshReady(t) ==
  /\ proto = "ssh" /\ link[t].st = "dialing"
  /\ link' = [link EXCEPT ![t].st = "shell"]
  /\ UNCHANGED <<confVars, mainVars, reply, closeEvent, winVars>>

SshOpens(t) == link[t].st = "shell" /\ SessionOpens(t)

\* An error or the 30 s timeout; no shell or SFTP channel.
SshFails(t) ==
  /\ proto = "ssh" /\ link[t].st \in {"dialing", "shell"}
  /\ OpeningFails(t)

(* The connection is closed in the handshake without an error: neither of   *)
(* the client's nor of the jump host's client has anything listening for    *)
(* that, and ssh2 takes its 20 s or 30 s timer back.                        *)
SshVanishes(t) ==
  /\ proto = "ssh" /\ link[t].st \in {"jump", "dialing"}
  /\ link' = [link EXCEPT ![t].st = "lost"]
  /\ UNCHANGED <<confVars, mainVars, reply, closeEvent, winVars>>

\* The stream or the client closes, or a terminal's client fails.
SshCloses(t) ==
  /\ proto = "ssh" /\ link[t].st = "open"
  /\ SessionOver(t)

(* Only the SFTP channel closes: onClose is called, the client stays. (With *)
(* a jump host, onClose takes its transport away.)                          *)
SftpChannelCloses(t) ==
  /\ link[t].st = "open" /\ link[t].kind = "sftp" /\ ~link[t].jump
  /\ link' = [link EXCEPT ![t].st = "stray"]
  /\ OnClose(t)
  /\ UNCHANGED <<confVars, mainVars, reply, winVars>>

(* A client with an SFTP session fails: the session is deleted first, so    *)
(* that the cleanup that follows does not call onClose.                     *)
SftpErrs(t) ==
  /\ link[t].st = "open" /\ link[t].kind = "sftp"
  /\ link' = [link EXCEPT ![t] = LeftOf(@)]
  /\ UNCHANGED <<confVars, mainVars, reply, closeEvent, winVars>>

\* Mutant: the session is forgotten at once, without its close event.
SshForgotten(l) == IF l.st = "open" THEN NoLink ELSE l

\* sshCloseSession and closeSessionsForConnection, for one session.
SshClosed(l) == IF l.st = "open" THEN [l EXCEPT !.st = "ending"] ELSE l

(* A closed session ends, by itself or when it is destroyed after 5 s.      *)
SshEnds(t) ==
  /\ proto = "ssh" /\ link[t].st = "ending"
  /\ IF link[t].kind = "term"
     THEN SessionOver(t)
     ELSE /\ link' = [link EXCEPT ![t] = LeftOf(@)]
          /\ UNCHANGED <<confVars, mainVars, reply, closeEvent, winVars>>

\* cancelPendingConnections: every client of the connection that is dialing.
CancelPending ==
  LET pending == {t \in Tabs : proto = "ssh" /\ link[t].st = "dialing"} IN
  \/ /\ link' = [t \in Tabs |-> IF t \in pending THEN LeftOf(link[t]) ELSE link[t]]
     /\ reply' = [t \in Tabs |-> IF t \in pending /\ Awaiting(t) THEN "err" ELSE reply[t]]
  \/ /\ link' = [t \in Tabs |-> IF t \in pending
                                THEN [link[t] EXCEPT !.st = "lost"] ELSE link[t]]
     /\ UNCHANGED reply

\* What happens even if nobody acts; an open session goes on.
SshProgress(t) ==
  \/ JumpOpens(t) \/ JumpFails(t)
  \/ SshReady(t) \/ SshOpens(t) \/ SshFails(t) \/ SshVanishes(t) \/ SshEnds(t)

SshNext ==
  \E t \in Tabs :
    \/ JumpOpens(t) \/ JumpFails(t) \/ SshReady(t) \/ SshOpens(t) \/ SshFails(t)
    \/ SshVanishes(t) \/ SshCloses(t) \/ SftpChannelCloses(t) \/ SftpErrs(t) \/ SshEnds(t)
=============================================================================
