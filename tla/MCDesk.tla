------------------------------- MODULE MCDesk -------------------------------
(***************************************************************************)
(* Seven parts of the desktop that share no state, side by side: `part` says *)
(* which one a behaviour is about; the others stay as they were at the     *)
(* start, where nothing of theirs is under way.                            *)
(***************************************************************************)
EXTENDS SftpPanel, Views, DebugPoll, TelnetWire, Logger, SignIn, DirectRdp

(* The stream of a Telnet session is made of these pieces, whole commands   *)
(* and broken ones; a chunk is one piece or two.                            *)
Pieces == {<<97>>, <<IAC, IAC>>, <<IAC, WILL, ECHO>>, <<IAC, WONT, ECHO>>,
           <<IAC, DO, NAWS>>, <<IAC, DO, ECHO>>,
           <<IAC, SB, TTYPE, SEND, IAC, SE>>, <<IAC, SB, NAWS>>,
           <<IAC, SB, IAC, IAC, SE, 97, IAC, SE>>, <<IAC, SE>>, <<IAC>>}
MCChunks == Pieces \cup {p \o q : p \in Pieces, q \in Pieces}
\* An ordinary character, and one whose low byte is 255.
MCInputs == {<<97>>, <<511>>}

VARIABLE part

deskVars == <<part, sftpVars, viewsVars, debugVars, telnetVars, logVars, signInVars, directVars>>

Parts == {"sftp", "views", "debug", "telnet", "log", "signin", "direct"}

DeskInit ==
  /\ part \in Parts
  /\ SftpInit /\ ViewsInit /\ DebugInit /\ LoggerInit /\ SignInInit /\ DirectInit
  /\ TelnetInit
  /\ part # "telnet" => cols = 80
  /\ part # "direct" => directOs = "linux"

SftpPart ==
  /\ part = "sftp" /\ SftpNext
  /\ UNCHANGED <<part, viewsVars, debugVars, telnetVars, logVars, signInVars, directVars>>
ViewsPart ==
  /\ part = "views" /\ ViewsNext
  /\ UNCHANGED <<part, sftpVars, debugVars, telnetVars, logVars, signInVars, directVars>>
DebugPart ==
  /\ part = "debug" /\ DebugNext
  /\ UNCHANGED <<part, sftpVars, viewsVars, telnetVars, logVars, signInVars, directVars>>
TelnetPart ==
  /\ part = "telnet" /\ TelnetWireNext
  /\ UNCHANGED <<part, sftpVars, viewsVars, debugVars, logVars, signInVars, directVars>>
LogPart ==
  /\ part = "log" /\ LoggerNext
  /\ UNCHANGED <<part, sftpVars, viewsVars, debugVars, telnetVars, signInVars, directVars>>
SignInPart ==
  /\ part = "signin" /\ SignInNext
  /\ UNCHANGED <<part, sftpVars, viewsVars, debugVars, telnetVars, logVars, directVars>>

DirectPart ==
  /\ part = "direct" /\ DirectNext
  /\ UNCHANGED <<part, sftpVars, viewsVars, debugVars, telnetVars, logVars, signInVars>>

DeskNext ==
  \/ SftpPart \/ ViewsPart \/ DebugPart \/ TelnetPart
  \/ LogPart \/ SignInPart \/ DirectPart

DeskSpec ==
  /\ DeskInit /\ [][DeskNext]_deskVars
  /\ SftpFairness /\ DebugFairness /\ DirectFairness

DeskTypeOK ==
  /\ part \in Parts
  /\ SftpTypeOK /\ ViewsTypeOK /\ DebugTypeOK
  /\ TelnetTypeOK /\ LoggerTypeOK /\ SignInTypeOK /\ DirectTypeOK
=============================================================================
