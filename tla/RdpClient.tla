----------------------------- MODULE RdpClient ------------------------------
(***************************************************************************)
(* rdp.js for tunnelled connections: storing the Windows credential,       *)
(* spawning the RDP client, its exit handler, and the watcher that polls   *)
(* for an external client once the spawned one is gone.                    *)
(***************************************************************************)
EXTENDS Registry

VARIABLES
  cred,      \* Credential Manager: loopback host -> owner of TERMSRV/<host>
  loops,     \* polling loops started by startRdpWatcher
  watcher    \* rdpWatchers: id -> loop whose timer handle was stored last

rdpVars == <<cred, loops, watcher>>

Loop == [st : {"off", "armed", "checking"}, conn : Conns \cup {None}]
LoopOff == [st |-> "off", conn |-> None]

RdpTypeOK ==
  /\ cred \in [Host \cup {Localhost} -> Conns \cup {None}]
  /\ loops \in [Loops -> Loop]
  /\ watcher \in [Conns -> Loops \cup {None}]

RdpInit ==
  /\ cred = [h \in Host \cup {Localhost} |-> None]
  /\ loops = [l \in Loops |-> LoopOff]
  /\ watcher = [c \in Conns |-> None]

-----------------------------------------------------------------------------
(* The watcher map.  clearTimeout acts on the stored handle only: a loop    *)
(* whose timer has fired, or whose handle was overwritten, is not stopped.  *)

LoopsWithoutHandle(c) ==
  IF watcher[c] # None /\ loops[watcher[c]].st = "armed"
  THEN [loops EXCEPT ![watcher[c]] = LoopOff]
  ELSE loops

StopRdpWatcher(c) ==
  /\ loops' = LoopsWithoutHandle(c)
  /\ watcher' = [watcher EXCEPT ![c] = None]

StartRdpWatcher(c) ==
  \E l \in Loops :
    /\ LoopsWithoutHandle(c)[l].st = "off"
    /\ loops' = [LoopsWithoutHandle(c) EXCEPT ![l] = [st |-> "armed", conn |-> c]]
    /\ watcher' = [watcher EXCEPT ![c] = l]

\* Mutant: the loop drops its handle but goes on polling.
LoopEndsMapOnly(l) ==
  /\ UNCHANGED loops
  /\ watcher' = [watcher EXCEPT ![loops[l].conn] = None]

\* A poll that finds nothing left to watch deletes the map entry of its id.
LoopEnds(l) ==
  /\ loops' = [loops EXCEPT ![l] = LoopOff]
  /\ watcher' = [watcher EXCEPT ![loops[l].conn] = None]

Watchable(c) == CfAlive(c) /\ ~MstscAlive(c)

PollStarts(l) ==
  /\ loops[l].st = "armed"
  /\ IF Watchable(loops[l].conn)
     THEN /\ loops' = [loops EXCEPT ![l].st = "checking"]
          /\ UNCHANGED watcher
     ELSE LoopEnds(l)
  /\ UNCHANGED <<regVars, cred>>

\* An external client that appears replaces the one that was spawned.
Observed(e, isActive) ==
  [e EXCEPT !.mstscProc = IF isActive /\ ~e.rdpOpen THEN None ELSE @,
            !.rdpOpen = isActive]

\* checkRdpActive answers; the entry is read again before it is used.
PollAnswers(l) ==
  LET c == loops[l].conn IN
  /\ loops[l].st = "checking"
  /\ IF Watchable(c)
     THEN /\ \E isActive \in BOOLEAN :
               active' = [active EXCEPT ![c] = Observed(@, isActive)]
          /\ loops' = [loops EXCEPT ![l].st = "armed"]
          /\ watcher' = [watcher EXCEPT ![c] = l]
     ELSE LoopEnds(l) /\ UNCHANGED active
  /\ UNCHANGED <<platform, status, cf, client, calls, cred>>

-----------------------------------------------------------------------------
(* launchRemoteDesktop *)

\* Its first part, run by a frame k that has just reached the call.
BeginLaunch(k, c, origin, host) ==
  /\ calls' = [calls EXCEPT ![k] =
                [pc |-> "prep", conn |-> c, origin |-> origin,
                 host |-> host, proc |-> None]]
  /\ StopRdpWatcher(c)

\* The cmdkey /add issued by storeCredential takes effect.
StoreCredential(k) ==
  /\ platform = "win32"
  /\ calls[k].pc = "prep"
  /\ cred' = [cred EXCEPT ![calls[k].host] = calls[k].conn]
  /\ calls' = [calls EXCEPT ![k].pc = "stored"]
  /\ UNCHANGED <<platform, active, status, cf, client, loops, watcher>>

\* The client q of c starts or cannot be spawned; the entry gets it anyway.
AttachClient(q, st, c) ==
  /\ client' = [client EXCEPT ![q] =
       IF st = "running" THEN [st |-> st, conn |-> c] ELSE Dead(st, HasEntry(c))]
  /\ active' = IF HasEntry(c)
               THEN [active EXCEPT ![c] = [@ EXCEPT !.mstscProc = q, !.rdpOpen = TRUE]]
               ELSE active

(* mstsc on Windows (from "prep" when there is nothing to store, or cmdkey  *)
(* failed or timed out), the FreeRDP binary on Linux.                       *)
SpawnClient(k) ==
  /\ \/ platform = "win32" /\ calls[k].pc \in {"prep", "stored"}
     \/ platform = "linux" /\ calls[k].pc = "prep"
  /\ \E q \in FreeClients, st \in {"running", "exited"} :
       AttachClient(q, st, calls[k].conn)
  /\ calls' = [calls EXCEPT ![k] = Idle]
  /\ UNCHANGED <<platform, status, cf, rdpVars>>

\* No FreeRDP on Linux, or the .rdp file cannot be written on macOS.
NoClient(k) ==
  /\ platform \in {"linux", "darwin"}
  /\ calls[k].pc = "prep"
  /\ calls' = [calls EXCEPT ![k] = Idle]
  /\ UNCHANGED <<platform, active, status, cf, client, rdpVars>>

\* macOS hands the .rdp file to `open`; the watcher starts when that exits.
OpenRdpFile(k) ==
  LET c == calls[k].conn IN
  /\ platform = "darwin"
  /\ calls[k].pc = "prep"
  /\ active' = IF HasEntry(c)
               THEN [active EXCEPT ![c] = [@ EXCEPT !.mstscProc = None, !.rdpOpen = FALSE]]
               ELSE active
  /\ calls' = [calls EXCEPT ![k].pc = "opening"]
  /\ UNCHANGED <<platform, status, cf, client, rdpVars>>

OpenEnds(k) ==
  /\ calls[k].pc = "opening"
  /\ calls' = [calls EXCEPT ![k] = Idle]
  /\ \/ StartRdpWatcher(calls[k].conn)
     \/ UNCHANGED <<loops, watcher>>       \* spawn error: only reported
  /\ UNCHANGED <<platform, active, status, cf, client, cred>>

\* Mutant: without a tunnel the entry goes and the status is forgotten.
OnRdpExitSilently(c) ==
  IF CfAlive(c)
  THEN /\ active' = [active EXCEPT ![c].rdpOpen = FALSE]
       /\ StartRdpWatcher(c)
       /\ UNCHANGED status
  ELSE active' = [active EXCEPT ![c] = None] /\ UNCHANGED <<status, loops, watcher>>

\* onRdpExit looks the entry up by id, whichever client the entry holds now.
OnRdpExit(c) ==
  IF CfAlive(c)
  THEN /\ active' = [active EXCEPT ![c].rdpOpen = FALSE]
       /\ StartRdpWatcher(c)
       /\ UNCHANGED status
  ELSE /\ active' = [active EXCEPT ![c] = None]
       /\ status' = [status EXCEPT ![c] = "disconnected"]
       /\ UNCHANGED <<loops, watcher>>

ClientExit(q) ==
  /\ Running(client[q].st)
  /\ OnRdpExit(client[q].conn)
  /\ \E how \in Endings(client[q].st) :
       client' = [client EXCEPT ![q] = Dead(how, ClientHeld(q, active'))]
  /\ UNCHANGED <<platform, cf, calls, cred>>

RdpNext ==
  \/ \E l \in Loops : PollStarts(l) \/ PollAnswers(l)
  \/ \E k \in Calls : \/ StoreCredential(k) \/ SpawnClient(k) \/ NoClient(k)
                      \/ OpenRdpFile(k) \/ OpenEnds(k)
  \/ \E q \in Clients : ClientExit(q)
=============================================================================
