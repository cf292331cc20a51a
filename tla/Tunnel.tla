------------------------------- MODULE Tunnel -------------------------------
(***************************************************************************)
(* tunnel.js and its callers in actions.js, ipc.js and tray.js: starting   *)
(* cloudflared for a connection, waiting until it is ready, launching the  *)
(* RDP client over it, and stopping it, with every handler looking the     *)
(* connection's entry up by id when it runs.                               *)
(***************************************************************************)
EXTENDS RdpClient

vars == <<regVars, rdpVars>>

TypeOK == RegTypeOK /\ RdpTypeOK
Init == RegInit /\ RdpInit

(* Bound: a call starts only while a process object of each kind remains    *)
(* for every call in flight, so that no later step waits for one.           *)
RoomForCall ==
  LET busy == Cardinality({k \in Calls : calls[k].pc # "idle"}) IN
  busy < Cardinality(FreeProcs) /\ busy < Cardinality(FreeClients)

-----------------------------------------------------------------------------
(* startCloudflared *)

LoopbackHost ==
  IF platform = "darwin" THEN 1 ELSE PickLoopbackHost(UsedHosts)

\* The entry reserved before the first await.
Reservation ==
  [proc |-> None, host |-> LoopbackHost, mstscProc |-> None, rdpOpen |-> FALSE]

Connect(k, c, origin) ==
  /\ calls[k].pc = "idle" /\ RoomForCall
  /\ ~CfAlive(c)
  /\ active' = [active EXCEPT ![c] = Reservation]
  /\ status' = [status EXCEPT ![c] = "connecting"]
  /\ calls' = [calls EXCEPT ![k] =
                [pc |-> "port", conn |-> c, origin |-> origin,
                 host |-> LoopbackHost, proc |-> None]]
  /\ UNCHANGED <<platform, cf, client, rdpVars>>

\* A live tunnel is reused as it is; only the RDP client is launched again.
ConnectAgain(k, c, origin) ==
  /\ calls[k].pc = "idle" /\ RoomForCall
  /\ c \in RdpConns
  /\ CfAlive(c)
  /\ BeginLaunch(k, c, origin, active[c].host)
  /\ UNCHANGED <<platform, active, status, cf, client, cred>>

\* Mutant: no caller reports a rejected connect.
RejectUnreported(k, st) == st

\* The ipc handler reports a rejected connect; the tray swallows it.
StatusOnReject(k, st) ==
  IF calls[k].origin = "ipc"
  THEN [st EXCEPT ![calls[k].conn] = "disconnected"]
  ELSE st

Reject(k) ==
  /\ calls' = [calls EXCEPT ![k] = Idle]
  /\ status' = StatusOnReject(k, status)

\* getFreeLocalPort failed: the reservation is released.
PortFailed(k) ==
  /\ calls[k].pc = "port"
  /\ active' = [active EXCEPT ![calls[k].conn] = None]
  /\ Reject(k)
  /\ UNCHANGED <<platform, cf, client, rdpVars>>

\* "Connection cancelled": the reservation is gone when the port arrives.
Cancelled(k) ==
  /\ calls[k].pc = "port"
  /\ ~HasEntry(calls[k].conn)
  /\ Reject(k)
  /\ UNCHANGED <<platform, active, cf, client, rdpVars>>

\* spawn; a spawn error rejects waitForCloudflaredReady on the next tick.
Spawn(k) ==
  LET c == calls[k].conn IN
  /\ calls[k].pc = "port"
  /\ HasEntry(c)
  /\ \E p \in FreeProcs :
       /\ active' = [active EXCEPT ![c].proc = p]
       /\ \/ /\ cf' = [cf EXCEPT ![p] = [st |-> "running", conn |-> c]]
             /\ calls' = [calls EXCEPT ![k] = [@ EXCEPT !.pc = "ready", !.proc = p]]
             /\ UNCHANGED status
          \/ /\ cf' = [cf EXCEPT ![p] = Dead("exited", TRUE)]
             /\ Reject(k)
  /\ UNCHANGED <<platform, client, rdpVars>>

-----------------------------------------------------------------------------
(* waitForCloudflaredReady.  Its fallback timer is always armed: 1800 ms at *)
(* first, 45 s from the moment a login URL is seen.                         *)

Waiting(k) == calls[k].pc \in {"ready", "auth"}

AuthUrl(k) ==
  /\ calls[k].pc = "ready"
  /\ calls' = [calls EXCEPT ![k].pc = "auth"]
  /\ UNCHANGED <<platform, active, status, cf, client, rdpVars>>

\* Mutant of the next definition: the entry is not looked up again.
StatusWhenUpUnchecked(c) == [status EXCEPT ![c] = "connected"]

StatusWhenUp(c) ==
  IF HasEntry(c) THEN [status EXCEPT ![c] = "connected"] ELSE status

\* What the connect call does once the wait resolves.
TunnelUp(k) ==
  LET c == calls[k].conn IN
  /\ status' = StatusWhenUp(c)
  /\ IF c \in RdpConns
     THEN BeginLaunch(k, c, calls[k].origin,
                      IF HasEntry(c) THEN active[c].host ELSE Localhost)
     ELSE /\ calls' = [calls EXCEPT ![k] = Idle]
          /\ UNCHANGED <<loops, watcher>>
  /\ UNCHANGED <<platform, active, cf, client, cred>>

ReadyLine(k) == Waiting(k) /\ TunnelUp(k)

\* Mutant: a login URL cancels the 1800 ms timer and arms no other.
TimerPendingNoRearm(k) == calls[k].pc = "ready"

TimerPending(k) == Waiting(k)
FallbackTimer(k) == TimerPending(k) /\ TunnelUp(k)

\* A line on stderr that looks like an error; the process is left alone.
ErrorLine(k) ==
  /\ Waiting(k)
  /\ Reject(k)
  /\ UNCHANGED <<platform, active, cf, client, rdpVars>>

\* Mutant: the entry of a client still open keeps its dead tunnel.
AfterCfExitKeepsProc(c) ==
  IF MstscAlive(c) THEN active ELSE [active EXCEPT ![c] = None]

AfterCfExit(c) ==
  IF MstscAlive(c)
  THEN [active EXCEPT ![c].proc = None]
  ELSE [active EXCEPT ![c] = None]

\* The persistent exit handler, then the onExit of a pending wait.
CfExit(p) ==
  LET c == cf[p].conn
      waiters == {k \in Calls : Waiting(k) /\ calls[k].proc = p}
  IN
  /\ Running(cf[p].st)
  /\ active' = AfterCfExit(c)
  /\ \E how \in Endings(cf[p].st) :
       cf' = [cf EXCEPT ![p] = Dead(how, ProcHeld(p, active'))]
  /\ status' = IF MstscAlive(c) /\ \A k \in waiters : calls[k].origin # "ipc"
               THEN status
               ELSE [status EXCEPT ![c] = "disconnected"]
  /\ calls' = [k \in Calls |-> IF k \in waiters THEN Idle ELSE calls[k]]
  /\ UNCHANGED <<platform, client, rdpVars>>

-----------------------------------------------------------------------------
(* stopConnection, reached from disconnect, delete-connection and the tray *)

StopConnection(c) ==
  /\ IF HasEntry(c)
     THEN /\ client' = Sigterm(client, active[c].mstscProc)
          /\ cf' = Sigterm(cf, active[c].proc)
          /\ cred' = IF platform = "win32" /\ c \in RdpConns
                     THEN [cred EXCEPT ![active[c].host] = None]
                     ELSE cred
     ELSE UNCHANGED <<client, cf, cred>>
  /\ active' = [active EXCEPT ![c] = None]
  /\ status' = [status EXCEPT ![c] = "disconnected"]
  /\ UNCHANGED <<platform, calls, loops, watcher>>

\* The launch-rdp handler.
LaunchRdp(k, c) ==
  /\ calls[k].pc = "idle" /\ RoomForCall
  /\ c \in RdpConns
  /\ CfAlive(c)
  /\ BeginLaunch(k, c, "launch", active[c].host)
  /\ UNCHANGED <<platform, active, status, cf, client, cred>>

Next ==
  \/ \E k \in Calls, c \in Conns :
       \/ \E origin \in Origins : \/ Connect(k, c, origin)
                                  \/ ConnectAgain(k, c, origin)
       \/ LaunchRdp(k, c)
  \/ \E k \in Calls : \/ PortFailed(k) \/ Cancelled(k) \/ Spawn(k)
                      \/ AuthUrl(k) \/ ReadyLine(k) \/ FallbackTimer(k)
                      \/ ErrorLine(k)
  \/ \E p \in Procs : CfExit(p)
  \/ \E c \in Conns : StopConnection(c)
  \/ RdpNext

(* Timers fire and the operating system answers: a port request, a timer    *)
(* that is armed, the commands awaited before the client is spawned, and a  *)
(* poll.  Nothing makes a user act, a line appear or a child exit.          *)
Fairness ==
  /\ \A k \in Calls :
       /\ WF_vars(Spawn(k) \/ Cancelled(k) \/ PortFailed(k))
       /\ WF_vars(FallbackTimer(k))
       /\ WF_vars(SpawnClient(k) \/ NoClient(k) \/ OpenRdpFile(k))
       /\ WF_vars(OpenEnds(k))
  /\ \A l \in Loops : WF_vars(PollStarts(l)) /\ WF_vars(PollAnswers(l))

Spec == Init /\ [][Next]_vars
FairSpec == Spec /\ Fairness

-----------------------------------------------------------------------------
(* Properties *)

(* Simultaneous tunnels never share a loopback host, whatever connects,     *)
(* failures and stops overlap with the awaits of startCloudflared: the host *)
(* is reserved before the first await.  macOS has one loopback host only.   *)
HostsDistinct ==
  platform # "darwin" =>
    \A c, d \in Conns :
      c # d /\ HasEntry(c) /\ HasEntry(d) => active[c].host # active[d].host

(* isProcessAlive takes a null exit code for life, which is also what a     *)
(* process killed by a signal has.  The reuse test of startCloudflared and  *)
(* the guard of launch-rdp are right all the same: the exit handler leaves  *)
(* no entry that points to a dead process with a null exit code.            *)
AliveMeansRunning ==
  \A c \in Conns :
    CfAlive(c) => /\ cf[active[c].proc].st = "running"
                  /\ cf[active[c].proc].conn = c

(* A connection shown as connected is in the registry, so that it can be    *)
(* stopped.  For connects from the renderer, whose failures are reported.   *)
ConnectedHasEntry == \A c \in Conns : status[c] = "connected" => HasEntry(c)

(* "connected" never outlives the connection: while it is shown, some child *)
(* process of the connection runs (a tunnel, tracked or not, or its RDP     *)
(* client), so an exit handler is still to come that will correct it.       *)
BackedByChild(c) ==
  \/ \E p \in Procs : Running(cf[p].st) /\ cf[p].conn = c
  \/ \E q \in Clients : Running(client[q].st) /\ client[q].conn = c
AlwaysBacked == \A c \in Conns : status[c] = "connected" => BackedByChild(c)

(* The same where it holds.  On Linux it does not (AlwaysBacked).           *)
ConnectedIsBacked == platform # "linux" => AlwaysBacked

(* What stopConnection deletes the stored credential for: none is left of a *)
(* connection that is neither active nor being connected.                   *)
CredentialsRemoved ==
  \A h \in Host \cup {Localhost} :
    cred[h] # None => \/ HasEntry(cred[h])
                      \/ \E k \in Calls : calls[k].conn = cred[h]

(* Every connect or launch settles, whatever cloudflared prints or does not *)
(* print: some timer is armed as long as the wait lasts.                    *)
CallsSettle == \A k \in Calls : calls[k].pc # "idle" ~> calls[k].pc = "idle"

(* A connection does not stay "connecting": each path out of a connect from *)
(* the renderer ends in connected or disconnected, also when connects of    *)
(* the same id overlap and overwrite each other's reservation.              *)
ConnectingSettles ==
  \A c \in Conns : status[c] = "connecting" ~> status[c] # "connecting"

(* stopConnection does not stop the watcher; its loops, those that lost     *)
(* their handle in rdpWatchers included, still end once the connection is   *)
(* gone for good.                                                           *)
LoopsEnd ==
  \A c \in Conns :
    <>[](~HasEntry(c)) => <>[](\A l \in Loops : loops[l].conn # c)
=============================================================================
