------------------------------ MODULE Registry ------------------------------
(***************************************************************************)
(* The main process's registry of active connections (state.js,            *)
(* messaging.js) and the operating-system processes its entries point to.  *)
(* RdpClient and Tunnel add the handlers of rdp.js and tunnel.js to it.    *)
(*                                                                         *)
(* All handlers run on one Node.js thread.  One action is everything that  *)
(* runs between two returns to the event loop: the code up to the next     *)
(* pending await, with the microtasks it queues.                           *)
(***************************************************************************)
EXTENDS Naturals, FiniteSets

CONSTANTS
  Conns,      \* ids of connections reached through a cloudflared tunnel
  RdpConns,   \* those with protocol rdp-cf; the others are ssh-cf
  Calls,      \* asynchronous invocations that can be in flight at once
  Procs,      \* cloudflared child processes
  Clients,    \* mstsc / xfreerdp child processes
  Loops,      \* polling loops of the RDP watcher
  NHosts,     \* loopback addresses 127.0.0.1 .. 127.0.0.NHosts (254)
  Platforms,  \* the values of process.platform considered
  Origins,    \* who asks for a connect: the renderer or the tray menu
  None        \* null / undefined

ASSUME RegistryAssumption ==
  /\ RdpConns \subseteq Conns
  /\ IsFiniteSet(Conns)
  /\ NHosts \in Nat \ {0}
  /\ Platforms \subseteq {"win32", "linux", "darwin"}
  /\ Origins \subseteq {"ipc", "tray"}
  /\ None \notin Conns \cup Procs \cup Clients \cup Loops

Host == 1..NHosts
Localhost == 0     \* the name "localhost", used when no entry is found

(* What ChildProcess.exitCode and the OS say of a child.  "killed": SIGTERM *)
(* was sent, the process still runs.  "exited" has an exit code (a spawn    *)
(* error sets a negative one); "signalled" is dead by a signal and has none.*)
ProcState == {"none", "running", "killed", "exited", "signalled"}

Entry == [proc : Procs \cup {None}, host : Host,
          mstscProc : Clients \cup {None}, rdpOpen : BOOLEAN]

ASSUME NoneIsNoEntry == None \notin Entry

VARIABLES
  platform,   \* process.platform, fixed at start
  active,     \* activeConnections: id -> entry, None if the id has none
  status,     \* connectionStatuses
  cf,         \* cloudflared processes
  client,     \* RDP client processes
  calls       \* frames suspended at an await

regVars == <<platform, active, status, cf, client, calls>>

Child == [st : ProcState, conn : Conns \cup {None}]
NoChild == [st |-> "none", conn |-> None]

(* pc: "port" awaits getFreeLocalPort, "ready" and "auth" await             *)
(* waitForCloudflaredReady before and after a login URL was seen, "prep"    *)
(* and "stored" await what precedes the spawn of the RDP client, "opening"  *)
(* is a running macOS `open` helper.                                        *)
Frame == [pc : {"idle", "port", "ready", "auth", "prep", "stored", "opening"},
          conn : Conns \cup {None}, origin : {"ipc", "tray", "launch"},
          host : Host \cup {Localhost}, proc : Procs \cup {None}]
Idle == [pc |-> "idle", conn |-> None, origin |-> "ipc",
         host |-> Localhost, proc |-> None]

RegTypeOK ==
  /\ platform \in Platforms
  /\ active \in [Conns -> Entry \cup {None}]
  /\ status \in [Conns -> {"disconnected", "connecting", "connected"}]
  /\ cf \in [Procs -> Child]
  /\ client \in [Clients -> Child]
  /\ calls \in [Calls -> Frame]

RegInit ==
  /\ platform \in Platforms
  /\ active = [c \in Conns |-> None]
  /\ status = [c \in Conns |-> "disconnected"]
  /\ cf = [p \in Procs |-> NoChild]
  /\ client = [q \in Clients |-> NoChild]
  /\ calls = [k \in Calls |-> Idle]

-----------------------------------------------------------------------------

HasEntry(c) == active[c] # None
Running(st) == st \in {"running", "killed"}

\* isProcessAlive, and the bare exitCode tests: a null exit code means alive.
NullExitCode(st) == st \in {"running", "killed", "signalled"}
CfAlive(c) ==
  HasEntry(c) /\ active[c].proc # None /\ NullExitCode(cf[active[c].proc].st)
MstscAlive(c) ==
  /\ HasEntry(c)
  /\ active[c].mstscProc # None
  /\ NullExitCode(client[active[c].mstscProc].st)

\* Windows reports a signal only for a process the program itself killed.
Endings(st) ==
  {"exited"} \cup IF platform = "win32" /\ st = "running" THEN {} ELSE {"signalled"}

(* A dead ChildProcess object exists as long as an entry of act refers to   *)
(* it; nothing else can tell it from an object that was never created.      *)
ProcHeld(p, act) == \E c \in Conns : act[c] # None /\ act[c].proc = p
ClientHeld(q, act) == \E c \in Conns : act[c] # None /\ act[c].mstscProc = q
Dead(how, held) == IF held THEN [st |-> how, conn |-> None] ELSE NoChild

FreeProcs == {p \in Procs : ~Running(cf[p].st) /\ ~ProcHeld(p, active)}
FreeClients ==
  {q \in Clients : ~Running(client[q].st) /\ ~ClientHeld(q, active)}

\* Mutants of the two definitions below: only live tunnels count as using
\* their host; the search runs one address too far.
UsedHostsLive == {active[c].host : c \in {d \in Conns : CfAlive(d)}}
PickOneTooFar(used) ==
  CHOOSE h \in (1..NHosts + 1) \ used : \A g \in (1..NHosts + 1) \ used : h <= g

UsedHosts == {active[c].host : c \in {d \in Conns : HasEntry(d)}}
PickLoopbackHost(used) ==
  IF Host \subseteq used
  THEN 1
  ELSE CHOOSE h \in Host \ used : \A g \in Host \ used : h <= g

\* ChildProcess.kill(): SIGTERM to a process that still runs.
Sigterm(children, q) ==
  IF q # None /\ children[q].st = "running"
  THEN [children EXCEPT ![q].st = "killed"]
  ELSE children
=============================================================================
