---------------------------- MODULE TunnelProofs ----------------------------
(***************************************************************************)
(* Theorems about Tunnel, for any number of connections, calls, processes  *)
(* and polling loops.                                                      *)
(***************************************************************************)
EXTENDS Tunnel, FiniteSetTheorems, WellFoundedInduction, TLAPS

-----------------------------------------------------------------------------
(* pickLoopbackHost *)

(* A nonempty set of natural numbers has a least element.                   *)
LEMMA LeastElement ==
  ASSUME NEW S \in SUBSET Nat, S # {}
  PROVE  \E h \in S : \A g \in S : h <= g
<1>1. PICK h \in S : \A g \in S : ~(<<g, h>> \in OpToRel(<, Nat))
  BY WFMin, NatLessThanWellFounded, Zenon
<1>2. \A g \in S : ~(g < h)
  BY <1>1, Zenon DEF OpToRel
<1> QED
  BY <1>2

(* pickLoopbackHost returns an address of its range, and one that is not in *)
(* use unless all are.                                                      *)
LEMMA PickLoopbackHostPicks ==
  ASSUME NEW used
  PROVE  /\ PickLoopbackHost(used) \in Host
         /\ ~(Host \subseteq used) => PickLoopbackHost(used) \notin used
<1>1. CASE Host \subseteq used
  BY <1>1, RegistryAssumption DEF PickLoopbackHost, Host
<1>2. CASE ~(Host \subseteq used)
  <2> DEFINE S == Host \ used
  <2>1. S \in SUBSET Nat /\ S # {}
    BY <1>2 DEF Host
  <2>2. \E h \in S : \A g \in S : h <= g
    BY <2>1, LeastElement
  <2>3. PickLoopbackHost(used) \in S
    BY <1>2, <2>2 DEF PickLoopbackHost
  <2> QED
    BY <2>3
<1> QED
  BY <1>1, <1>2

(* Fewer connections than addresses leave an address free: the registry has *)
(* at most one entry per connection.                                        *)
LEMMA SomeHostFree ==
  ASSUME Cardinality(Conns) < NHosts
  PROVE  ~(Host \subseteq UsedHosts)
<1>1. SUFFICES ASSUME Host \subseteq UsedHosts PROVE FALSE
  OBVIOUS
<1> DEFINE owner == [h \in Host |-> CHOOSE c \in Conns : HasEntry(c) /\ active[c].host = h]
<1>2. \A h \in Host : owner[h] \in Conns /\ active[owner[h]].host = h
  BY <1>1 DEF UsedHosts
<1>3. owner \in [Host -> Conns]
  BY <1>2
<1>4. IsFiniteSet(Host) /\ Cardinality(Host) = NHosts
  BY FS_Interval, RegistryAssumption DEF Host
<1>5. IsFiniteSet(Conns) /\ Cardinality(Conns) < Cardinality(Host)
  BY <1>4, RegistryAssumption
<1> HIDE DEF owner
<1>6. \E g, h \in Host : g # h /\ owner[g] = owner[h]
  BY <1>3, <1>4, <1>5, FS_PigeonHole, Zenon
<1> QED
  BY <1>2, <1>6

-----------------------------------------------------------------------------
(* Types *)

(* What is in flight belongs to a connection.                               *)
Owned ==
  /\ \A k \in Calls : calls[k].pc # "idle" => calls[k].conn \in Conns
  /\ \A k \in Calls : Waiting(k) => calls[k].proc \in Procs
  /\ \A p \in Procs : Running(cf[p].st) => cf[p].conn \in Conns
  /\ \A q \in Clients : Running(client[q].st) => client[q].conn \in Conns
  /\ \A l \in Loops : loops[l].st # "off" => loops[l].conn \in Conns

TypeInv == TypeOK /\ Owned

LEMMA InitTypeInv == Init => TypeInv
BY RegistryAssumption DEF Init, RegInit, RdpInit, TypeInv, TypeOK, RegTypeOK,
   RdpTypeOK, Owned, Idle, Frame, NoChild, Child, LoopOff, Loop, ProcState,
   Waiting, Running, Localhost

LEMMA ReservationType == TypeInv => Reservation \in Entry
BY PickLoopbackHostPicks, RegistryAssumption
   DEF Reservation, Entry, LoopbackHost, Host

(* The watcher's operations, which several actions call.                    *)
LEMMA StopRdpWatcherType ==
  ASSUME TypeInv, NEW c \in Conns, StopRdpWatcher(c)
  PROVE  /\ loops' \in [Loops -> Loop]
         /\ watcher' \in [Conns -> Loops \cup {None}]
         /\ \A l \in Loops : loops'[l].st # "off" => loops'[l].conn \in Conns
BY DEF TypeInv, TypeOK, RdpTypeOK, Owned, StopRdpWatcher, LoopsWithoutHandle,
       Loop, LoopOff

LEMMA StartRdpWatcherType ==
  ASSUME TypeInv, NEW c \in Conns, StartRdpWatcher(c)
  PROVE  /\ loops' \in [Loops -> Loop]
         /\ watcher' \in [Conns -> Loops \cup {None}]
         /\ \A l \in Loops : loops'[l].st # "off" => loops'[l].conn \in Conns
BY DEF TypeInv, TypeOK, RdpTypeOK, Owned, StartRdpWatcher, LoopsWithoutHandle,
       Loop, LoopOff

LEMMA LoopEndsType ==
  ASSUME TypeInv, NEW l \in Loops, LoopEnds(l)
  PROVE  /\ loops' \in [Loops -> Loop]
         /\ watcher' \in [Conns -> Loops \cup {None}]
         /\ \A m \in Loops : loops'[m].st # "off" => loops'[m].conn \in Conns
BY DEF TypeInv, TypeOK, RdpTypeOK, Owned, LoopEnds, Loop, LoopOff

LEMMA BeginLaunchType ==
  ASSUME TypeInv, NEW c \in Conns, NEW k \in Calls, NEW host \in Host \cup {Localhost},
         NEW origin \in {"ipc", "tray", "launch"},
         BeginLaunch(k, c, origin, host)
  PROVE  /\ calls' \in [Calls -> Frame]
         /\ \A j \in Calls : calls'[j].pc # "idle" => calls'[j].conn \in Conns
         /\ \A j \in Calls : calls'[j].pc \in {"ready", "auth"} => calls'[j].proc \in Procs
BY DEF TypeInv, TypeOK, RegTypeOK, Owned, BeginLaunch, Frame, Waiting

(* Updates of an entry that exists.                                         *)
Registered == [Conns -> Entry \cup {None}]

LEMMA EntryUpdateType ==
  ASSUME TypeInv, NEW c \in Conns, HasEntry(c)
  PROVE  /\ \A p \in Procs \cup {None} : [active EXCEPT ![c].proc = p] \in Registered
         /\ \A q \in Clients \cup {None}, b \in BOOLEAN :
              [active EXCEPT ![c] = [@ EXCEPT !.mstscProc = q, !.rdpOpen = b]] \in Registered
         /\ \A b \in BOOLEAN : [active EXCEPT ![c].rdpOpen = b] \in Registered
<1>1. active \in Registered /\ active[c] \in Entry
  BY DEF TypeInv, TypeOK, RegTypeOK, HasEntry, Registered
<1>2. \A e \in Entry : [active EXCEPT ![c] = e] \in Registered
  BY <1>1 DEF Registered
<1>3. /\ \A p \in Procs \cup {None} : [active[c] EXCEPT !.proc = p] \in Entry
      /\ \A q \in Clients \cup {None}, b \in BOOLEAN :
           [active[c] EXCEPT !.mstscProc = q, !.rdpOpen = b] \in Entry
      /\ \A b \in BOOLEAN : [active[c] EXCEPT !.rdpOpen = b] \in Entry
  BY <1>1 DEF Entry
<1>4. \A p : [active EXCEPT ![c].proc = p]
             = [active EXCEPT ![c] = [active[c] EXCEPT !.proc = p]]
  BY <1>1 DEF Registered
<1>5. \A q, b : [active EXCEPT ![c] = [@ EXCEPT !.mstscProc = q, !.rdpOpen = b]]
                = [active EXCEPT ![c] = [active[c] EXCEPT !.mstscProc = q, !.rdpOpen = b]]
  OBVIOUS
<1>6. \A b : [active EXCEPT ![c].rdpOpen = b]
             = [active EXCEPT ![c] = [active[c] EXCEPT !.rdpOpen = b]]
  BY <1>1 DEF Registered
<1> QED
  BY <1>2, <1>3, <1>4, <1>5, <1>6

LEMMA ObservedType ==
  ASSUME NEW e \in Entry, NEW b \in BOOLEAN
  PROVE  /\ Observed(e, b) \in Entry
         /\ Observed(e, b).host = e.host
         /\ Observed(e, b).proc = e.proc
         /\ Observed(e, b).mstscProc \in {None, e.mstscProc}
BY DEF Observed, Entry

LEMMA ReadyFrameType ==
  ASSUME NEW f \in Frame, NEW p \in Procs
  PROVE  [f EXCEPT !.pc = "ready", !.proc = p] \in Frame
BY DEF Frame

(* SIGTERM changes no owner and ends no process at once.                    *)
Killed(new, old, S, q) ==
  /\ new \in [S -> Child]
  /\ \A r \in S : /\ new[r].conn = old[r].conn
                  /\ Running(new[r].st) <=> Running(old[r].st)
                  /\ new[r] = old[r] \/ (r = q /\ old[r].st = "running")

LEMMA SigtermKeeps ==
  ASSUME NEW S, NEW children \in [S -> Child], NEW q
  PROVE  Killed(Sigterm(children, q), children, S, q)
<1>1. CASE q # None /\ children[q].st = "running"
  <2>1. Sigterm(children, q) = [children EXCEPT ![q].st = "killed"]
    BY <1>1 DEF Sigterm
  <2>2. \A r \in S : r # q => Sigterm(children, q)[r] = children[r]
    BY <2>1
  <2>3. q \in S => Sigterm(children, q)[q] = [children[q] EXCEPT !.st = "killed"]
    BY <2>1
  <2>4. \A r \in S : children[r] \in Child
    OBVIOUS
  <2>5. q \in S => /\ Sigterm(children, q)[q] \in Child
                  /\ Sigterm(children, q)[q].conn = children[q].conn
                  /\ Sigterm(children, q)[q].st = "killed"
    BY <2>3, <2>4 DEF Child, ProcState
  <2>6. Sigterm(children, q) \in [S -> Child]
    BY <2>1, <2>2, <2>4, <2>5
  <2>7. ASSUME NEW r \in S
        PROVE  /\ Sigterm(children, q)[r].conn = children[r].conn
               /\ Running(Sigterm(children, q)[r].st) <=> Running(children[r].st)
               /\ Sigterm(children, q)[r] = children[r] \/ (r = q /\ children[r].st = "running")
    <3>1. CASE r = q
      BY <1>1, <2>5, <3>1 DEF Running
    <3>2. CASE r # q
      BY <2>2, <3>2
    <3> QED
      BY <3>1, <3>2
  <2> QED
    BY <2>6, <2>7 DEF Killed
<1>2. CASE ~(q # None /\ children[q].st = "running")
  BY <1>2 DEF Sigterm, Killed
<1> QED
  BY <1>1, <1>2

LEMMA NextTypeInv ==
  ASSUME TypeInv, [Next]_vars
  PROVE  TypeInv'
<1> USE DEF TypeInv, TypeOK, RegTypeOK, RdpTypeOK, Owned, Waiting
<1>1. ASSUME NEW k \in Calls, NEW c \in Conns, NEW origin \in Origins,
             Connect(k, c, origin)
      PROVE  TypeInv'
  BY <1>1, ReservationType, RegistryAssumption
     DEF Connect, rdpVars, Frame, Reservation, Entry
<1>2. ASSUME NEW k \in Calls, NEW c \in Conns, NEW origin \in Origins,
             ConnectAgain(k, c, origin)
      PROVE  TypeInv'
  <2>1. active[c].host \in Host /\ origin \in {"ipc", "tray", "launch"}
    BY <1>2, RegistryAssumption DEF ConnectAgain, CfAlive, HasEntry, Entry
  <2> QED
    BY <1>2, <2>1, BeginLaunchType, StopRdpWatcherType DEF ConnectAgain, BeginLaunch
<1>3. ASSUME NEW k \in Calls, NEW c \in Conns, LaunchRdp(k, c)
      PROVE  TypeInv'
  <2>1. active[c].host \in Host
    BY <1>3 DEF LaunchRdp, CfAlive, HasEntry, Entry
  <2> QED
    BY <1>3, <2>1, BeginLaunchType, StopRdpWatcherType DEF LaunchRdp, BeginLaunch
<1>4. ASSUME NEW k \in Calls, PortFailed(k)
      PROVE  TypeInv'
  BY <1>4 DEF PortFailed, Reject, StatusOnReject, rdpVars, Idle, Frame
<1>5. ASSUME NEW k \in Calls, Cancelled(k)
      PROVE  TypeInv'
  BY <1>5 DEF Cancelled, Reject, StatusOnReject, rdpVars, Idle, Frame
<1>6. ASSUME NEW k \in Calls, Spawn(k)
      PROVE  TypeInv'
  <2> DEFINE c == calls[k].conn
  <2>1. c \in Conns /\ HasEntry(c)
    BY <1>6 DEF Spawn
  <2>2. PICK p \in Procs :
          /\ active' = [active EXCEPT ![c].proc = p]
          /\ \/ /\ cf' = [cf EXCEPT ![p] = [st |-> "running", conn |-> c]]
                /\ calls' = [calls EXCEPT ![k] = [@ EXCEPT !.pc = "ready", !.proc = p]]
                /\ UNCHANGED status
             \/ /\ cf' = [cf EXCEPT ![p] = Dead("exited", TRUE)]
                /\ Reject(k)
    BY <1>6 DEF Spawn, FreeProcs
  <2>3. active' \in [Conns -> Entry \cup {None}]
    BY <2>1, <2>2, EntryUpdateType DEF Registered
  <2>4. CASE /\ cf' = [cf EXCEPT ![p] = [st |-> "running", conn |-> c]]
             /\ calls' = [calls EXCEPT ![k] = [@ EXCEPT !.pc = "ready", !.proc = p]]
             /\ UNCHANGED status
    <3>1. [calls[k] EXCEPT !.pc = "ready", !.proc = p] \in Frame
      BY ReadyFrameType
    <3>2. calls' \in [Calls -> Frame] /\ cf' \in [Procs -> Child]
      BY <2>1, <2>4, <3>1 DEF Child, ProcState
    <3> QED
      BY <1>6, <2>1, <2>3, <2>4, <3>2 DEF Spawn, rdpVars, Running
  <2>5. CASE cf' = [cf EXCEPT ![p] = Dead("exited", TRUE)] /\ Reject(k)
    <3>1. calls' \in [Calls -> Frame] /\ cf' \in [Procs -> Child]
      BY <2>5 DEF Frame, Child, ProcState, Dead, Reject, Idle
    <3>2. status' \in [Conns -> {"disconnected", "connecting", "connected"}]
      BY <2>5 DEF Reject, StatusOnReject
    <3> QED
      BY <1>6, <2>1, <2>3, <2>5, <3>1, <3>2 DEF Spawn, rdpVars, Running, Dead, Reject, Idle
  <2> QED
    BY <2>2, <2>4, <2>5
<1>7. ASSUME NEW k \in Calls, AuthUrl(k)
      PROVE  TypeInv'
  BY <1>7 DEF AuthUrl, rdpVars, Frame
<1>8. ASSUME NEW k \in Calls, ReadyLine(k) \/ FallbackTimer(k)
      PROVE  TypeInv'
  <2> DEFINE c == calls[k].conn
             host == IF HasEntry(c) THEN active[c].host ELSE Localhost
  <2>1. c \in Conns /\ calls[k].origin \in {"ipc", "tray", "launch"} /\ TunnelUp(k)
    BY <1>8 DEF ReadyLine, FallbackTimer, TimerPending, Frame
  <2>2. host \in Host \cup {Localhost}
    BY <2>1 DEF HasEntry, Entry
  <2>3. status' \in [Conns -> {"disconnected", "connecting", "connected"}]
    BY <2>1 DEF TunnelUp, StatusWhenUp
  <2>4. CASE c \in RdpConns
    <3>1. BeginLaunch(k, c, calls[k].origin, host)
      BY <2>1, <2>4 DEF TunnelUp
    <3>2. StopRdpWatcher(c)
      BY <3>1 DEF BeginLaunch
    <3> HIDE DEF c, host
    <3> QED
      BY <2>1, <2>2, <2>3, <3>1, <3>2, BeginLaunchType, StopRdpWatcherType DEF TunnelUp
  <2>5. CASE c \notin RdpConns
    <3>1. /\ calls' \in [Calls -> Frame]
          /\ \A j \in Calls : calls'[j] = calls[j] \/ calls'[j] = Idle
      BY <2>1, <2>5 DEF TunnelUp, Idle, Frame
    <3> QED
      BY <2>1, <2>3, <2>5, <3>1 DEF TunnelUp, Idle
  <2> QED
    BY <2>4, <2>5
<1>9. ASSUME NEW k \in Calls, ErrorLine(k)
      PROVE  TypeInv'
  BY <1>9 DEF ErrorLine, Reject, StatusOnReject, rdpVars, Idle, Frame
<1>10. ASSUME NEW p \in Procs, CfExit(p)
       PROVE  TypeInv'
  <2> DEFINE c == cf[p].conn
  <2>1. c \in Conns
    BY <1>10 DEF CfExit
  <2>2. active' \in [Conns -> Entry \cup {None}]
    <3>1. CASE MstscAlive(c)
      BY <1>10, <2>1, <3>1, EntryUpdateType
         DEF CfExit, AfterCfExit, MstscAlive, Registered
    <3>2. CASE ~MstscAlive(c)
      BY <1>10, <2>1, <3>2 DEF CfExit, AfterCfExit
    <3> QED
      BY <3>1, <3>2
  <2>3. status' \in [Conns -> {"disconnected", "connecting", "connected"}]
    BY <1>10, <2>1 DEF CfExit
  <2>4. /\ cf' \in [Procs -> Child]
        /\ \A r \in Procs : Running(cf'[r].st) => cf'[r].conn \in Conns
    BY <1>10 DEF CfExit, Dead, NoChild, Child, ProcState, Endings, Running
  <2>5. /\ calls' \in [Calls -> Frame]
        /\ \A k \in Calls : calls'[k] = calls[k] \/ calls'[k] = Idle
    BY <1>10 DEF CfExit, Idle, Frame
  <2> QED
    BY <1>10, <2>2, <2>3, <2>4, <2>5 DEF CfExit, rdpVars, Idle
<1>11. ASSUME NEW c \in Conns, StopConnection(c)
       PROVE  TypeInv'
  <2>1. /\ active' \in [Conns -> Entry \cup {None}]
        /\ status' \in [Conns -> {"disconnected", "connecting", "connected"}]
        /\ cred' \in [Host \cup {Localhost} -> Conns \cup {None}]
    BY <1>11 DEF StopConnection
  <2>2. /\ cf' \in [Procs -> Child]
        /\ \A p \in Procs : cf'[p].conn = cf[p].conn /\ (Running(cf'[p].st) => Running(cf[p].st))
    <3>1. cf' = cf \/ cf' = Sigterm(cf, active[c].proc)
      BY <1>11 DEF StopConnection
    <3>2. Killed(Sigterm(cf, active[c].proc), cf, Procs, active[c].proc)
      BY SigtermKeeps
    <3> QED
      BY <3>1, <3>2 DEF Killed
  <2>3. /\ client' \in [Clients -> Child]
        /\ \A q \in Clients : /\ client'[q].conn = client[q].conn
                              /\ Running(client'[q].st) => Running(client[q].st)
    <3>1. client' = client \/ client' = Sigterm(client, active[c].mstscProc)
      BY <1>11 DEF StopConnection
    <3>2. Killed(Sigterm(client, active[c].mstscProc), client, Clients, active[c].mstscProc)
      BY SigtermKeeps
    <3> QED
      BY <3>1, <3>2 DEF Killed
  <2> QED
    BY <1>11, <2>1, <2>2, <2>3 DEF StopConnection
<1>12. ASSUME NEW l \in Loops, PollStarts(l)
       PROVE  TypeInv'
  <2>1. CASE Watchable(loops[l].conn)
    BY <1>12, <2>1 DEF PollStarts, regVars, Loop
  <2>2. CASE ~Watchable(loops[l].conn)
    BY <1>12, <2>2, LoopEndsType DEF PollStarts, regVars
  <2> QED
    BY <2>1, <2>2
<1>13. ASSUME NEW l \in Loops, PollAnswers(l)
       PROVE  TypeInv'
  <2>1. CASE Watchable(loops[l].conn)
    <3> DEFINE c == loops[l].conn
    <3>1. c \in Conns /\ HasEntry(c)
      BY <1>13, <2>1 DEF PollAnswers, Watchable, CfAlive
    <3>2. PICK b \in BOOLEAN :
            active' = [active EXCEPT ![c] = Observed(active[c], b)]
      BY <1>13, <2>1 DEF PollAnswers
    <3>3. active' \in [Conns -> Entry \cup {None}]
      BY <3>1, <3>2, ObservedType DEF HasEntry
    <3>4. loops' = [loops EXCEPT ![l].st = "armed"] /\ watcher' = [watcher EXCEPT ![c] = l]
      BY <1>13, <2>1 DEF PollAnswers
    <3>5. loops' \in [Loops -> Loop]
      BY <3>4 DEF Loop
    <3>6. \A m \in Loops : loops'[m].st # "off" => loops'[m].conn \in Conns
      BY <3>1, <3>4 DEF Loop
    <3>7. watcher' \in [Conns -> Loops \cup {None}]
      BY <3>4
    <3> QED
      BY <1>13, <3>3, <3>5, <3>6, <3>7 DEF PollAnswers
  <2>2. CASE ~Watchable(loops[l].conn)
    BY <1>13, <2>2, LoopEndsType DEF PollAnswers
  <2> QED
    BY <2>1, <2>2
<1>14. ASSUME NEW k \in Calls, StoreCredential(k)
       PROVE  TypeInv'
  BY <1>14 DEF StoreCredential, Frame
<1>15. ASSUME NEW k \in Calls, SpawnClient(k)
       PROVE  TypeInv'
  <2> DEFINE c == calls[k].conn
  <2>1. c \in Conns
    BY <1>15 DEF SpawnClient
  <2>2. PICK q \in Clients, st \in {"running", "exited"} :
          /\ client' = [client EXCEPT ![q] =
               IF st = "running" THEN [st |-> st, conn |-> c] ELSE Dead(st, HasEntry(c))]
          /\ active' = IF HasEntry(c)
                       THEN [active EXCEPT ![c] = [@ EXCEPT !.mstscProc = q, !.rdpOpen = TRUE]]
                       ELSE active
    BY <1>15 DEF SpawnClient, AttachClient, FreeClients
  <2>3. active' \in [Conns -> Entry \cup {None}]
    BY <2>1, <2>2, EntryUpdateType DEF Registered
  <2>4. /\ client' \in [Clients -> Child]
        /\ \A r \in Clients : Running(client'[r].st) => client'[r].conn \in Conns
    BY <2>1, <2>2 DEF Child, Dead, NoChild, ProcState, Running
  <2>5. /\ calls' \in [Calls -> Frame]
        /\ \A j \in Calls : calls'[j] = calls[j] \/ calls'[j] = Idle
    BY <1>15 DEF SpawnClient, Idle, Frame
  <2> QED
    BY <1>15, <2>3, <2>4, <2>5 DEF SpawnClient, rdpVars, Idle
<1>16. ASSUME NEW k \in Calls, NoClient(k)
       PROVE  TypeInv'
  BY <1>16 DEF NoClient, rdpVars, Idle, Frame
<1>17. ASSUME NEW k \in Calls, OpenRdpFile(k)
       PROVE  TypeInv'
  <2> DEFINE c == calls[k].conn
  <2>1. c \in Conns
    BY <1>17 DEF OpenRdpFile
  <2>2. active' \in [Conns -> Entry \cup {None}]
    BY <1>17, <2>1, EntryUpdateType DEF OpenRdpFile, Registered
  <2> QED
    BY <1>17, <2>2 DEF OpenRdpFile, rdpVars, Frame
<1>18. ASSUME NEW k \in Calls, OpenEnds(k)
       PROVE  TypeInv'
  BY <1>18, StartRdpWatcherType DEF OpenEnds, Idle, Frame
<1>19. ASSUME NEW q \in Clients, ClientExit(q)
       PROVE  TypeInv'
  <2> DEFINE c == client[q].conn
  <2>1. c \in Conns /\ OnRdpExit(c)
    BY <1>19 DEF ClientExit
  <2>2. /\ client' \in [Clients -> Child]
        /\ \A r \in Clients : Running(client'[r].st) => client'[r].conn \in Conns
    BY <1>19 DEF ClientExit, Dead, NoChild, Child, ProcState, Endings, Running
  <2> HIDE DEF c
  <2>3. CASE CfAlive(c)
    <3>1. /\ active' = [active EXCEPT ![c].rdpOpen = FALSE]
          /\ StartRdpWatcher(c)
          /\ UNCHANGED status
      BY <2>1, <2>3 DEF OnRdpExit
    <3>2. HasEntry(c)
      BY <2>3 DEF CfAlive
    <3>3. active' \in [Conns -> Entry \cup {None}]
      BY <2>1, <3>1, <3>2, EntryUpdateType DEF Registered
    <3> QED
      BY <1>19, <2>1, <2>2, <3>1, <3>3, StartRdpWatcherType DEF ClientExit
  <2>4. CASE ~CfAlive(c)
    BY <1>19, <2>1, <2>2, <2>4 DEF OnRdpExit, ClientExit
  <2> QED
    BY <2>3, <2>4
<1>20. CASE UNCHANGED vars
  BY <1>20 DEF vars, regVars, rdpVars
<1> QED
  BY <1>1, <1>2, <1>3, <1>4, <1>5, <1>6, <1>7, <1>8, <1>9, <1>10, <1>11, <1>12,
     <1>13, <1>14, <1>15, <1>16, <1>17, <1>18, <1>19, <1>20 DEF Next, RdpNext

(* Every state the handlers can reach is well typed, and whatever is in     *)
(* flight (a frame, a running child, a polling loop) has its connection.    *)
THEOREM TypeCorrect == Spec => []TypeInv
<1>1. Init => TypeInv
  BY InitTypeInv
<1>2. TypeInv /\ [Next]_vars => TypeInv'
  BY NextTypeInv
<1> QED
  BY <1>1, <1>2, PTL DEF Spec

(* Type correctness proper, as the runs check it.                           *)
THEOREM TypesHold == Spec => []TypeOK
<1>1. TypeInv => TypeOK
  BY DEF TypeInv
<1> QED
  BY <1>1, TypeCorrect, PTL

-----------------------------------------------------------------------------
(* Loopback hosts *)

ConnectStep ==
  \E k \in Calls, c \in Conns, origin \in Origins : Connect(k, c, origin)

(* Only startCloudflared gives out a host: in every other step, an entry    *)
(* that is there afterwards was there before, with the same host.           *)
LEMMA HostsKept ==
  ASSUME TypeInv, [Next]_vars, ~ConnectStep, NEW c \in Conns, HasEntry(c)'
  PROVE  HasEntry(c) /\ active'[c].host = active[c].host
<1> DEFINE Kept == HasEntry(c) /\ active'[c].host = active[c].host
<1>a. active \in [Conns -> Entry \cup {None}]
  BY DEF TypeInv, TypeOK, RegTypeOK
<1> USE <1>a DEF HasEntry
<1>1. CASE UNCHANGED active
  BY <1>1
<1>2. ASSUME NEW k \in Calls, PortFailed(k)
      PROVE  Kept
  BY <1>2 DEF PortFailed
<1>3. ASSUME NEW k \in Calls, Spawn(k)
      PROVE  Kept
  BY <1>3 DEF Spawn, Entry
<1>4. ASSUME NEW p \in Procs, CfExit(p)
      PROVE  Kept
  BY <1>4 DEF CfExit, AfterCfExit, MstscAlive, Entry
<1>5. ASSUME NEW d \in Conns, StopConnection(d)
      PROVE  Kept
  BY <1>5 DEF StopConnection
<1>6. ASSUME NEW l \in Loops, PollAnswers(l)
      PROVE  Kept
  <2> DEFINE d == loops[l].conn
  <2>1. CASE Watchable(d)
    <3>1. PICK b \in BOOLEAN : active' = [active EXCEPT ![d] = Observed(active[d], b)]
      BY <1>6, <2>1 DEF PollAnswers
    <3>2. HasEntry(d)
      BY <2>1 DEF Watchable, CfAlive
    <3>3. CASE c = d
      BY <3>1, <3>2, <3>3, ObservedType
    <3>4. CASE c # d
      BY <3>1, <3>4
    <3> QED
      BY <3>3, <3>4
  <2>2. CASE ~Watchable(d)
    BY <1>1, <1>6, <2>2 DEF PollAnswers
  <2> QED
    BY <2>1, <2>2
<1>7. ASSUME NEW k \in Calls, SpawnClient(k)
      PROVE  Kept
  BY <1>7 DEF SpawnClient, AttachClient, Entry
<1>8. ASSUME NEW k \in Calls, OpenRdpFile(k)
      PROVE  Kept
  BY <1>8 DEF OpenRdpFile, Entry
<1>9. ASSUME NEW q \in Clients, ClientExit(q)
      PROVE  Kept
  BY <1>9 DEF ClientExit, OnRdpExit, CfAlive, Entry
<1>10. ASSUME NEW l \in Loops, PollStarts(l)
       PROVE  Kept
  BY <1>1, <1>10 DEF PollStarts, regVars
<1>11. ASSUME NEW k \in Calls,
              \/ Cancelled(k) \/ AuthUrl(k) \/ ReadyLine(k) \/ FallbackTimer(k)
              \/ ErrorLine(k) \/ StoreCredential(k) \/ NoClient(k) \/ OpenEnds(k)
       PROVE  Kept
  BY <1>1, <1>11 DEF Cancelled, AuthUrl, ReadyLine, FallbackTimer, TunnelUp, ErrorLine,
     StoreCredential, NoClient, OpenEnds
<1>12. ASSUME NEW k \in Calls, NEW d \in Conns,
              \/ LaunchRdp(k, d)
              \/ \E origin \in Origins : ConnectAgain(k, d, origin)
       PROVE  Kept
  BY <1>1, <1>12 DEF LaunchRdp, ConnectAgain
<1>13. CASE UNCHANGED vars
  BY <1>1, <1>13 DEF vars, regVars
<1> QED
  BY <1>2, <1>3, <1>4, <1>5, <1>6, <1>7, <1>8, <1>9, <1>10, <1>11, <1>12, <1>13
     DEF Next, RdpNext, ConnectStep

LEMMA PlatformFixed ==
  ASSUME [Next]_vars PROVE platform' = platform
BY DEF Next, RdpNext, vars, regVars, Connect, ConnectAgain, LaunchRdp, PortFailed,
       Cancelled, Spawn, AuthUrl, ReadyLine, FallbackTimer, TunnelUp, ErrorLine, CfExit,
       StopConnection, PollStarts, PollAnswers, StoreCredential, SpawnClient, NoClient,
       OpenRdpFile, OpenEnds, ClientExit

(* With fewer connections than loopback addresses, two connections in the   *)
(* registry never have the same host (macOS apart), for any number of       *)
(* connections and any interleaving of connects, failures, exits and stops. *)
(* With as many connections as addresses it fails: pickLoopbackHost counts  *)
(* the stale entry a reconnect is about to replace.                         *)
THEOREM LoopbackHostsDistinct ==
  ASSUME Cardinality(Conns) < NHosts
  PROVE  Spec => []HostsDistinct
<1>1. Init => HostsDistinct
  BY DEF Init, RegInit, HostsDistinct, HasEntry
<1>2. TypeInv /\ HostsDistinct /\ [Next]_vars => HostsDistinct'
  <2> SUFFICES ASSUME TypeInv, HostsDistinct, [Next]_vars,
                      platform' # "darwin",
                      NEW c \in Conns, NEW d \in Conns, c # d,
                      HasEntry(c)', HasEntry(d)'
               PROVE  active'[c].host # active'[d].host
    BY DEF HostsDistinct
  <2>1. platform # "darwin"
    BY PlatformFixed
  <2>2. CASE ~ConnectStep
    BY <2>1, <2>2, HostsKept DEF HostsDistinct
  <2>3. CASE ConnectStep
    <3>1. PICK e \in Conns : active' = [active EXCEPT ![e] = Reservation]
      BY <2>3 DEF ConnectStep, Connect
    <3>2. Reservation.host \notin UsedHosts
      BY <2>1, SomeHostFree, PickLoopbackHostPicks DEF Reservation, LoopbackHost
    <3>3. active \in [Conns -> Entry \cup {None}]
      BY DEF TypeInv, TypeOK, RegTypeOK
    <3>4. \A f \in Conns : f # e /\ HasEntry(f)' =>
            active'[f].host = active[f].host /\ active[f].host \in UsedHosts
      BY <3>1, <3>3 DEF HasEntry, UsedHosts
    <3>5. active'[e].host = Reservation.host
      BY <3>1, <3>3
    <3>6. CASE c = e \/ d = e
      BY <3>2, <3>4, <3>5, <3>6
    <3>7. CASE c # e /\ d # e
      BY <2>1, <3>1, <3>3, <3>4, <3>7 DEF HostsDistinct, HasEntry
    <3> QED
      BY <3>6, <3>7
  <2> QED
    BY <2>2, <2>3
<1> QED
  BY <1>1, <1>2, TypeCorrect, PTL DEF Spec

-----------------------------------------------------------------------------
(* Why "connected" is always backed by a child process: what an entry and a *)
(* waiting connect point to.                                                *)

EntryProcs ==
  \A c \in Conns : HasEntry(c) /\ active[c].proc # None =>
    LET p == cf[active[c].proc] IN
    p.st \in {"running", "exited"} /\ (p.st = "running" => p.conn = c)

WaitedProcs ==
  \A k \in Calls : Waiting(k) =>
    LET p == cf[calls[k].proc] IN Running(p.st) /\ p.conn = calls[k].conn

EntryClients ==
  \A c \in Conns : HasEntry(c) /\ active[c].mstscProc # None =>
    LET q == client[active[c].mstscProc] IN
    /\ platform # "darwin"
    /\ platform = "win32" => /\ q.st \in {"running", "exited"}
                             /\ q.st = "running" => q.conn = c

BackedInv == EntryProcs /\ WaitedProcs /\ EntryClients /\ ConnectedIsBacked

LEMMA NextBackedInv ==
  ASSUME TypeInv, BackedInv, [Next]_vars
  PROVE  BackedInv'
<1>a. /\ active \in [Conns -> Entry \cup {None}]
      /\ status \in [Conns -> {"disconnected", "connecting", "connected"}]
      /\ cf \in [Procs -> Child]
      /\ client \in [Clients -> Child]
      /\ calls \in [Calls -> Frame]
      /\ Owned
  BY DEF TypeInv, TypeOK, RegTypeOK
<1>b. /\ \A c \in Conns : HasEntry(c) => /\ active[c].proc \in Procs \cup {None}
                                         /\ active[c].mstscProc \in Clients \cup {None}
      /\ \A k \in Calls : Waiting(k) => calls[k].proc \in Procs
      /\ \A k \in Calls : calls[k].pc # "idle" => calls[k].conn \in Conns
      /\ \A p \in Procs : Running(cf[p].st) => cf[p].conn \in Conns
      /\ \A q \in Clients : Running(client[q].st) => client[q].conn \in Conns
  BY <1>a DEF HasEntry, Entry, Owned
<1>c. /\ None \notin Procs /\ None \notin Clients
      /\ platform \in {"win32", "linux", "darwin"}
  BY RegistryAssumption DEF TypeInv, TypeOK, RegTypeOK
<1> USE <1>a, <1>b, <1>c DEF BackedInv, EntryProcs, WaitedProcs, EntryClients,
        ConnectedIsBacked, AlwaysBacked, BackedByChild, Waiting, Running, HasEntry
<1>1. ASSUME NEW k \in Calls, NEW c \in Conns, NEW origin \in Origins, Connect(k, c, origin)
      PROVE  BackedInv'
  BY <1>1 DEF Connect, Reservation, rdpVars
<1>2. ASSUME NEW k \in Calls, NEW c \in Conns, NEW origin \in Origins, ConnectAgain(k, c, origin)
      PROVE  BackedInv'
  BY <1>2 DEF ConnectAgain, BeginLaunch
<1>3. ASSUME NEW k \in Calls, NEW c \in Conns, LaunchRdp(k, c)
      PROVE  BackedInv'
  BY <1>3 DEF LaunchRdp, BeginLaunch
<1>4. ASSUME NEW k \in Calls, PortFailed(k)
      PROVE  BackedInv'
  <2>1. EntryProcs'
    BY <1>4 DEF PortFailed, Reject, StatusOnReject, Idle
  <2>2. WaitedProcs'
    BY <1>4 DEF PortFailed, Reject, StatusOnReject, Idle
  <2>3. EntryClients'
    BY <1>4 DEF PortFailed, Reject, StatusOnReject, Idle
  <2>4. ConnectedIsBacked'
    BY <1>4 DEF PortFailed, Reject, StatusOnReject, Idle
  <2> QED
    BY <2>1, <2>2, <2>3, <2>4
<1>5. ASSUME NEW k \in Calls, Cancelled(k)
      PROVE  BackedInv'
  BY <1>5 DEF Cancelled, Reject, StatusOnReject, Idle
<1>6. ASSUME NEW k \in Calls, Spawn(k)
      PROVE  BackedInv'
  <2>z. PICK c \in Conns : c = calls[k].conn
    BY <1>6 DEF Spawn
  <2>a. HasEntry(c)
    BY <1>6, <2>z DEF Spawn
  <2>b. PICK p \in FreeProcs :
          /\ active' = [active EXCEPT ![c].proc = p]
          /\ \/ /\ cf' = [cf EXCEPT ![p] = [st |-> "running", conn |-> c]]
                /\ calls' = [calls EXCEPT ![k] = [@ EXCEPT !.pc = "ready", !.proc = p]]
                /\ UNCHANGED status
             \/ /\ cf' = [cf EXCEPT ![p] = Dead("exited", TRUE)]
                /\ Reject(k)
    BY <1>6, <2>z DEF Spawn
  <2>c. /\ p \in Procs /\ ~Running(cf[p].st)
        /\ \A d \in Conns : HasEntry(d) => active[d].proc # p
    BY DEF FreeProcs, ProcHeld
  <2>d. UNCHANGED <<platform, client>>
    BY <1>6 DEF Spawn
  <2>e. /\ \A d \in Conns : d # c => active'[d] = active[d]
        /\ active'[c].proc = p /\ active'[c].mstscProc = active[c].mstscProc
    BY <2>a, <2>b
  <2>f. /\ cf'[p].st \in {"running", "exited"}
        /\ cf'[p].st = "running" => cf'[p].conn = c
        /\ \A r \in Procs : r # p => cf'[r] = cf[r]
    BY <2>b, <2>c DEF Dead
  <2>1. EntryProcs'
    BY <2>a, <2>c, <2>e, <2>f
  <2>2. WaitedProcs'
    <3>1. CASE /\ cf' = [cf EXCEPT ![p] = [st |-> "running", conn |-> c]]
               /\ calls' = [calls EXCEPT ![k] = [@ EXCEPT !.pc = "ready", !.proc = p]]
      <4>1. calls'[k].proc = p /\ calls'[k].conn = c
        BY <2>z, <3>1 DEF Frame
      <4>2. cf'[p].st = "running" /\ cf'[p].conn = c
        BY <2>c, <3>1
      <4>3. \A j \in Calls : j # k => calls'[j] = calls[j]
        BY <3>1
      <4> QED
        BY <2>c, <2>f, <4>1, <4>2, <4>3
    <3>2. CASE Reject(k)
      BY <2>c, <2>f, <3>2 DEF Reject, Idle
    <3> QED
      BY <2>b, <3>1, <3>2
  <2>3. EntryClients'
    BY <2>a, <2>d, <2>e
  <2>4. ConnectedIsBacked'
    <3>1. \A d \in Conns : status'[d] = "connected" => status[d] = "connected"
      BY <2>b DEF Reject, StatusOnReject
    <3> QED
      BY <2>c, <2>d, <2>f, <3>1
  <2> QED
    BY <2>1, <2>2, <2>3, <2>4
<1>7. ASSUME NEW k \in Calls, AuthUrl(k)
      PROVE  BackedInv'
  BY <1>7 DEF AuthUrl
<1>8. ASSUME NEW k \in Calls, ReadyLine(k) \/ FallbackTimer(k)
      PROVE  BackedInv'
  <2>z. PICK c \in Conns : c = calls[k].conn
    BY <1>8 DEF ReadyLine, FallbackTimer, TimerPending
  <2>a. /\ UNCHANGED <<platform, active, cf, client>>
        /\ \A d \in Conns : d # c => status'[d] = status[d]
    BY <1>8, <2>z DEF ReadyLine, FallbackTimer, TimerPending, TunnelUp, StatusWhenUp
  <2>1. EntryProcs' /\ EntryClients'
    BY <2>a
  <2>2. WaitedProcs'
    <3>1. /\ ~(calls'[k].pc \in {"ready", "auth"})
          /\ \A j \in Calls : j # k => calls'[j] = calls[j]
      BY <1>8 DEF ReadyLine, FallbackTimer, TunnelUp, BeginLaunch, Idle
    <3> QED
      BY <2>a, <3>1
  <2>3. BackedByChild(c)
    BY <1>8, <2>z DEF ReadyLine, FallbackTimer, TimerPending
  <2>4. ConnectedIsBacked'
    BY <2>a, <2>3
  <2> QED
    BY <2>1, <2>2, <2>4
<1>9. ASSUME NEW k \in Calls, ErrorLine(k)
      PROVE  BackedInv'
  BY <1>9 DEF ErrorLine, Reject, StatusOnReject, Idle
<1>10. ASSUME NEW p \in Procs, CfExit(p)
      PROVE  BackedInv'
  <2>z. PICK c \in Conns : c = cf[p].conn
    BY <1>10 DEF CfExit
  <2>a. /\ Running(cf[p].st)
        /\ UNCHANGED <<platform, client>>
        /\ active' = AfterCfExit(c)
    BY <1>10, <2>z DEF CfExit
  <2>b. \A r \in Procs : r # p => cf'[r] = cf[r]
    BY <1>10 DEF CfExit
  <2>c. /\ \A d \in Conns : d # c => active'[d] = active[d]
        /\ HasEntry(c)' => /\ HasEntry(c) /\ MstscAlive(c)
                          /\ active'[c].proc = None
                          /\ active'[c].mstscProc = active[c].mstscProc
    BY <2>a DEF AfterCfExit, MstscAlive, Entry
  <2>1. EntryProcs'
    <3>1. \A d \in Conns : HasEntry(d) => (active[d].proc = p => d = c)
      BY <2>a, <2>z
    <3> QED
      BY <2>b, <2>c, <3>1
  <2>2. WaitedProcs'
    <3>1. \A j \in Calls : \/ calls'[j] = Idle
                         \/ /\ calls'[j] = calls[j]
                            /\ ~(Waiting(j) /\ calls[j].proc = p)
      BY <1>10 DEF CfExit
    <3> QED
      BY <2>b, <3>1 DEF Idle
  <2>3. EntryClients'
    BY <2>a, <2>c
  <2>4. ConnectedIsBacked'
    <3>1. \A d \in Conns : status'[d] = "connected" =>
            status[d] = "connected" /\ (d = c => MstscAlive(c))
      BY <1>10, <2>z DEF CfExit
    <3>2. platform # "linux" /\ MstscAlive(c) => BackedByChild(c)'
      <4>1. SUFFICES ASSUME platform # "linux", MstscAlive(c) PROVE BackedByChild(c)'
        OBVIOUS
      <4>2. platform = "win32"
        BY <2>a, <4>1 DEF MstscAlive, TypeInv, TypeOK, RegTypeOK
      <4>3. PICK q \in Clients : q = active[c].mstscProc
        BY <4>1 DEF MstscAlive
      <4>4. q \in Clients /\ client[q].st = "running" /\ client[q].conn = c
        BY <4>1, <4>2, <4>3 DEF MstscAlive, NullExitCode
      <4> QED
        BY <2>a, <4>4
    <3>3. \A d \in Conns : d # c /\ BackedByChild(d) => BackedByChild(d)'
      BY <2>a, <2>b, <2>z
    <3> QED
      BY <2>a, <3>1, <3>2, <3>3
  <2> QED
    BY <2>1, <2>2, <2>3, <2>4
<1>11. ASSUME NEW c \in Conns, StopConnection(c)
      PROVE  BackedInv'
  <2>a. /\ \A d \in Conns : d # c => active'[d] = active[d] /\ status'[d] = status[d]
        /\ ~HasEntry(c)' /\ status'[c] = "disconnected"
        /\ UNCHANGED <<platform, calls>>
    BY <1>11 DEF StopConnection
  <2>b. \A r \in Procs : /\ cf'[r].conn = cf[r].conn
                         /\ Running(cf[r].st) => Running(cf'[r].st)
                         /\ \/ cf'[r] = cf[r]
                            \/ HasEntry(c) /\ r = active[c].proc /\ cf[r].st = "running"
    <3>1. cf' = cf \/ (HasEntry(c) /\ cf' = Sigterm(cf, active[c].proc))
      BY <1>11 DEF StopConnection
    <3>2. Killed(Sigterm(cf, active[c].proc), cf, Procs, active[c].proc)
      BY SigtermKeeps
    <3> QED
      BY <3>1, <3>2 DEF Killed
  <2>c. \A r \in Clients : /\ client'[r].conn = client[r].conn
                           /\ Running(client[r].st) => Running(client'[r].st)
                           /\ \/ client'[r] = client[r]
                              \/ HasEntry(c) /\ r = active[c].mstscProc /\ client[r].st = "running"
    <3>1. client' = client \/ (HasEntry(c) /\ client' = Sigterm(client, active[c].mstscProc))
      BY <1>11 DEF StopConnection
    <3>2. Killed(Sigterm(client, active[c].mstscProc), client, Clients, active[c].mstscProc)
      BY SigtermKeeps
    <3> QED
      BY <3>1, <3>2 DEF Killed
  <2>p. \A d \in Conns : d # c /\ HasEntry(d) /\ active[d].proc # None
            => cf'[active[d].proc] = cf[active[d].proc]
    BY <2>b
  <2>q. \A d \in Conns :
          platform = "win32" /\ d # c /\ HasEntry(d) /\ active[d].mstscProc # None
            => client'[active[d].mstscProc] = client[active[d].mstscProc]
    BY <2>c
  <2>1. EntryProcs'
    BY <2>a, <2>p
  <2>2. WaitedProcs'
    BY <2>a, <2>b
  <2>3. EntryClients'
    BY <2>a, <2>q
  <2>4. ConnectedIsBacked'
    <3>1. \A d \in Conns : BackedByChild(d) => BackedByChild(d)'
      BY <2>b, <2>c
    <3> QED
      BY <2>a, <3>1
  <2> QED
    BY <2>1, <2>2, <2>3, <2>4
<1>12. ASSUME NEW l \in Loops, PollStarts(l)
      PROVE  BackedInv'
  BY <1>12 DEF PollStarts, regVars
<1>13. ASSUME NEW l \in Loops, PollAnswers(l)
      PROVE  BackedInv'
  <2>z. PICK c \in Conns : c = loops[l].conn
    BY <1>13 DEF PollAnswers, Owned
  <2>a. UNCHANGED <<platform, status, cf, client, calls>>
    BY <1>13 DEF PollAnswers
  <2>b. \A d \in Conns : HasEntry(d)' =>
          /\ HasEntry(d)
          /\ active'[d].proc = active[d].proc
          /\ active'[d].mstscProc \in {None, active[d].mstscProc}
    <3>1. CASE Watchable(c)
      <4>1. PICK b \in BOOLEAN : active' = [active EXCEPT ![c] = Observed(active[c], b)]
        BY <1>13, <2>z, <3>1 DEF PollAnswers
      <4>2. HasEntry(c) /\ active[c] \in Entry
        BY <3>1 DEF Watchable, CfAlive
      <4>3. active'[c] = Observed(active[c], b)
        BY <4>1
      <4>4. active'[c].proc = active[c].proc
        BY <4>2, <4>3, ObservedType
      <4>5. active'[c].mstscProc \in {None, active[c].mstscProc}
        BY <4>2, <4>3, ObservedType
      <4> QED
        BY <4>1, <4>2, <4>4, <4>5
    <3>2. CASE ~Watchable(c)
      BY <1>13, <2>z, <3>2 DEF PollAnswers
    <3> QED
      BY <3>1, <3>2
  <2> QED
    BY <2>a, <2>b
<1>14. ASSUME NEW k \in Calls, StoreCredential(k)
      PROVE  BackedInv'
  BY <1>14 DEF StoreCredential
<1>15. ASSUME NEW k \in Calls, SpawnClient(k)
      PROVE  BackedInv'
  <2>z. PICK c \in Conns : c = calls[k].conn
    BY <1>15 DEF SpawnClient
  <2>a. /\ platform # "darwin"
        /\ UNCHANGED <<platform, status, cf>>
        /\ calls' = [calls EXCEPT ![k] = Idle]
    BY <1>15 DEF SpawnClient
  <2>b. PICK q \in FreeClients, st \in {"running", "exited"} : AttachClient(q, st, c)
    BY <1>15, <2>z DEF SpawnClient
  <2>c. /\ q \in Clients /\ ~Running(client[q].st)
        /\ \A d \in Conns : HasEntry(d) => active[d].mstscProc # q
    BY DEF FreeClients, ClientHeld
  <2>d. /\ \A d \in Conns : d # c => active'[d] = active[d]
        /\ HasEntry(c)' => /\ HasEntry(c)
                          /\ active'[c].proc = active[c].proc
                          /\ active'[c].mstscProc = q
    BY <2>b DEF AttachClient, Entry
  <2>e. /\ \A r \in Clients : r # q => client'[r] = client[r]
        /\ HasEntry(c) => client'[q] \in {[st |-> "running", conn |-> c],
                                         [st |-> "exited", conn |-> None]}
    BY <2>b, <2>c DEF AttachClient, Dead
  <2>1. EntryProcs'
    BY <2>a, <2>d
  <2>2. WaitedProcs'
    BY <2>a DEF Idle
  <2>3. EntryClients'
    BY <2>a, <2>c, <2>d, <2>e
  <2>4. ConnectedIsBacked'
    <3>1. \A d \in Conns : BackedByChild(d) => BackedByChild(d)'
      BY <2>a, <2>c, <2>e
    <3> QED
      BY <2>a, <3>1
  <2> QED
    BY <2>1, <2>2, <2>3, <2>4
<1>16. ASSUME NEW k \in Calls, NoClient(k)
      PROVE  BackedInv'
  BY <1>16 DEF NoClient, Idle
<1>17. ASSUME NEW k \in Calls, OpenRdpFile(k)
      PROVE  BackedInv'
  BY <1>17 DEF OpenRdpFile
<1>18. ASSUME NEW k \in Calls, OpenEnds(k)
      PROVE  BackedInv'
  BY <1>18 DEF OpenEnds, Idle
<1>19. ASSUME NEW q \in Clients, ClientExit(q)
      PROVE  BackedInv'
  <2>z. PICK c \in Conns : c = client[q].conn
    BY <1>19 DEF ClientExit
  <2>a. /\ Running(client[q].st)
        /\ UNCHANGED <<platform, cf, calls>>
        /\ OnRdpExit(c)
    BY <1>19, <2>z DEF ClientExit
  <2>b. PICK how \in Endings(client[q].st) :
          client' = [client EXCEPT ![q] = Dead(how, ClientHeld(q, active'))]
    BY <1>19 DEF ClientExit
  <2>c. \A d \in Conns : HasEntry(d)' =>
          /\ HasEntry(d)
          /\ active'[d].proc = active[d].proc
          /\ active'[d].mstscProc = active[d].mstscProc
    BY <2>a DEF OnRdpExit, CfAlive, Entry
  <2>1. EntryProcs' /\ WaitedProcs'
    BY <2>a, <2>c
  <2>2. EntryClients'
    <3>1. ASSUME NEW d \in Conns, HasEntry(d), active[d].mstscProc = q, platform = "win32"
          PROVE  client[q].st = "running"
      BY <2>a, <3>1
    <3>2. platform = "win32" /\ client[q].st = "running" => how = "exited"
      BY <2>b DEF Endings
    <3>4. ASSUME NEW d \in Conns, HasEntry(d)', active'[d].mstscProc = q
          PROVE  client'[q].st = how
      BY <2>b, <3>4 DEF ClientHeld, Dead
    <3>5. \A r \in Clients : r # q => client'[r] = client[r]
      BY <2>b
    <3> QED
      BY <2>a, <2>c, <3>1, <3>2, <3>4, <3>5
  <2>3. ConnectedIsBacked'
    <3>1. \A d \in Conns : d # c => status'[d] = status[d]
      BY <2>a DEF OnRdpExit
    <3>2. \A d \in Conns : d # c /\ BackedByChild(d) => BackedByChild(d)'
      BY <2>a, <2>b, <2>z
    <3>3. status'[c] = "connected" => BackedByChild(c)'
      BY <2>a DEF OnRdpExit, CfAlive, NullExitCode
    <3> QED
      BY <2>a, <3>1, <3>2, <3>3
  <2> QED
    BY <2>1, <2>2, <2>3
<1>20. CASE UNCHANGED vars
  BY <1>20 DEF vars, regVars
<1> QED
  BY <1>1, <1>2, <1>3, <1>4, <1>5, <1>6, <1>7, <1>8, <1>9, <1>10, <1>11, <1>12,
     <1>13, <1>14, <1>15, <1>16, <1>17, <1>18, <1>19, <1>20 DEF Next, RdpNext

(* BackedInv is inductive relative to the types.                            *)
THEOREM BackedCorrect == Spec => []BackedInv
<1>1. Init => BackedInv
  BY DEF Init, RegInit, BackedInv, EntryProcs, WaitedProcs, EntryClients,
     ConnectedIsBacked, AlwaysBacked, HasEntry, Waiting, Idle
<1>2. TypeInv /\ BackedInv /\ [Next]_vars => BackedInv'
  BY NextBackedInv
<1> QED
  BY <1>1, <1>2, TypeCorrect, PTL DEF Spec

(* A connection shown as connected has a running child process whose exit   *)
(* handler will correct the status (Linux apart), whatever overlaps.        *)
THEOREM ConnectedBacked == Spec => []ConnectedIsBacked
<1>1. BackedInv => ConnectedIsBacked
  BY DEF BackedInv
<1> QED
  BY <1>1, BackedCorrect, PTL

(* isProcessAlive, which takes a null exit code for life, never takes a     *)
(* dead tunnel for a live one: the tests of the reuse path of               *)
(* startCloudflared and of launch-rdp are right.                            *)
THEOREM AliveExact == Spec => []AliveMeansRunning
<1>1. BackedInv => AliveMeansRunning
  BY DEF BackedInv, EntryProcs, AliveMeansRunning, CfAlive, NullExitCode
<1> QED
  BY <1>1, BackedCorrect, PTL

-----------------------------------------------------------------------------
(* Connects from the renderer only *)

(* A connect that still waits for its port will be reported if it fails.    *)
PortFromIpc == \A k \in Calls : calls[k].pc = "port" => calls[k].origin = "ipc"

HasEntryInv == PortFromIpc /\ ConnectedHasEntry

LEMMA NextHasEntryInv ==
  ASSUME Origins = {"ipc"}, TypeInv, HasEntryInv, [Next]_vars
  PROVE  HasEntryInv'
<1>a. /\ active \in [Conns -> Entry \cup {None}]
      /\ status \in [Conns -> {"disconnected", "connecting", "connected"}]
      /\ calls \in [Calls -> Frame]
      /\ TypeInv'
  BY NextTypeInv DEF TypeInv, TypeOK, RegTypeOK
<1>b. active' \in [Conns -> Entry \cup {None}]
  BY <1>a DEF TypeInv, TypeOK, RegTypeOK
<1> USE NoneIsNoEntry DEF HasEntryInv
(* Most steps take no entry away and make nothing connected.                *)
<1>c. ASSUME \A c \in Conns : HasEntry(c) => HasEntry(c)',
             \A c \in Conns : status'[c] = "connected" => status[c] = "connected",
             \A k \in Calls : calls'[k].pc = "port" => calls'[k] = calls[k]
      PROVE  HasEntryInv'
  BY <1>c DEF PortFromIpc, ConnectedHasEntry
<1>1. ASSUME NEW k \in Calls, NEW c \in Conns, NEW origin \in Origins, Connect(k, c, origin)
      PROVE  HasEntryInv'
  <2>1. Reservation # None
    BY ReservationType
  <2>2. ConnectedHasEntry'
    BY <1>a, <1>1, <2>1 DEF Connect, ConnectedHasEntry, HasEntry
  <2>3. PortFromIpc'
    BY <1>a, <1>1 DEF Connect, PortFromIpc
  <2> QED
    BY <2>2, <2>3
<1>2. ASSUME NEW k \in Calls, NEW c \in Conns,
             LaunchRdp(k, c) \/ \E origin \in Origins : ConnectAgain(k, c, origin)
      PROVE  HasEntryInv'
  BY <1>a, <1>c, <1>2 DEF LaunchRdp, ConnectAgain, BeginLaunch, HasEntry
<1>3. ASSUME NEW k \in Calls, PortFailed(k)
      PROVE  HasEntryInv'
  <2>1. calls[k].origin = "ipc" /\ calls' = [calls EXCEPT ![k] = Idle]
    BY <1>3 DEF PortFailed, Reject, PortFromIpc
  <2>2. /\ status' = [status EXCEPT ![calls[k].conn] = "disconnected"]
        /\ active' = [active EXCEPT ![calls[k].conn] = None]
    BY <1>3, <2>1 DEF PortFailed, Reject, StatusOnReject
  <2>3. ConnectedHasEntry'
    BY <1>a, <2>2 DEF ConnectedHasEntry, HasEntry
  <2>4. PortFromIpc'
    BY <1>a, <2>1 DEF PortFromIpc, Idle
  <2> QED
    BY <2>3, <2>4
<1>4. ASSUME NEW k \in Calls, Cancelled(k) \/ ErrorLine(k)
      PROVE  HasEntryInv'
  BY <1>a, <1>c, <1>4 DEF Cancelled, ErrorLine, Reject, StatusOnReject, Idle, HasEntry
<1>5. ASSUME NEW k \in Calls, Spawn(k)
      PROVE  HasEntryInv'
  <2>1. PICK c \in Conns, p \in Procs :
             active' = [active EXCEPT ![c].proc = p] /\ HasEntry(c)
    BY <1>5 DEF Spawn, FreeProcs, TypeInv, Owned
  <2>2. \A d \in Conns : HasEntry(d) => HasEntry(d)'
    <3>1. active[c] \in Entry
      BY <1>a, <2>1 DEF HasEntry
    <3>2. [active[c] EXCEPT !.proc = p] \in Entry
      BY <3>1 DEF Entry
    <3> QED
      BY <1>a, <2>1, <3>2 DEF HasEntry
  <2>3. \A d \in Conns : status'[d] = "connected" => status[d] = "connected"
    BY <1>a, <1>5 DEF Spawn, Reject, StatusOnReject
  <2>4. \A j \in Calls : calls'[j].pc = "port" => calls'[j] = calls[j]
    <3>1. PICK r \in FreeProcs :
            \/ calls' = [calls EXCEPT ![k] = Idle]
            \/ calls' = [calls EXCEPT ![k] = [@ EXCEPT !.pc = "ready", !.proc = r]]
      BY <1>5 DEF Spawn, Reject
    <3>2. calls'[k].pc # "port"
      <4>1. CASE calls' = [calls EXCEPT ![k] = Idle]
        BY <1>a, <4>1 DEF Idle
      <4>2. CASE calls' = [calls EXCEPT ![k] = [@ EXCEPT !.pc = "ready", !.proc = r]]
        <5>1. calls'[k] = [calls[k] EXCEPT !.pc = "ready", !.proc = r] /\ calls[k] \in Frame
          BY <1>a, <4>2
        <5> QED
          BY <5>1 DEF Frame
      <4> QED
        BY <3>1, <4>1, <4>2
    <3>3. \A j \in Calls : j # k => calls'[j] = calls[j]
      BY <1>a, <3>1
    <3> QED
      BY <3>2, <3>3
  <2> QED
    BY <1>c, <2>2, <2>3, <2>4
<1>6. ASSUME NEW k \in Calls, AuthUrl(k)
      PROVE  HasEntryInv'
  BY <1>a, <1>c, <1>6 DEF AuthUrl, HasEntry
<1>7. ASSUME NEW k \in Calls, ReadyLine(k) \/ FallbackTimer(k)
      PROVE  HasEntryInv'
  <2>1. /\ UNCHANGED active
        /\ status' = StatusWhenUp(calls[k].conn)
        /\ \A j \in Calls : calls'[j].pc = "port" => calls'[j] = calls[j]
    BY <1>a, <1>7 DEF ReadyLine, FallbackTimer, TunnelUp, BeginLaunch, Idle
  <2>2. ConnectedHasEntry'
    BY <1>a, <2>1 DEF ConnectedHasEntry, StatusWhenUp, HasEntry
  <2> QED
    BY <2>1, <2>2 DEF PortFromIpc
<1>8. ASSUME NEW p \in Procs, CfExit(p)
      PROVE  HasEntryInv'
  <2>1. PICK c \in Conns :
          /\ active' = AfterCfExit(c)
          /\ status' \in {status, [status EXCEPT ![c] = "disconnected"]}
          /\ ~MstscAlive(c) => status' = [status EXCEPT ![c] = "disconnected"]
    BY <1>8 DEF CfExit, TypeInv, Owned
  <2>2. \A d \in Conns : HasEntry(d) => HasEntry(d)' \/ (d = c /\ ~MstscAlive(c))
    <3>1. MstscAlive(c) => [active[c] EXCEPT !.proc = None] \in Entry
      BY <1>a DEF MstscAlive, HasEntry, Entry
    <3> QED
      BY <1>a, <2>1, <3>1 DEF AfterCfExit, HasEntry
  <2>3. ConnectedHasEntry'
    BY <1>a, <2>1, <2>2 DEF ConnectedHasEntry
  <2>4. PortFromIpc'
    BY <1>a, <1>8 DEF CfExit, PortFromIpc, Idle
  <2> QED
    BY <2>3, <2>4
<1>9. ASSUME NEW c \in Conns, StopConnection(c)
      PROVE  HasEntryInv'
  BY <1>a, <1>9 DEF StopConnection, ConnectedHasEntry, PortFromIpc, HasEntry
<1>10. ASSUME NEW l \in Loops, PollStarts(l)
      PROVE  HasEntryInv'
  BY <1>a, <1>c, <1>10 DEF PollStarts, regVars, HasEntry
<1>11. ASSUME NEW l \in Loops, PollAnswers(l)
      PROVE  HasEntryInv'
  <2>1. UNCHANGED <<status, calls>>
    BY <1>11 DEF PollAnswers
  <2>2. \A d \in Conns : HasEntry(d) => HasEntry(d)'
    <3>1. CASE Watchable(loops[l].conn)
      <4>1. PICK c \in Conns, b \in BOOLEAN :
              HasEntry(c) /\ active' = [active EXCEPT ![c] = Observed(active[c], b)]
        BY <1>11, <3>1 DEF PollAnswers, TypeInv, Owned, Watchable, CfAlive
      <4>2. Observed(active[c], b) \in Entry
        BY <1>a, <4>1, ObservedType DEF HasEntry
      <4> QED
        BY <1>a, <4>1, <4>2 DEF HasEntry
    <3>2. CASE ~Watchable(loops[l].conn)
      BY <1>11, <3>2 DEF PollAnswers, HasEntry
    <3> QED
      BY <3>1, <3>2
  <2> QED
    BY <1>c, <2>1, <2>2
<1>12. ASSUME NEW k \in Calls, StoreCredential(k) \/ NoClient(k) \/ OpenEnds(k)
      PROVE  HasEntryInv'
  <2>1. UNCHANGED <<active, status>>
    BY <1>12 DEF StoreCredential, NoClient, OpenEnds
  <2>2. calls' \in {[calls EXCEPT ![k] = Idle], [calls EXCEPT ![k].pc = "stored"]}
    BY <1>12 DEF StoreCredential, NoClient, OpenEnds
  <2>3. \A j \in Calls : calls'[j].pc = "port" => calls'[j] = calls[j]
    BY <1>a, <2>2 DEF Idle, Frame
  <2> QED
    BY <1>c, <2>1, <2>3 DEF HasEntry
<1>13. ASSUME NEW k \in Calls, SpawnClient(k)
      PROVE  HasEntryInv'
  <2>1. UNCHANGED status /\ calls' = [calls EXCEPT ![k] = Idle]
    BY <1>13 DEF SpawnClient
  <2>2. \A d \in Conns : HasEntry(d) => HasEntry(d)'
    <3>1. PICK q \in Clients, st \in {"running", "exited"} :
            AttachClient(q, st, calls[k].conn)
      BY <1>13 DEF SpawnClient, FreeClients
    <3>2. HasEntry(calls[k].conn) /\ calls[k].conn \in Conns =>
            [active[calls[k].conn] EXCEPT !.mstscProc = q, !.rdpOpen = TRUE] \in Entry
      BY <1>a DEF HasEntry, Entry
    <3> QED
      BY <1>a, <3>1, <3>2 DEF AttachClient, HasEntry
  <2>3. \A j \in Calls : calls'[j].pc = "port" => calls'[j] = calls[j]
    BY <1>a, <2>1 DEF Idle
  <2> QED
    BY <1>c, <2>1, <2>2, <2>3
<1>14. ASSUME NEW k \in Calls, OpenRdpFile(k)
      PROVE  HasEntryInv'
  <2>1. UNCHANGED status
    BY <1>14 DEF OpenRdpFile
  <2>2. \A d \in Conns : HasEntry(d) => HasEntry(d)'
    <3>1. HasEntry(calls[k].conn) /\ calls[k].conn \in Conns =>
            [active[calls[k].conn] EXCEPT !.mstscProc = None, !.rdpOpen = FALSE] \in Entry
      BY <1>a DEF HasEntry, Entry
    <3> QED
      BY <1>a, <1>14, <3>1 DEF OpenRdpFile, HasEntry
  <2>3. \A j \in Calls : calls'[j].pc = "port" => calls'[j] = calls[j]
    BY <1>a, <1>14 DEF OpenRdpFile, Frame
  <2> QED
    BY <1>c, <2>1, <2>2, <2>3
<1>15. ASSUME NEW q \in Clients, ClientExit(q)
      PROVE  HasEntryInv'
  <2>1. PICK c \in Conns : OnRdpExit(c)
    BY <1>15 DEF ClientExit, TypeInv, Owned
  <2>2. UNCHANGED calls
    BY <1>15 DEF ClientExit
  <2>3. CfAlive(c) => [active[c] EXCEPT !.rdpOpen = FALSE] \in Entry
    BY <1>a DEF CfAlive, HasEntry, Entry
  <2>4. ConnectedHasEntry'
    BY <1>a, <2>1, <2>3 DEF OnRdpExit, ConnectedHasEntry, HasEntry
  <2> QED
    BY <2>2, <2>4 DEF PortFromIpc
<1>16. CASE UNCHANGED vars
  BY <1>c, <1>16 DEF vars, regVars, HasEntry
<1> QED
  BY <1>1, <1>2, <1>3, <1>4, <1>5, <1>6, <1>7, <1>8, <1>9, <1>10, <1>11, <1>12,
     <1>13, <1>14, <1>15, <1>16 DEF Next, RdpNext

(* What is shown as connected can be stopped, as long as every connect      *)
(* comes from the renderer, whose ipc handler reports a rejected connect.   *)
THEOREM ConnectedListed ==
  ASSUME Origins = {"ipc"}
  PROVE  Spec => []ConnectedHasEntry
<1>1. Init => HasEntryInv
  BY DEF Init, RegInit, HasEntryInv, PortFromIpc, ConnectedHasEntry, Idle
<1>2. TypeInv /\ HasEntryInv /\ [Next]_vars => HasEntryInv'
  BY NextHasEntryInv
<1>3. HasEntryInv => ConnectedHasEntry
  BY DEF HasEntryInv
<1> QED
  BY <1>1, <1>2, <1>3, TypeCorrect, PTL DEF Spec
=============================================================================
