----------------------------- MODULE DirectRdp -----------------------------
(***************************************************************************)
(* Connections with protocol rdp, without a tunnel (rdp.js,                *)
(* launchRemoteDesktopDirect): one client process per launch, whose exit   *)
(* or error handler takes the connection's entry away, whichever launch    *)
(* made that entry.  Credentials are left out here: see RdpClient.         *)
(***************************************************************************)
EXTENDS FiniteSets, Naturals

CONSTANTS
  DirectConns,    \* connections with protocol rdp
  DirectCalls,    \* launches that can be suspended at once
  DirectClients,  \* mstsc, open and FreeRDP processes
  DirectOses,     \* values of process.platform considered
  NotLaunched     \* an entry without a client; no entry at all is "none"

ASSUME DirectAssumption == NotLaunched \notin DirectClients /\ "none" \notin DirectClients

VARIABLES
  directOs,      \* process.platform
  directEntry,   \* activeConnections: "none", or the entry's mstscProc
  directStatus,  \* connectionStatuses
  directCall,    \* calls at an await
  directClient   \* the client processes

directVars == <<directOs, directEntry, directStatus, directCall, directClient>>

NoCall == [pc |-> "idle", conn |-> NotLaunched]
NoProcess == [st |-> "none", conn |-> NotLaunched]

DirectTypeOK ==
  /\ directOs \in DirectOses
  /\ directEntry \in [DirectConns -> DirectClients \cup {"none", NotLaunched}]
  /\ directStatus \in [DirectConns -> {"disconnected", "connecting", "connected"}]
  /\ directCall \in [DirectCalls -> [pc : {"idle", "storing", "preparing"},
                                     conn : DirectConns \cup {NotLaunched}]]
  /\ directClient \in [DirectClients -> [st : {"none", "running", "killed", "failing"},
                                         conn : DirectConns \cup {NotLaunched}]]

DirectInit ==
  /\ directOs \in DirectOses
  /\ directEntry = [c \in DirectConns |-> "none"]
  /\ directStatus = [c \in DirectConns |-> "disconnected"]
  /\ directCall = [k \in DirectCalls |-> NoCall]
  /\ directClient = [q \in DirectClients |-> NoProcess]

-----------------------------------------------------------------------------

FreeDirectClients == {q \in DirectClients : directClient[q].st = "none"}

\* Bound: a launch begins only if a process is left for it.
RoomForLaunch ==
  Cardinality(FreeDirectClients)
    > Cardinality({k \in DirectCalls : directCall[k].pc # "idle"})

(* The client is spawned; the entry gets it if the connection was not       *)
(* stopped meanwhile, the status is set in any case.  The exit code of a    *)
(* client that cannot be spawned is still null here.                        *)
Launched(c, entries) ==
  \E q \in FreeDirectClients, st \in {"running", "failing"} :
    /\ directClient' = [directClient EXCEPT ![q] = [st |-> st, conn |-> c]]
    /\ directEntry' = IF entries[c] = "none" THEN entries ELSE [entries EXCEPT ![c] = q]
    /\ directStatus' = [directStatus EXCEPT ![c] = "connected"]

Reserved(c) == [directEntry EXCEPT ![c] = NotLaunched]

(* connectById.  Windows awaits cmdkey first if there is a password, and    *)
(* nothing else; the others await the file or the search for a client.      *)
DirectConnect(k, c) ==
  /\ directCall[k].pc = "idle" /\ RoomForLaunch
  /\ \/ /\ directOs = "win32"
        /\ directCall' = [directCall EXCEPT ![k] = [pc |-> "storing", conn |-> c]]
        /\ UNCHANGED <<directEntry, directStatus, directClient>>
     \/ /\ directOs = "win32"
        /\ Launched(c, Reserved(c))
        /\ UNCHANGED directCall
     \/ /\ directOs # "win32"
        /\ directEntry' = Reserved(c)
        /\ directStatus' = [directStatus EXCEPT ![c] = "connecting"]
        /\ directCall' = [directCall EXCEPT ![k] = [pc |-> "preparing", conn |-> c]]
        /\ UNCHANGED directClient
  /\ UNCHANGED directOs

\* storeCredential has ended: reserved and launched at once.
DirectStored(k) ==
  /\ directCall[k].pc = "storing"
  /\ Launched(directCall[k].conn, Reserved(directCall[k].conn))
  /\ directCall' = [directCall EXCEPT ![k] = NoCall]
  /\ UNCHANGED directOs

DirectLaunch(k) ==
  /\ directCall[k].pc = "preparing"
  /\ Launched(directCall[k].conn, directEntry)
  /\ directCall' = [directCall EXCEPT ![k] = NoCall]
  /\ UNCHANGED directOs

\* Mutant: the status is not reset.
StatusLeft(c) == directStatus

StatusGone(c) == [directStatus EXCEPT ![c] = "disconnected"]

\* No .rdp file could be written, no FreeRDP was found.
DirectFails(k) ==
  LET c == directCall[k].conn IN
  /\ directCall[k].pc = "preparing"
  /\ directEntry' = [directEntry EXCEPT ![c] = "none"]
  /\ directStatus' = StatusGone(c)
  /\ directCall' = [directCall EXCEPT ![k] = NoCall]
  /\ UNCHANGED <<directOs, directClient>>

\* Mutant: the handler leaves an entry alone that holds another client.
StatusOfOwnEntry(q) ==
  IF directEntry[directClient[q].conn] = q THEN StatusGone(directClient[q].conn)
  ELSE directStatus

StatusAfterEnd(q) == StatusGone(directClient[q].conn)

\* The exit and error handlers: the entry goes, whoever it holds.
DirectEnds(q) ==
  /\ directClient[q].st # "none"
  /\ directEntry' = [directEntry EXCEPT ![directClient[q].conn] = "none"]
  /\ directStatus' = StatusAfterEnd(q)
  /\ directClient' = [directClient EXCEPT ![q] = NoProcess]
  /\ UNCHANGED <<directOs, directCall>>

\* stopConnection: it knows the client of the entry only.
DirectStop(c) ==
  LET q == directEntry[c] IN
  /\ directEntry' = [directEntry EXCEPT ![c] = "none"]
  /\ directStatus' = StatusGone(c)
  /\ directClient' = IF q \in DirectClients /\ directClient[q].st = "running"
                     THEN [directClient EXCEPT ![q].st = "killed"] ELSE directClient
  /\ UNCHANGED <<directOs, directCall>>

DirectNext ==
  \/ \E c \in DirectConns : DirectStop(c) \/ \E k \in DirectCalls : DirectConnect(k, c)
  \/ \E k \in DirectCalls : DirectStored(k) \/ DirectLaunch(k) \/ DirectFails(k)
  \/ \E q \in DirectClients : DirectEnds(q)

\* cmdkey has a timeout, the file and the search end; clients may run on.
DirectFairness ==
  \A k \in DirectCalls :
    WF_directVars(DirectStored(k) \/ DirectLaunch(k) \/ DirectFails(k))

DirectSpec == DirectInit /\ [][DirectNext]_directVars

-----------------------------------------------------------------------------
(* Properties *)

(* A connected connection has a client whose exit or error is still to come *)
(* and will be reported, whichever launches, stops and exits overlapped; it *)
(* need not be the client the entry holds, nor need there be an entry.      *)
DirectBacked ==
  \A c \in DirectConns : directStatus[c] = "connected" =>
    \E q \in DirectClients : directClient[q].st # "none" /\ directClient[q].conn = c

(* A launch without a tunnel never stays "connecting".                      *)
DirectSettles ==
  \A c \in DirectConns : directStatus[c] = "connecting" ~> directStatus[c] # "connecting"
=============================================================================
