# TunnelDesk: TLA+ models and proofs

TunnelDesk is an Electron desktop application. Its main process starts a
`cloudflared` child process per tunnelled connection, launches an RDP client or
opens SSH / Telnet / serial sessions over it, keeps the list of connections in
a JSON file, and can merge a list that an organisation serves over HTTP. This
directory models the parts of it that are hard to test: everything that runs
between two awaits, timers, exit handlers and overlapping requests.

## Inventory

| component (src/src/main) | state | operations | what makes it hard |
|---|---|---|---|
| registry: `state.js`, `messaging.js`, `net-utils.js` | `activeConnections`, `connectionStatuses` | set/delete an entry, `updateStatus`, `pickLoopbackHost` | every handler finds the entry by id when it runs, whichever connect made it |
| tunnels: `tunnel.js`, `actions.js`, `tray.js`, `ipc.js` | the entry's process, host | `startCloudflared`, `waitForCloudflaredReady`, `stopConnection` | awaits of a port and of a ready line; two fallback timers; exit handlers; overlapping connects of one id |
| RDP client: `rdp.js` | `rdpWatchers`, Windows credentials, the entry's `mstscProc` and `rdpOpen` | launch, exit handler, watcher poll | polls in flight while the watcher is stopped and started; a stop during the awaits before the spawn |
| direct RDP: `rdp.js` (`launchRemoteDesktopDirect`) | the entry, the status, a client process per launch | launch, exit and error handlers, stop | a launch that is stopped or repeated during its await |
| sessions: `ssh-session.js`, `telnet-session.js`, `serial-session.js` | session maps, pending SSH clients, jump host clients | create, write, resize, close, close all of a connection | callbacks of the library in any order; cancel while connecting |
| terminal tabs: `renderer/src/main.ts` | tabs, their session ids, retry counts | open, close, data, close event, auto-reconnect, status report | messages between renderer and main process; a timer that reconnects |
| SFTP browser: `renderer/src/main.ts` | path, entries, marked rows, spinner | navigate, delete, drop, upload, rename, new folder | each handler goes on with the path shown *after* its awaits |
| connection list: `renderer/src/main.ts`, `ipc.js` | the window's connections and statuses | refresh, status and list broadcasts, delete, duplicate | overlapping refreshes; answers against broadcasts |
| debug panel: `renderer/src/main.ts` | one flag, one timer handle | start, stop, tick | every drawn detail view starts the poll anew |
| connection store: `connections.js`, `ipc.js` handlers, `settings.js` | file, cache | save, delete, import, settings write | read-modify-write over awaits; rename order |
| managed connections: `sync.js` | list, cache file, timer, last error | startSync, stopSync, fetchAndApply | overlapping starts; stop during a fetch |
| policy: `policy.js` | last policy, timer | poll | a policy that changes at run time |
| sign-in: `auth.js` | token cache, pending sign-in | signIn, signOut | window close, code, timeout in any order |
| logger: `logger.js` | buffer, flush timer, write stream, rotated files | write, flush, rotate, close | files renamed under a stream that writes in the background |
| pure code: Telnet option parser, `validation.js`, `crypto.js` | none | | chunk boundaries, escaping |
| shell: `index.js`, `window.js`, `updater.js`, `system.js`, `preload.js`, HTML/CSS | windows | start-up, quit | I/O around the rest |

The renderer asks through IPC handlers (`ipc.js`), the tray menu through the
same `connectById` / `disconnectById`; the main process answers with broadcast
events (`status-update`, `rdp-closed`, `ssh-data`, `ssh-close`, ...). The
registry is the shared state: tunnels, RDP client, sessions, IPC and tray all
read and write it.

## Modules

| modules | part |
|---|---|
| `Registry` <- `RdpClient` <- `Tunnel` (EXTENDS chain, one state), `MCTunnel` for TLC, `TunnelProofs` for TLAPS | registry, RDP client, tunnels |
| `ConnStore`, its abstract specification `ListStore`, `MCConnStore`, `ConnStoreProofs` | connection store and the handlers that edit it |
| `Sync`, `DeskProofs` | managed connections, with the parts of settings and policy that give it its URL |
| `MCLists` | `ConnStore` and `Sync`, which share no state, side by side for TLC |
| `TermSession` <- `SshSession`, `TelnetSession`, `SerialSession` <- `Terminal` (one state), `TerminalProofs` | embedded sessions and the terminal windows with their tabs |
| `MCStamp` | `Terminal` with the age of the reports under way, for one finding |
| `DirectRdp`, `DeskProofs` | RDP without a tunnel |
| `SftpPanel`, `SftpProofs` | SFTP browser over one SFTP session |
| `Views`, `ViewsProofs` | the main window's connection list and statuses |
| `DebugPoll`, `DeskProofs` | the debug panel's poll |
| `TelnetWire`, `TelnetProofs` | the bytes of a Telnet session |
| `Logger`, `DeskProofs` | log buffer, stream and rotation |
| `SignIn`, `DeskProofs` | sign-in, sign-out, silent sign-in |
| `Queues` | lemmas about queues, for `ViewsProofs` and `SftpProofs` |
| `MCDesk`, `DeskProofs` | the seven parts from `DirectRdp` to `SignIn`, which share no state, side by side |

In every module one action is everything that runs between two returns to the
event loop: the code up to the next pending await, with the microtasks it
queues. An async function suspended at an await is a *frame* (in `calls`,
`fetches` or `saves`); its `pc` names the await. Where what happens outside the
program and the handling of its completion can be apart (file operations, a
poll), they are two actions.

### Tunnels and RDP client

Child processes are objects with what `ChildProcess.exitCode` can tell of them:
`running`, `killed` (SIGTERM sent, still running), `exited` (has a code),
`signalled` (dead, code null).

| model | code |
|---|---|
| `active[c]`, `status[c]` | `activeConnections`, `connectionStatuses` |
| `Connect` | `startCloudflared` up to `await getFreeLocalPort` |
| `PortFailed`, `Cancelled`, `Spawn` | what follows that await |
| `AuthUrl`, `ReadyLine`, `ErrorLine`, `FallbackTimer` | the listeners and timers of `waitForCloudflaredReady`; `TunnelUp` is the caller's continuation |
| `ConnectAgain` | the reuse path of `startCloudflared` |
| `CfExit` | the persistent exit handler and the wait's `onExit` |
| `StopConnection` | `stopConnection` (disconnect, delete-connection, tray) |
| `BeginLaunch`, `StoreCredential`, `SpawnClient`, `NoClient`, `OpenRdpFile`, `OpenEnds` | `launchRemoteDesktop` on the three platforms |
| `ClientExit` | `onRdpExit` |
| `PollStarts`, `PollAnswers` | the two halves of a watcher poll |

Abstracted: the text of cloudflared's output (a line is a login URL, a ready
line, an error line, or nothing), the port number (two listeners on one host
get different ports from the kernel), the password, log lines, `connectedAt`
and latency samples.

### Connection store

| model | code |
|---|---|
| `file`, `temps`, `cache` | `connections.json`, the `.tmp` files of calls under way, `_cache` |
| `leftovers` | of the `.tmp` files that a crash or a failed write left behind, those with a plain password: whether there was a keyring when they were written |
| `Begin`, `ReadHappens`, `ReadDone` | `readConnections`, called by a handler; `Edit` is the handler's code after it |
| `Edited`, `Writes` | what the handlers save, delete, import and remove-temporary do to the list and when they write it; `migratePasswords` |
| `Truncate`, `WriteHappens`, `RenameHappens`, `WriteDone`, `WriteFails` | the awaits of `writeConnections` |
| `Start`, `Create`, `Migrate`, `Stop` | start-up up to the registration of the handlers; a quit or crash |

A connection is its temporary flag and the state of its password (none, plain,
sealed); the other fields and the order of the list tell the properties
nothing. `keyring` is `safeStorage.isEncryptionAvailable()`, which may differ
from one start to the next; a file encrypted with a keyring cannot be read
without it. A read may fail at any time, which the code takes for an empty list.

`ListStore` is what a caller expects: one list, changed by one operation at a
time, and a program that is either reading it, blind to it (after a failed read)
or not yet asked. `View` and `SavedList` are the refinement mapping.
The refinement holds for handlers that do not overlap: two that do are a
read-modify-write race, the later rename wins, and the code makes no attempt to
prevent it.

### Managed connections

| model | code |
|---|---|
| `timer`, `intervals` | `syncTimer`; the intervals that exist, whether or not a handle is kept |
| `fetches` | frames of `startSync` and `fetchAndApply` (a start, an interval tick, or sync-fetch-now) |
| `managedConnections`, `savedList`, `syncError` | the list in memory, the cached file, `lastSyncError` |
| `FetchHangs`, `abandoned` | a response that is closed in mid-body settles nothing (`sync.js:86-114`): the frame awaits it for ever; `abandoned` has the URLs whose startSync ended so since they were last started |
| `SaveBegins`, `SaveWritten`, `SaveFails`, `SaveEnds` | the save-settings handler around the awaits of `saveSettings` |
| `PolicyRead` | the policy poll, whose URL overrides the one in the settings |

A list is the URL it came from; its items and `syncInterval` are abstracted.

### Terminals

One call of `addTermTab` makes one tab, one create request and one session id,
so a single index names all three: `tab[t]` is the tab, `link[t]` what the main
process holds for it, `reply[t]` and `closeEvent[t]` what it has told the window.

| model | code |
|---|---|
| `link[t].st` | `jump`: `openJumpProxy`; `dialing`: a client in `pendingClients` (SSH) or a socket or port that is being opened; `shell`: the channel is being opened; `open`: in `sessions`; `ending`: closed by the program, close event to come; `lost`, `stray`, `leak`: clients nothing refers to any more |
| `JumpOpens`, `JumpFails`, `SshReady`, `SshOpens`, `SshFails`, `SshVanishes` (closed in the handshake without an error: nothing is told), `SshCloses`, `SshEnds`, `SftpErrs`, `SftpChannelCloses` | the callbacks of `sshCreateTerm`, `sshCreateSftp` and `openJumpProxy` |
| `TelnetOpens`, ..., `SerialErrs`, ... | the events of a socket and of a port |
| `CancelPending` | `cancelPendingConnections`, for every client of the connection |
| `outbox[w]` | requests of a window, in order: create, close, cancel, report |
| `CreateSession`, `CloseSession`, `CancelConnect`, `ReportUp`, `ReportDown` | the `ipc.js` handlers |
| `AddTab`, `CloseTab`, `ReconnectButton`, `TimerFires`, `CloseWindow`, `WindowLoads` | `addTermTab` up to its await, `closeTermTab`, the two ways to reconnect, the window |
| `CreateSettles`, `CloseSeen` | `addTermTab` after its await; `onSshClose` and its Telnet and serial twins |
| `Connect`, `TrayConnect`, `OpenTerminal`, `Disconnect`, `Delete` | `connectById`, `disconnectById`, `delete-connection` for these protocols |

Main process and windows are different processes: a request is delivered some
time after it was sent, answers and events of one session arrive in order.
Terminal bytes, sizes and OS detection are abstracted.

### Main window, SFTP browser, debug panel

`Views` has the page's lists and statuses (`view`) and the main process's
(`own`, `managed`, `mainStatus`), the requests on their way (`asked`) and
everything sent to the page, answers and broadcasts, in one queue (`channel`),
since Electron keeps the order of messages to one page. `RefreshContinues` is
`refreshConnections` after each of its three awaits; `HearUpdate`, `HearSaved`
the listeners; `EditAnswered` the delete and duplicate handlers.

`SftpPanel` has the directories of the server (`remote`, a set of names each,
and `partial`, those a failed upload may have made that no listing has shown yet), the tab (`panel`), the two queues between them and the click handlers under way
(`task`). `Navigate` and `ListAnswers` are the halves of `sftpNavigate`;
`StartLoop`, `DeleteLoop`, `DropLoop`, `StartDialog`, `DialogEnds`,
`TaskAnswered` the handlers that await the server between their steps and read
the panel's path again after each.

`DebugPoll` has the flag, the handle and the calls of `tick` that are alive
(`pollLoop`: waiting for an answer or for the timer). `StartPoll`, `Stopped`,
`Ticked` and `Again` are `startDebugPoll`, `stopDebugPoll` and the two halves of
`tick`; the actions are what draws the detail view.

### Telnet bytes, log file, sign-in, direct RDP

`TelnetWire`: `ParseStep` is one pass of the loop of `parseTelnet`, `Loop` the
loop as a recursive function on the indices of a chunk. `Reading` is the
reference, a byte-at-a-time reading of RFC 854 that keeps its state across
chunks. `TelnetData`, `TelnetWrite`, `TelnetResize` write to one socket.
`misread` remembers that some chunk was `Unreadable`: it ended inside a command,
or held the one subnegotiation whose end `parseTelnet` mistakes; `undoubled`, that
a width with a byte 255 was sent. The constants are the chunks the socket may
deliver (any bytes), what may be typed at once (any UTF-16 units, of which
`Binary` keeps the low bytes) and the widths (any numbers); `MCDesk` gives them
small sets.

`Logger`: a line is its number, a file the sequence of its lines, so that a gap
can be seen. `FlushTimerFires` and `CloseLogger` are `flushLog` with rotation,
of which any of the renames may fail (`stuck` in `Rotate`); `firstLine` is the last
line before the program started, or before a rotation last left `activity.log` in place;
`StreamOpens` and `BlockWritten` are what the write stream does in the background.

`SignIn`: `flow` are the `signIn` calls (preparing, window, exchanging, saving),
`check` the `getAuthStatus` calls, `leaving` the `signOut` calls at their await,
whose unlink may fail unseen. `signedOut` remembers a sign-out that removed the
token cache while nothing else was under way.

`DirectRdp`: one process per launch; `DirectEnds` is the exit handler, which
takes away the connection's entry whichever launch made it.

## Runs

| run | checks | bounds |
|---|---|---|
| hosts | `HostsDistinct` | 3 ssh-cf connections, 2 calls in flight, 3 cloudflared processes, 4 hosts |
| rdp | `TypeOK`, `AliveMeansRunning`, `ConnectedIsBacked` | 1 rdp-cf connection, 2 calls, 2 processes and 2 clients, 2 watcher loops, all platforms, renderer and tray |
| live | `ConnectedHasEntry`, `CallsSettle`, `ConnectingSettles`, `LoopsEnd` | the same on macOS from the renderer, with fairness |
| overlap | `TypeOK`, `FileWhole`, `PlainGone` | 1 id, 2 overlapping handlers, any number of restarts |
| lists | `ImplementsListStore` | 2 ids, 1 handler at a time, any number of restarts |
| | `ConfiguredKept`, `ConfiguredIsPolled` | 2 URLs, a policy URL or none, 1 save at a time, 2 fetches, 2 intervals, with fairness |
| tabs | `TypeOK`, `SessionHasTab`, `OpenTabBacked`, `ConnectedBacked`, `TabsSettle`, `ClosedTabEnds` | 1 connection of each protocol, with and without jump host, own and managed; 1 window, 2 tabs, 3 retries, with fairness |
| desk | one or more properties of each of the seven parts, and their types | see below, with fairness |
| stuck, cred | one violated claim each, see Findings | 1 connection, 1 call |
| stale | a violated claim | 1 id, 2 handlers |
| off | a violated claim | no policy URL, 1 save at a time |
| stamp | a violated claim | 1 own SSH connection, 2 windows, 2 tabs |

Run lists puts the two lists the main process keeps on disk side by side: a
behaviour of `MCLists` is one of `ConnStore` or one of `Sync` (whose names do not collide), as `part` says.

Run desk. The seven parts share no variable and none calls another (an SFTP
session's own life is in `Terminal`; `SftpPanel` only knows that it lives or has
ended), so a behaviour of `MCDesk` is one of one part: the variable
`part`, which no step changes, says which. The parts would each be a run of a few thousand states; side
by side they cost the sum of them, not the product.

| property | part | what it says |
|---|---|---|
| `EntriesOfPath`, `ListingFresh`, `SpinnerEnds`, `FileLoopsEnd` | sftp | rows belong to the path shown; after the last task they are what the server has, but for what a failed upload may have left; spinner and loops end, also when the session does |
| `StatusShown`, `OwnShown` | views | with nothing under way the page has main's statuses and every own connection |
| `RunningHasLoop`, `PollsEnd` | debug | no poll is on without a loop, and each loop of a stopped poll ends |
| `TextRead`, `ServerReads` | telnet | up to the first chunk `parseTelnet` cannot read the text is that of RFC 854; the server reads the low bytes of what was typed and the last size, up to the first width with a byte 255 |
| `BufferedIsFlushed`, `LogInOrder`, `NoGapInFile` | log | a buffered line has a flush to come; from the oldest file to the buffer the lines are in order and none is there twice, whichever renames fail; those in the current file and on their way to it follow each other up to the last, since the program started or `activity.log` last could not be moved |
| `SignInAnswered`, `SignedOutStays` | signin | callers are answered; a sign-out that removed the cache with nothing under way lasts |
| `DirectBacked`, `DirectSettles` | direct | connected has a client whose end will be reported; connecting ends |

Bounds of the tunnel. `RoomForCall` starts a call only while a process object of
each kind is free for every call in flight; `StartRdpWatcher` needs a free loop.
Two calls are what it takes for connects of the same id to overlap, two
processes for an old cloudflared to exit under a new entry, two loops for one to
lose its handle, three connections for a host to be freed between two that stay.
`HostsSymmetry` is used only where no connection is an RDP connection;
`ObjectSymmetry` permutes processes, calls and loops, which the model never
tells apart.

Bounds of the store. Two ids let an edit of one connection disturb another; two
handlers are enough for each step of one to fall between any two of the other.
The proofs below need neither bound.

Bounds of sync. Two fetches are a start whose first fetch is late and whatever
comes after it; `RoomForStart` begins a save only while an interval is left for
every start that may follow, because the code never takes back an interval that
has lost its handle. Run lists has a policy that stays what it is
(`UNCHANGED policy`, as in `SteadyPolicySpec`), and one save at a time: without either, `ConfiguredKept` does not hold (see
Observations). `SyncTypeOK` is proved and not part of a run.

Bounds of the terminals. Two tabs are enough for one to be connecting while the
other is open, closed, or cancelled, and for the last-tab cases; `RoomForTab`
keeps a tab for a window that loads, and `MaxOutbox` lets a window act only with
at most one request under way (an action may add up to three). `Watched` is one
tab: all tabs are alike, so what holds of one holds of the others. One window:
a second one multiplies the states by ten; `TerminalProofs` covers any number of
windows, and any number of tabs.

Bounds of the desk. Two directories and two names make a click land in another
directory than a task began in; one task and `PanelCalm` (rows are marked and
tasks begun while no request is under way) still leave navigation free to overlap
a task. Two refreshes overlap; `MaxMessages` lets main act by itself only
while nothing else waits for the page, `RoomForRefresh` and `SavedSent` keep a
refresh for every announced save. Three loops of the debug panel are one whose
answer is late, one whose handle was overwritten, and one more; the code has no
limit, and `StartPoll` waits for a free one. Chunks are one or two pieces: data,
a doubled 255, whole and torn commands, whole and torn subnegotiations; eight
received bytes hold the longest piece, or several chunks of shorter ones. Widths
80 and 300 differ in the high byte, 511 has a byte 255; a character typed is
ASCII, or one whose low byte is 255. Six lines with two to a file and two
rotated files rotate more than once. Three clients and two launches let a launch, an
exit and a stop of three launches of one connection overlap.

Deadlock is checked in every other run. `desk` and `tabs` turn it off: a bounded log, Telnet stream or number of tabs really stops.

Fairness. In `Tunnel`: timers fire, the operating system answers a port
request, `cmdkey`, `open` and a poll. Nothing is assumed of users, of what
cloudflared prints, or of children exiting. In `Sync`: file operations end, a
fetch is answered, fails (the 10 s timeout among the reasons) or hangs for good, and
a live interval fires again and again. `ConfiguredKept` and `ConfiguredIsPolled`
except a URL whose first fetch hung.
`Tick` and `SaveEnds` are strongly fair only because the bound on fetches, which
the code does not have, can hold them back again and again. In `Terminal`:
messages are delivered, windows load, a client that is dialing becomes ready,
fails, times out (30 s for SSH, 20 s for a jump host, 15 s for Telnet) or is closed in
its handshake without a word (`SshVanishes`, after which it is `lost`), a closed
session ends (5 s), a reconnect timer fires; no user acts and an open session
need not end. In `SftpPanel` every request is answered or rejected; in
`DebugPoll` a stats answer takes at most the 5 s of its probe; in `DirectRdp`
`cmdkey` has a timeout and the other awaits are local.

`AliveMeansRunning` explains why the `exitCode === null` test of the reuse path
is sound although a signalled process passes it too: the exit handler has
removed the process from the entry by then. The test is *not* sound for the
RDP client, which is the finding `stuck`.

## Findings

* `stuck` - on Linux, "connected" can remain with no process left whose exit
  would correct it, when the RDP client was killed by a signal.
* `cred` - a Windows credential outlives the connection when the tunnel exits
  by itself, or is stopped while the client is being launched.
* `stale` - a first read that completes after another handler's write puts the
  old list back into the cache, which the comment says always holds the latest.
* `off` - removing or replacing the URL while a start awaits its first fetch
  leaves an interval that polls the old URL.
* `stamp` - a report of success that a window sent before a disconnect and a new
  connect makes the new connect's entry connected: the guard looks at
  `connectedAt`, which the new connect has just set to null.

### Observations

What the models contain because the code does it, and no run reports as a
violation. The properties above are stated so that they hold beside these.

Tunnels and direct RDP
* The exit handler of an old cloudflared looks its connection up by id and
  removes the reservation of the connect that followed it (`tunnel.js:226`), which
  then ends with "cancelled".
* A direct launch that is stopped during its await still spawns its client and
  reports connected, without an entry; one client's exit removes the entry of the
  next launch. On macOS `open` exits at once, and with it the entry.

Terminals
* `disconnectById` closes the sessions that exist; a client that is dialing, at
  its jump host or opening its shell becomes a session afterwards (`OpenTabBacked`
  and `SessionHasTab` allow it: its tab shows it).
* `cancelPendingConnections` destroys the clients of every tab of the connection;
  if `destroy()` emits no event the create of another tab never settles (`lost`,
  the exception of `TabsSettle`). So does a connection that the server closes in
  the handshake without an error: no close handler exists before ready, and the
  closed client no longer times out.
* A reconnect is a new tab with attempt 0, so the configured number of attempts
  is never reached, and a retry that fails is not retried. An explicit disconnect
  triggers it. Reconnecting the last tab closes its window, and the create
  request that may still leave it makes a session nobody owns (`orphan`).
* The window's close button leaves its sessions and the status as they are; with
  two windows, the last tab of one reports disconnected for both.
* A tray connect, and a managed connection's, stay "connecting": no window reports.
* A connecting SFTP tab that is closed reports disconnected although a terminal
  tab lives; an SFTP error does not tell its tab; the jump host's client is not
  ended on some failures (`leak`); a serial error leaves its port open (`stray`).

Connection store
* Nothing removes a `.tmp` file after a crash or a failed write or rename. One that
  was written without a keyring may hold plain passwords, and outlives the migration;
  `PlainGone` says that one written with a keyring has none.

Managed connections
* A first fetch whose response is closed in mid-body stays pending: no interval is
  armed, and the URL is not polled until the next start or change (`abandoned`).
* Of two overlapping saves the one written last merges into the settings read
  before the other was written (`settings.js:151`): it takes the other's URL back
  and, comparing with what it read itself, does not restart sync.
* A URL that group policy sets while the program runs is in effect and is not
  polled until the next start: the policy poll only tells the windows
  (`index.js:107`).

Main window
* Delete and duplicate replace the list by the own connections: managed ones are
  missing until the next refresh, and a delete answered during a refresh can be
  undone by it (`OwnShown` is an inclusion for this reason).
* The debug poll starts again while the window is hidden on any status update,
  and each detail view drawn while a stats answer is awaited adds a loop for good.
* Marked rows of the SFTP browser survive navigation, so "Delete n" acts on files
  of the same name elsewhere; the loops follow navigation; a listing that fails
  leaves a panel without buttons.
* An upload that fails may have made the file all the same; the handler lists only
  after a success, so the rows lack it until the next listing (`partial`).

Logger, sign-in, Telnet
* Four rotated files are kept for `MAX_ROTATED = 3` (the loop renames
  `activity.log.3` to `.4`), where `CHANGELOG.md:177` says "3 rotated copies"; blocks
  the stream has not come to are lost when the file rotates. A rename that fails is not
  noticed: the next one replaces the file that stayed, and if `activity.log` itself
  stays, the new stream goes on in it after a gap.
* Every error of the unlink in `signOut` counts as "no file": tokens that could not be
  removed stay, and the next status check signs in with them.
* A sign-in whose window was closed during the exchange still signs in; an
  exchange or a status check under way undoes a sign-out.
* `parseTelnet` forgets a command that is split over two chunks, takes a doubled
  255 followed by SE for the end of a subnegotiation. `buildNaws` does not double a
  byte 255 of a width (255 or 511 columns), which RFC 854, to which `CHANGELOG.md:95-96`
  refers, asks for: servers differ in what they make of it, and a width of 65520 would end the
  subnegotiation in the middle. `telnetWrite` cuts a character above 255 to its low
  byte; its comment takes what xterm sends for latin1.

## Proofs

`TunnelProofs`: for all finite sets of connections and any sets of calls,
processes, clients and loops, from `RegistryAssumption`:

* `TypeCorrect` (and `TypesHold`): `TypeInv` = `TypeOK` and ownership - each
  frame in flight, running child and polling loop has a connection. Ownership
  is what makes the handlers' updates by id well typed.
* `LoopbackHostsDistinct`: `HostsDistinct`, assuming fewer connections than
  hosts. Only `Connect` adds an entry; `PickLoopbackHost` returns the least
  free host, which exists by cardinality, and no other step changes a host.
* `BackedCorrect`, then `ConnectedBacked` and `AliveExact`: the invariant
  `BackedInv` says that a process an entry points to is running for that
  connection or has an exit code; that a waiting connect's process runs; and on
  Windows the same of the RDP client. Without the first part nothing links an
  entry to its process, without the second a ready line could come from a dead
  one.
* `ConnectedListed`: `ConnectedHasEntry`, assuming that all connects come from
  the renderer. `PortFromIpc` is the strengthening: a connect that still waits for
  its port, the one case in which an entry goes without a status of its own,
  has a caller that reports.

`ConnStoreProofs`: for any set of ids and any number of overlapping handlers,
from `StoreAssumption` (null is neither a connection nor a list):

* `StoreTypesHold`: `TypeOK`, strengthened by `OpInv` - a frame that saves or
  deletes names an id, without which the edit is not an edit of a list.
* `FileNeverTorn`: `FileWhole`, strengthened by `RenameReady` - a handler about
  to rename has a complete temporary file. It rests on the names of temporary
  files being distinct.
* `NoPlainLeft`: `PlainGone`, about `connections.json` and about temporary files that
  were left behind while there was a keyring, strengthened by `StartInv` (one call at a time
  during start-up, the right one for the phase) and `CleanInv` (with a keyring,
  no list in memory holds a plain password except the one the migration has
  just read). `EditedNoPlain` is the fact about the edits. With a keyring a
  migration always leaves a cache behind, so no later handler reads the disk.
* `SerialImplements`: `Spec /\ []Serial => ImplementsListStore` for any number of
  calls and restarts; `Serial` says that no two handlers wait at the same time,
  which is what the refinement needs and the code does not enforce.
  `SerialInv` says what each frame holds: what was read is the saved list or,
  after a failed read, nothing; what is being written is an edit of the cached
  list. `StepRefines` then maps every step: the rename is the abstract operation,
  the read that fills the cache is the abstract read, a failed one makes the
  program blind, all others stutter. `OneCallImplements` is the case of run
  lists, where one call at a time can exist.
* `SerialCacheLatest`: under the same condition the claim that run stale violates holds.

`TerminalProofs`, for any connections, windows, tabs and numbers of attempts:
`TerminalCorrect` proves the inductive invariant `TerminalInv`, from which
`TerminalTypesHold`, `SessionsHaveTabs`, `OpenTabsBacked` and
`ConnectedTerminalsBacked` follow. Its parts:

* `Placed`, `WindowInv`: a tab that exists is in an open window; a window that
  loads has sent nothing.
* `CreateInv`: a tab's create request is in one queue, once, and its tab waits
  for it; no session was made for it before. Without it a second create could
  overwrite a session.
* `SessionInv`: which states of a session, an answer, a close event and a tab go
  together. It has the three properties' cases and what makes them inductive: an
  answer belongs to a tab that awaits it, a session in the making to such a tab
  or an orphan.
* `ReportInv`: after each report of success in a queue comes one of failure,
  unless a terminal tab of that window lives or tabs were orphaned. It is what a
  delayed report of success needs, which may arrive long after its tab closed.

The session events keep a tab's part by one lemma each (`OpensKeeps`,
`FailsKeeps`, `OverKeeps`, `SilentKeeps`), shared by the three protocols; what is
sent and taken keeps the queues' part (`SendsMore`, `TakesOne`).

`DeskProofs` has the small components, and the desktop as a whole.

Direct RDP: `DirectTypesHold` (types, and that calls under way and
processes have a connection) and `ConnectedHasClient`: `DirectBacked` is
inductive over those types, for any number of launches. The case that carries it
is `DirectEnds`: the handler resets the status of the very connection whose
client it takes away.

Sign-in, for any numbers of calls: `SignInTypesHold`; `SignInsAnswered`
(every way to "done" settles first); `SignOutLasts`, by `OutInv` - a sign-out
that counts leaves neither tokens nor a call under way, and everything else that
could sign in needs one of them.

Debug panel, for any connections and loops: a poll (flag, handle, loops)
is `Good` if it has the right type and, when running, a loop. `StoppedGood`,
`TickedGood` and `AgainGood` say so of what the functions return; `RenderDetail`
and the actions only compose them. `DebugTypesHold` and `PollHasLoop` follow.

The log, for any file size and number of files: `LoggerTypesHold`;
`BufferFlushed`, by `TimerInv` (a timer that has fired is forgotten, so that the
next line arms one); `LogOrdered` (`LogInOrder`), by lemmas on what a
rotation makes of the files, whichever renames fail (`RotationLeaves`: a file's new
lines are its own or those of the file before it, and activity.log's are not kept in
two places); and `LinesFollow`
(`NoGapInFile`), by `GapInv`: what the stream holds in each of its states, that
no line has a number to come, and the property itself. A line only moves from the buffer
to the stream's queue, its block and the file, which leaves their concatenation
as it is (`LinesStay`), or all that the file and the stream hold goes at a
rotation, and what is left is its end (`LinesGone`).

Managed connections, for any URLs, saves, fetches and intervals, from
`SyncAssumption`: `SyncTypesHold`, and `UrlStaysPolled`:
`SteadySpec /\ []OneSave => []ConfiguredKept`. Between saves the URL in effect has
an interval that polls it, or a start under way that will arm one. While a save
is under way this need not be so, hence `SaveInv`: a save that is writing holds the
setting as the URL before, and that one is `Covered`; after the write the setting is
the new URL, and what is covered is still the one before, until the save's
end restarts sync, or finds the two equal. `CoveredByCalls`
says that no fetch, tick or end of a start takes a covered URL away: a start that
ends arms its interval whether or not the fetch failed. Both hypotheses are needed:
under `SyncSpec`, TLC violates `ConfiguredKept` with two saves, and with one save and a
policy that changes.
`ConfiguredKept` is the safety part of `ConfiguredIsPolled`; that intervals go
on firing is fairness, and stays with TLC.

The desktop: `DeskRunsParts`, that a behaviour of the seven parts side by side is,
seen part by part, one of each part's specification, since a step of one part
leaves the variables of the others alone; and from it and the types of each part
`DeskTypesHold` (`DeskTypeOK`). Every theorem about a part therefore holds of `DeskSpec`.

`TelnetProofs`, for any chunks, inputs and widths (`TelnetAssumption` only types them):
`TelnetTypesHold`, `StreamRead` (`TextRead`) and `ServerUnderstands` (`ServerReads`).

* The recursive functions are defined by CHOOSE, so that they satisfy their
  equations is a lemma of each (`ReadsDef`, `EscapesStep`, `LoopDef`), by giving a
  function that does. `Climbs` and `Descends` are induction over indices, up and
  down, for a *set* of indices rather than a formula: `WFMin` on the indices that
  are not in it. What a recursive function computes is then an instance.
* `ReadsConcat`: reading two sequences is reading the second from where the first
  ends. With it the reference reads a stream chunk by chunk, and an answer after
  what was sent before.
* `StepText`, by the cases of `StepCases`: one pass of the loop that begins where
  the reference is between commands adds to the output what the reference adds
  on the same bytes, and ends there again. The case that carries it is the subnegotiation,
  whose end is searched for (`SubEndFirst`) while the reference walks: they
  agree because a readable chunk has no other place that looks like an end.
  `StaysInside` says that the reference is inside a
  subnegotiation for as long as the search finds no end. A pass that breaks off
  leaves it inside a command, which a readable chunk does not do. `ChunkText` is
  the whole chunk, by `Descends`.
* `EscapedRead`: bytes, doubled, are read as they were; `BinaryBytes`: what is sent
  of two inputs is what is sent of each. `OptionReplyOk`,
  `SubReplyOk`: every answer is read as no text at all, and one that asks for the
  size to be known makes the current size the last one told, if no byte of the width
  is 255 (`Plain`), which is all `buildNaws` gives.

`ViewsProofs`, for any connections and any number of overlapping refreshes, from
`ViewsAssumption` (a refresh is not mistaken for the user or a broadcast, and
there are finitely many):
`ViewsCorrect` proves the inductive invariant `ViewsInv`, from which
`ViewsTypesHold` and `StatusesShown` follow; `OwnListed` proves `OwnShown` on top of it.

* `OneEach`: a refresh has at most one question or answer under way, about what
  it awaits. Without it an answer could reach a refresh that awaits another.
* `StatusInv`: the last message in the channel about a connection carries the
  status main holds; where no message is about it, the page shows the right
  status or a refresh that will ask for it is under way. `Spoken` (a message is
  appended) and `Heard` (one is taken) carry it over the actions.
* `SavedRoom`: an idle refresh is left for every save that is yet to be heard of,
  so that hearing of it starts one. It is what the guards of the model promise in
  place of the code's unlimited refreshes; a count, hence the finite set.
* `UserInv`: the sidebar waits for one answer, of the kind it asked for.
* `OwnInv`: for each own connection, where nobody is yet to ask for the own
  list, the last answer with that list has the connection, or the refresh that
  goes on with it will show it, or the page does. `OwnedSpoken`, `OwnedAnswer`,
  `OwnedRefresh`, `OwnedUpdate`, `OwnedUser` and `OwnedEdit` carry it over a
  question, an answer and the handlers.

`SftpProofs`, for any directories, names, tasks and requests, from
`SftpAssumption` (a task is not named like the panel's own two listings):
`SftpCorrect` proves `SftpInv`, and `SftpTypesHold`, `RowsOfPath` (`EntriesOfPath`)
and `RowsFresh` (`ListingFresh`) follow. `PathInv`: before the first path nothing
is under way. `OpeningInv`: the first listing is alone in the queues, so its
answer cannot be overtaken. `FreshInv`: while no loop runs, no listing is asked
for and no success waits to be heard by its task (each of which is sure to bring a
listing), the last listing among the answers, or else the panel, has what the server
has, but for files in `partial`. The work is in
the steps where the server carries out an operation (`FreshServed`) and where a
listing is shown (`FreshListed`).

`Queues` has what the two modules need of sequences: what a queue holds of a
kind (`Without`) and whether the last of it has a property (`LastIn`), after an
append and after a take.

What stays with TLC: all liveness properties (the prover has no fairness and no
ENABLED), and the violations. Every invariant of a passing run is stated by a theorem. Two of them have hypotheses that their
runs need as well: the refinement of the store (`Serial`: handlers that overlap do not
implement `ListStore`) and `ConfiguredKept` (steady policy, one save at a time).
`LoopbackHostsDistinct` and `ConnectedListed` have the conditions on constants
named above, which their runs meet.

## Plan

Done: registry, RDP client and tunnels; connection store; managed connections;
terminals; SFTP browser; connection list; debug panel; Telnet bytes; log file;
sign-in; direct RDP; proofs of all safety properties that hold.

What could follow:

1. Sync: versions of lists, for answers that come in another order.
2. The converse of `ConnectedBacked` for a connection with one window: while a
   terminal tab is open, the connection is not reported disconnected for good.
3. The parser's answers as such: that each request for an option is answered
   once and in order, not only that the answers are no text.

## Not modelled

* Start-up beyond the store, windows, updater, version queries: I/O around the
  modelled parts, without state of their own that outlives a call.
* `validation.js` and `crypto.js`: stateless functions of one field or one block.
* RDP arguments, `.rdp` files, menus, log wording: string formatting.
* The preload bridge: each method forwards to one channel.
* Of the renderer: forms, search, groups, drag and drop, themes, markup; xterm;
  downloads over SFTP.
* External SSH and Telnet clients (`launchSshClient`, `launchTelnetClient`): they are
  spawned and forgotten.
