----------------------------- MODULE DebugPoll -----------------------------
(***************************************************************************)
(* The debug panel of the main window (renderer/src/main.ts): a loop asks  *)
(* for the stats of the selected connection, waits a second and asks       *)
(* again.  One flag and one timer handle control it, but every detail view *)
(* that is drawn starts the poll anew, whether or not an answer to the     *)
(* last question is under way.                                             *)
(***************************************************************************)
CONSTANTS
  Shown,       \* connections in the sidebar
  PollLoops,   \* loops that can be alive at once; a bound, the code has none
  NotSelected

ASSUME DebugPollAssumption == NotSelected \notin Shown \cup PollLoops

VARIABLES
  selected,       \* selectedId
  settingsView,
  debugMode,
  hidden,         \* document.hidden
  statsPanel,     \* the element debug-stats is in the page
  linked,         \* connections whose status is "connected"
  pollRunning,    \* debugPollRunning
  pollTimer,      \* debugPollTimer: the loop whose timer it is
  pollLoop        \* the calls of tick

viewVars == <<selected, settingsView, debugMode, hidden, statsPanel, linked>>
pollVars == <<pollRunning, pollTimer, pollLoop>>
debugVars == <<viewVars, pollVars>>

NoLoop == [st |-> "off", conn |-> NotSelected]

DebugTypeOK ==
  /\ selected \in Shown \cup {NotSelected} /\ linked \subseteq Shown
  /\ {settingsView, debugMode, hidden, statsPanel, pollRunning} \subseteq BOOLEAN
  /\ pollTimer \in PollLoops \cup {NotSelected}
  /\ pollLoop \in [PollLoops -> [st : {"off", "asking", "timer"}, conn : Shown \cup {NotSelected}]]

DebugInit ==
  /\ selected = NotSelected /\ linked = {}
  /\ settingsView = FALSE /\ debugMode = FALSE /\ hidden = FALSE /\ statsPanel = FALSE
  /\ pollRunning = FALSE /\ pollTimer = NotSelected
  /\ pollLoop = [l \in PollLoops |-> NoLoop]

-----------------------------------------------------------------------------
(* The loops.  A poll is the flag, the handle and the loops together.       *)

Poll(running, handle, loops) == [running |-> running, handle |-> handle, loops |-> loops]
CurrentPoll == Poll(pollRunning, pollTimer, pollLoop)
Becomes(p) == pollRunning' = p.running /\ pollTimer' = p.handle /\ pollLoop' = p.loops

Cleared(p) ==
  IF p.handle # NotSelected /\ p.loops[p.handle].st = "timer"
  THEN [p.loops EXCEPT ![p.handle] = NoLoop] ELSE p.loops

\* Mutant: the timer is cleared and the flag stays.
StoppedTimer(p) == Poll(p.running, NotSelected, Cleared(p))

\* stopDebugPoll; a timer whose handle was overwritten is not cleared.
Stopped(p) == Poll(FALSE, NotSelected, Cleared(p))

(* tick up to its await.  updateDebugStats stops the poll when its panel is *)
(* gone or its own connection is not connected.                             *)
Ticked(p, l, c, panel, up) ==
  IF panel /\ c \in up
  THEN [p EXCEPT !.loops[l] = [st |-> "asking", conn |-> c]]
  ELSE Stopped([p EXCEPT !.loops[l] = NoLoop])

(* startDebugPoll: stops first, and starts for a connected connection only. *)
StartPoll(p, c, panel, up) ==
  IF c \notin up THEN Becomes(Stopped(p))
  ELSE \E l \in PollLoops :
         /\ Stopped(p).loops[l].st = "off"
         /\ Becomes(Ticked([Stopped(p) EXCEPT !.running = TRUE], l, c, panel, up))

\* Mutant: only the timer is relied on to stop a loop.
GoesOnAnyway(p) == TRUE

\* tick looks at the flag before and after its await.
GoesOn(p) == p.running

Again(p, l) ==
  IF GoesOn(p) THEN Poll(p.running, l, [p.loops EXCEPT ![l].st = "timer"])
  ELSE [p EXCEPT !.loops[l] = NoLoop]

(* get-tunnel-stats answers, after a latency probe of at most five seconds; *)
(* an error stops the poll, of whatever connection it is by now.            *)
StatsArrive(l) ==
  /\ pollLoop[l].st = "asking"
  /\ \/ Becomes(Again(CurrentPoll, l))
     \/ Becomes(Again(Stopped(CurrentPoll), l))
  /\ UNCHANGED viewVars

PollTimerFires(l) ==
  /\ pollLoop[l].st = "timer"
  /\ Becomes(IF GoesOn(CurrentPoll) THEN Ticked(CurrentPoll, l, pollLoop[l].conn, statsPanel, linked)
             ELSE [CurrentPoll EXCEPT !.loops[l] = NoLoop])
  /\ UNCHANGED viewVars

-----------------------------------------------------------------------------
(* The window *)

(* renderDetail, of the state that is set by now: it starts or stops the    *)
(* poll, except when there is nothing to show but settings or a welcome.    *)
RenderDetail(p) ==
  IF settingsView' \/ selected' = NotSelected
  THEN statsPanel' = FALSE /\ Becomes(p)
  ELSE /\ statsPanel' = debugMode'
       /\ IF debugMode' THEN StartPoll(p, selected', TRUE, linked') ELSE Becomes(Stopped(p))

\* A click on a connection in the sidebar.
Select(c) ==
  LET other == selected # c \/ settingsView IN
  /\ UNCHANGED <<hidden, linked>>
  /\ selected' = c /\ settingsView' = FALSE
  /\ debugMode' = (debugMode /\ ~other)
  /\ RenderDetail(IF other THEN Stopped(CurrentPoll) ELSE CurrentPoll)

\* The arrow keys keep the debug mode.
ArrowTo(c) ==
  /\ UNCHANGED <<settingsView, debugMode, hidden, linked>>
  /\ ~settingsView /\ selected' = c
  /\ RenderDetail(CurrentPoll)

ToggleDebug ==
  /\ UNCHANGED <<selected, settingsView, hidden, linked>>
  /\ selected # NotSelected /\ ~settingsView
  /\ debugMode' = ~debugMode
  /\ RenderDetail(CurrentPoll)

SettingsButton ==
  /\ UNCHANGED <<hidden, linked>>
  /\ settingsView' = ~settingsView
  /\ selected' = IF settingsView' THEN NotSelected ELSE selected
  /\ debugMode' = (debugMode /\ ~settingsView')
  /\ RenderDetail(IF settingsView' THEN Stopped(CurrentPoll) ELSE CurrentPoll)

\* onRdpClosed and other events that draw the detail view again.
DrawAgain ==
  /\ UNCHANGED <<selected, settingsView, debugMode, hidden, linked>>
  /\ RenderDetail(CurrentPoll)

(* onStatusUpdate draws the detail view whichever connection it is about,   *)
(* and whether or not the window is hidden.                                 *)
StatusUpdate(c) ==
  LET down == c \in linked IN
  /\ UNCHANGED <<selected, settingsView, debugMode, hidden>>
  /\ linked' = IF down THEN linked \ {c} ELSE linked \cup {c}
  /\ RenderDetail(IF down /\ c = selected THEN Stopped(CurrentPoll) ELSE CurrentPoll)

\* visibilitychange
Hide ==
  /\ ~hidden /\ hidden' = TRUE
  /\ Becomes(Stopped(CurrentPoll))
  /\ UNCHANGED <<selected, settingsView, debugMode, statsPanel, linked>>

ShowAgain ==
  /\ hidden /\ hidden' = FALSE
  /\ IF debugMode /\ selected \in linked
     THEN StartPoll(CurrentPoll, selected, statsPanel, linked)
     ELSE UNCHANGED pollVars
  /\ UNCHANGED <<selected, settingsView, debugMode, statsPanel, linked>>

DebugNext ==
  \/ \E c \in Shown : Select(c) \/ ArrowTo(c) \/ StatusUpdate(c)
  \/ ToggleDebug \/ SettingsButton \/ DrawAgain \/ Hide \/ ShowAgain
  \/ \E l \in PollLoops : StatsArrive(l) \/ PollTimerFires(l)

\* Every question is answered, and timers fire.
DebugFairness ==
  \A l \in PollLoops : WF_debugVars(StatsArrive(l)) /\ WF_debugVars(PollTimerFires(l))

DebugSpec == DebugInit /\ [][DebugNext]_debugVars

-----------------------------------------------------------------------------
(* Properties *)

(* The flag is never set without a loop that will look at it: a poll does   *)
(* not stop by losing its last loop or timer in a restart.                  *)
RunningHasLoop == pollRunning => \E l \in PollLoops : pollLoop[l].st # "off"

(* A poll that was stopped comes to an end, every loop of it, unless it is  *)
(* started again.                                                           *)
PollsEnd == ~pollRunning ~> (pollRunning \/ \A l \in PollLoops : pollLoop[l].st = "off")
=============================================================================
