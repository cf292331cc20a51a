----------------------------- MODULE DeskProofs -----------------------------
(***************************************************************************)
(* Proofs about the small parts, which share no state: the debug panel's   *)
(* poll, sign-in, RDP without a tunnel, the log and managed connections;   *)
(* for any numbers of connections, loops, calls, accounts, processes,      *)
(* files, lines, URLs and fetches.  At the end, the seven parts of the     *)
(* desktop side by side: it runs the specification of each, so that what   *)
(* is proved of a part holds in it.                                        *)
(***************************************************************************)
EXTENDS MCDesk, Sync, SftpProofs, ViewsProofs, TelnetProofs

-----------------------------------------------------------------------------
(* The debug panel *)

PollLoopType == [st : {"off", "asking", "timer"}, conn : Shown \cup {NotSelected}]
PollType == [running : BOOLEAN, handle : PollLoops \cup {NotSelected},
             loops : [PollLoops -> PollLoopType]]

(* What a poll, stopped or started, has to be: running only with a loop.    *)
Alive(p) == p.running => \E l \in PollLoops : p.loops[l].st # "off"
Good(p) == p \in PollType /\ Alive(p)

ViewTypeOK ==
  /\ selected \in Shown \cup {NotSelected} /\ linked \subseteq Shown
  /\ {settingsView, debugMode, hidden, statsPanel} \subseteq BOOLEAN

DebugInv == ViewTypeOK /\ Good(CurrentPoll)

-----------------------------------------------------------------------------
(* What the functions on polls return *)

(* Stopping a poll, whatever loops it leaves.                               *)
LEMMA StoppedGood ==
  ASSUME NEW p \in PollType
  PROVE  Good(Stopped(p)) /\ ~Stopped(p).running
<1>1. NoLoop \in PollLoopType
  BY DEF NoLoop, PollLoopType
<1>2. Cleared(p) \in [PollLoops -> PollLoopType]
  BY <1>1 DEF Cleared, PollType
<1> QED
  BY <1>2 DEF Stopped, Poll, Good, Alive, PollType

(* A loop that goes away for good, or is set to something.                  *)
LEMMA LoopSet ==
  ASSUME NEW p \in PollType, NEW l \in PollLoops, NEW new \in PollLoopType
  PROVE  /\ [p EXCEPT !.loops[l] = new] \in PollType
         /\ [p EXCEPT !.loops[l] = new].loops[l] = new
         /\ [p EXCEPT !.loops[l] = new].running = p.running
BY DEF PollType

(* A tick asks, so that its loop lives, or stops the poll.                  *)
LEMMA TickedGood ==
  ASSUME NEW p \in PollType, NEW l \in PollLoops, NEW c, NEW visible,
         NEW up \in SUBSET Shown
  PROVE  Good(Ticked(p, l, c, visible, up))
<1>1. NoLoop \in PollLoopType
  BY DEF NoLoop, PollLoopType
<1>2. CASE visible /\ c \in up
  <2> DEFINE new == [st |-> "asking", conn |-> c]
  <2>1. new \in PollLoopType /\ new.st # "off"
    BY <1>2 DEF PollLoopType
  <2>2. Ticked(p, l, c, visible, up) = [p EXCEPT !.loops[l] = new]
    BY <1>2 DEF Ticked
  <2> QED
    BY <2>1, <2>2, LoopSet DEF Good, Alive
<1>3. CASE ~(visible /\ c \in up)
  <2>1. [p EXCEPT !.loops[l] = NoLoop] \in PollType
    BY <1>1, LoopSet
  <2> QED
    BY <1>3, <2>1, StoppedGood DEF Ticked
<1> QED
  BY <1>2, <1>3

(* startDebugPoll, of whatever poll there was.                              *)
LEMMA StartPollGood ==
  ASSUME NEW p \in PollType, NEW c, NEW visible, NEW up \in SUBSET Shown,
         StartPoll(p, c, visible, up)
  PROVE  Good(CurrentPoll')
<1>1. CASE c \notin up
  BY <1>1, StoppedGood DEF StartPoll, Becomes, CurrentPoll, Poll, Good, Alive, PollType
<1>2. CASE c \in up
  <2> DEFINE started == [Stopped(p) EXCEPT !.running = TRUE]
  <2>1. started \in PollType
    BY StoppedGood DEF Good, PollType
  <2>2. PICK l \in PollLoops : Becomes(Ticked(started, l, c, visible, up))
    BY <1>2 DEF StartPoll
  <2>3. Good(Ticked(started, l, c, visible, up))
    BY <2>1, TickedGood
  <2> HIDE DEF started
  <2> QED
    BY <2>2, <2>3 DEF Becomes, CurrentPoll, Poll, Good, Alive, PollType
<1> QED
  BY <1>1, <1>2

(* A step that makes the poll a good one.                                   *)
LEMMA BecomesGood ==
  ASSUME NEW p, Good(p), Becomes(p)
  PROVE  Good(CurrentPoll')
BY DEF Becomes, CurrentPoll, Poll, Good, Alive, PollType

(* A loop after its answer: its timer lives on, or the poll was stopped.    *)
LEMMA AgainGood ==
  ASSUME NEW p \in PollType, NEW l \in PollLoops
  PROVE  Good(Again(p, l))
<1>1. CASE p.running
  <2> DEFINE loops == [p.loops EXCEPT ![l].st = "timer"]
  <2>1. loops \in [PollLoops -> PollLoopType] /\ loops[l].st # "off"
    BY DEF PollType, PollLoopType
  <2>2. Again(p, l) = Poll(p.running, l, loops)
    BY <1>1 DEF Again, GoesOn
  <2> HIDE DEF loops
  <2> QED
    BY <2>1, <2>2 DEF Poll, Good, Alive, PollType
<1>2. CASE ~p.running
  <2>1. NoLoop \in PollLoopType
    BY DEF NoLoop, PollLoopType
  <2>2. Again(p, l) = [p EXCEPT !.loops[l] = NoLoop]
    BY <1>2 DEF Again, GoesOn
  <2> QED
    BY <1>2, <2>1, <2>2, LoopSet DEF Good, Alive
<1> QED
  BY <1>1, <1>2

(* renderDetail, of a good poll.                                            *)
LEMMA RenderGood ==
  ASSUME NEW p, Good(p), RenderDetail(p), linked' \in SUBSET Shown, debugMode' \in BOOLEAN
  PROVE  Good(CurrentPoll') /\ statsPanel' \in BOOLEAN
<1>1. p \in PollType
  BY DEF Good
<1>2. CASE settingsView' \/ selected' = NotSelected
  BY <1>2, BecomesGood DEF RenderDetail
<1>3. CASE ~(settingsView' \/ selected' = NotSelected) /\ debugMode'
  <2>1. StartPoll(p, selected', TRUE, linked') /\ statsPanel' = debugMode'
    BY <1>3 DEF RenderDetail
  <2> QED
    BY <1>1, <2>1, StartPollGood
<1>4. CASE ~(settingsView' \/ selected' = NotSelected) /\ ~debugMode'
  <2>1. Becomes(Stopped(p)) /\ statsPanel' = debugMode'
    BY <1>4 DEF RenderDetail
  <2> QED
    BY <1>1, <2>1, StoppedGood, BecomesGood
<1> QED
  BY <1>2, <1>3, <1>4

-----------------------------------------------------------------------------
(* Steps *)

(* Every step leaves a good poll and well-typed views.                      *)
LEMMA DebugStep ==
  ASSUME DebugInv, [DebugNext]_debugVars
  PROVE  DebugInv'
<1> USE DEF DebugInv
<1>1. Good(CurrentPoll) /\ CurrentPoll \in PollType /\ Good(Stopped(CurrentPoll))
      /\ Stopped(CurrentPoll) \in PollType
  BY StoppedGood DEF Good
<1>2. ASSUME NEW l \in PollLoops, StatsArrive(l) PROVE DebugInv'
  <2>1. Good(Again(CurrentPoll, l)) /\ Good(Again(Stopped(CurrentPoll), l))
    BY <1>1, AgainGood
  <2>2. Good(CurrentPoll')
    BY <1>2, <2>1, BecomesGood DEF StatsArrive
  <2> QED
    BY <1>2, <2>2 DEF StatsArrive, viewVars, ViewTypeOK
<1>3. ASSUME NEW l \in PollLoops, PollTimerFires(l) PROVE DebugInv'
  <2>1. Good(Ticked(CurrentPoll, l, pollLoop[l].conn, statsPanel, linked))
    BY <1>1, TickedGood DEF ViewTypeOK
  <2>2. ~CurrentPoll.running => Good([CurrentPoll EXCEPT !.loops[l] = NoLoop])
    <3>1. NoLoop \in PollLoopType
      BY DEF NoLoop, PollLoopType
    <3> QED
      BY <1>1, <3>1, LoopSet DEF Good, Alive
  <2>3. Good(CurrentPoll')
    BY <1>3, <2>1, <2>2, BecomesGood DEF PollTimerFires, GoesOn
  <2> QED
    BY <1>3, <2>3 DEF PollTimerFires, viewVars, ViewTypeOK
<1>4. ASSUME NEW c \in Shown, Select(c) PROVE DebugInv'
  <2>1. linked' \in SUBSET Shown /\ debugMode' \in BOOLEAN /\ settingsView' \in BOOLEAN
        /\ selected' \in Shown \cup {NotSelected} /\ hidden' \in BOOLEAN
    BY <1>4 DEF Select, ViewTypeOK
  <2>2. Good(CurrentPoll') /\ statsPanel' \in BOOLEAN
    BY <1>1, <1>4, <2>1, RenderGood DEF Select
  <2> QED
    BY <2>1, <2>2 DEF ViewTypeOK
<1>5. ASSUME NEW c \in Shown, ArrowTo(c) PROVE DebugInv'
  <2>1. linked' \in SUBSET Shown /\ debugMode' \in BOOLEAN /\ settingsView' \in BOOLEAN
        /\ selected' \in Shown \cup {NotSelected} /\ hidden' \in BOOLEAN
    BY <1>5 DEF ArrowTo, ViewTypeOK
  <2>2. Good(CurrentPoll') /\ statsPanel' \in BOOLEAN
    BY <1>1, <1>5, <2>1, RenderGood DEF ArrowTo
  <2> QED
    BY <2>1, <2>2 DEF ViewTypeOK
<1>6. ASSUME NEW c \in Shown, StatusUpdate(c) PROVE DebugInv'
  <2>1. linked' \in SUBSET Shown /\ debugMode' \in BOOLEAN /\ settingsView' \in BOOLEAN
        /\ selected' \in Shown \cup {NotSelected} /\ hidden' \in BOOLEAN
    BY <1>6 DEF StatusUpdate, ViewTypeOK
  <2>2. Good(CurrentPoll') /\ statsPanel' \in BOOLEAN
    BY <1>1, <1>6, <2>1, RenderGood DEF StatusUpdate
  <2> QED
    BY <2>1, <2>2 DEF ViewTypeOK
<1>7. CASE ToggleDebug \/ SettingsButton \/ DrawAgain
  <2>1. linked' \in SUBSET Shown /\ debugMode' \in BOOLEAN /\ settingsView' \in BOOLEAN
        /\ selected' \in Shown \cup {NotSelected} /\ hidden' \in BOOLEAN
    BY <1>7 DEF ToggleDebug, SettingsButton, DrawAgain, ViewTypeOK
  <2>2. Good(CurrentPoll') /\ statsPanel' \in BOOLEAN
    BY <1>1, <1>7, <2>1, RenderGood DEF ToggleDebug, SettingsButton, DrawAgain
  <2> QED
    BY <2>1, <2>2 DEF ViewTypeOK
<1>8. CASE Hide
  BY <1>1, <1>8, BecomesGood DEF Hide, ViewTypeOK
<1>9. CASE ShowAgain
  <2>1. Good(CurrentPoll')
    <3>1. CASE debugMode /\ selected \in linked
      BY <1>1, <1>9, <3>1, StartPollGood DEF ShowAgain, ViewTypeOK
    <3>2. CASE ~(debugMode /\ selected \in linked)
      BY <1>9, <3>2 DEF ShowAgain, pollVars, CurrentPoll
    <3> QED
      BY <3>1, <3>2
  <2> QED
    BY <1>9, <2>1 DEF ShowAgain, ViewTypeOK
<1>10. CASE UNCHANGED debugVars
  BY <1>10 DEF debugVars, viewVars, pollVars, ViewTypeOK, CurrentPoll
<1> QED
  BY <1>2, <1>3, <1>4, <1>5, <1>6, <1>7, <1>8, <1>9, <1>10 DEF DebugNext

(* Types and the poll together, at the start and after every step.          *)
THEOREM DebugCorrect == DebugSpec => []DebugInv
<1>1. DebugInit => DebugInv
  <2> SUFFICES ASSUME DebugInit PROVE DebugInv
    OBVIOUS
  <2>1. NoLoop \in PollLoopType
    BY DEF NoLoop, PollLoopType
  <2>2. CurrentPoll \in PollType /\ ~CurrentPoll.running
    BY <2>1 DEF DebugInit, CurrentPoll, Poll, PollType
  <2>3. ViewTypeOK
    BY DEF DebugInit, ViewTypeOK
  <2> QED
    BY <2>2, <2>3 DEF DebugInv, Good, Alive
<1>2. DebugInv /\ [DebugNext]_debugVars => DebugInv'
  BY DebugStep
<1> QED
  BY <1>1, <1>2, PTL DEF DebugSpec

(* Every reachable state of the debug poll is well typed.                   *)
THEOREM DebugTypesHold == DebugSpec => []DebugTypeOK
<1>1. DebugInv => DebugTypeOK
  BY DEF DebugInv, DebugTypeOK, ViewTypeOK, Good, CurrentPoll, Poll, PollType, PollLoopType
<1> QED
  BY <1>1, DebugCorrect, PTL

(* The flag is never set without a loop that will look at it, however many  *)
(* loops restarts have left behind.                                         *)
THEOREM PollHasLoop == DebugSpec => []RunningHasLoop
<1>1. DebugInv => RunningHasLoop
  BY DEF DebugInv, RunningHasLoop, Good, Alive, CurrentPoll, Poll
<1> QED
  BY <1>1, DebugCorrect, PTL

-----------------------------------------------------------------------------
(* Sign-in *)

(* A sign-out that counts as lasting leaves nothing behind that could end   *)
(* in a user: neither tokens nor a call under way.                          *)
OutInv ==
  signedOut => /\ currentUser = NoAccount /\ authCache = NoAccount
               /\ ~UnderWay(flow, check)

-----------------------------------------------------------------------------
(* Types *)

(* Settling a flow keeps its type, and settles it.                          *)
LEMMA SettledFlow ==
  ASSUME NEW fl \in Flow, NEW how \in {"user", "error"}
  PROVE  /\ Settled(fl, how) \in Flow
         /\ Settled(fl, how).st = fl.st
         /\ Settled(fl, how).settled # "no"
BY DEF Settled, Flow

(* The closed handler keeps the type, settles the flow, and moves it only   *)
(* from the window to done.                                                 *)
LEMMA WindowClosedFlow ==
  ASSUME NEW fl \in Flow
  PROVE  /\ WindowClosed(fl) \in Flow
         /\ WindowClosed(fl).settled # "no"
BY DEF WindowClosed, Settled, Flow

LEMMA IdleTypes == IdleFlow \in Flow /\ IdleCheck \in Check
BY DEF IdleFlow, IdleCheck, Flow, Check

(* Every step keeps the types.                                              *)
LEMMA TypeStep ==
  ASSUME SignInTypeOK, [SignInNext]_signInVars
  PROVE  SignInTypeOK'
<1> USE DEF SignInTypeOK
<1>1. CASE Restart
  BY <1>1, IdleTypes DEF Restart
<1>2. ASSUME NEW f \in Flows, StartSignIn(f) PROVE SignInTypeOK'
  BY <1>2 DEF StartSignIn, IdleFlow, Flow
<1>3. ASSUME NEW f \in Flows, Prepared(f) PROVE SignInTypeOK'
  <2>1. flow[f] \in Flow
    OBVIOUS
  <2>2. /\ [flow[f] EXCEPT !.st = "window"] \in Flow
        /\ [flow[f] EXCEPT !.st = "done"] \in Flow
    BY <2>1 DEF Flow
  <2>3. Settled([flow[f] EXCEPT !.st = "done"], "error") \in Flow
    BY <2>2, SettledFlow
  <2> QED
    BY <1>3, <2>2, <2>3 DEF Prepared
<1>4. ASSUME NEW f \in Flows, Redirected(f) PROVE SignInTypeOK'
  <2>1. [flow[f] EXCEPT !.st = "done"] \in Flow
    BY DEF Flow
  <2>2. \A a \in Accounts : [flow[f] EXCEPT !.st = "exchanging", !.account = a] \in Flow
    BY DEF Flow
  <2>3. Settled([flow[f] EXCEPT !.st = "done"], "error") \in Flow
    BY <2>1, SettledFlow
  <2> QED
    BY <1>4, <2>2, <2>3 DEF Redirected
<1>5. ASSUME NEW f \in Flows, CloseSignInWindow(f) PROVE SignInTypeOK'
  BY <1>5, WindowClosedFlow DEF CloseSignInWindow
<1>6. ASSUME NEW f \in Flows, Exchanged(f) PROVE SignInTypeOK'
  <2>1. /\ [flow[f] EXCEPT !.st = "saving"] \in Flow
        /\ [flow[f] EXCEPT !.st = "done"] \in Flow
    BY DEF Flow
  <2>2. Settled([flow[f] EXCEPT !.st = "done"], "error") \in Flow
    BY <2>1, SettledFlow
  <2> QED
    BY <1>6, <2>1, <2>2 DEF Exchanged
<1>7. ASSUME NEW f \in Flows, SignedIn(f) PROVE SignInTypeOK'
  <2>1. flow[f].account \in Accounts \cup {NoAccount}
    BY DEF Flow
  <2>2. [flow[f] EXCEPT !.st = "done"] \in Flow
    BY DEF Flow
  <2>3. Settled([flow[f] EXCEPT !.st = "done"], "user") \in Flow
    BY <2>2, SettledFlow
  <2> QED
    BY <1>7, <2>1, <2>3 DEF SignedIn
<1>8. ASSUME NEW o \in SignOuts, BeginSignOut(o) \/ SignOutEnds(o) PROVE SignInTypeOK'
  BY <1>8 DEF BeginSignOut, SignOutEnds
<1>9. ASSUME NEW c \in Checks, StartCheck(c) PROVE SignInTypeOK'
  BY <1>9 DEF StartCheck, Check
<1>10. ASSUME NEW c \in Checks, SilentAnswers(c) PROVE SignInTypeOK'
  <2>1. [check[c] EXCEPT !.st = "saving"] \in Check
    BY DEF Check
  <2> QED
    BY <1>10, <2>1, IdleTypes DEF SilentAnswers
<1>11. ASSUME NEW c \in Checks, CheckEnds(c) PROVE SignInTypeOK'
  <2>1. check[c].account \in Accounts \cup {NoAccount}
    BY DEF Check
  <2> QED
    BY <1>11, <2>1, IdleTypes DEF CheckEnds
<1>12. CASE UNCHANGED signInVars
  BY <1>12 DEF signInVars
<1> QED
  BY <1>1, <1>2, <1>3, <1>4, <1>5, <1>6, <1>7, <1>8, <1>9, <1>10, <1>11, <1>12 DEF SignInNext

(* Every reachable state is well typed.                                     *)
THEOREM SignInTypesHold == SignInSpec => []SignInTypeOK
<1>1. SignInInit => SignInTypeOK
  BY IdleTypes DEF SignInInit, SignInTypeOK
<1>2. SignInTypeOK /\ [SignInNext]_signInVars => SignInTypeOK'
  BY TypeStep
<1> QED
  BY <1>1, <1>2, PTL DEF SignInSpec

-----------------------------------------------------------------------------
(* Every sign-in answers its caller *)

(* A step ends a sign-in only by settling it, or it was settled before.     *)
LEMMA AnsweredStep ==
  ASSUME SignInTypeOK, SignInAnswered, [SignInNext]_signInVars
  PROVE  SignInAnswered'
<1> USE DEF SignInAnswered, SignInTypeOK
<1>1. CASE Restart
  BY <1>1 DEF Restart, IdleFlow
<1>2. ASSUME NEW f \in Flows, StartSignIn(f) PROVE SignInAnswered'
  BY <1>2 DEF StartSignIn, IdleFlow
<1>3. ASSUME NEW f \in Flows,
             Prepared(f) \/ Redirected(f) \/ Exchanged(f) \/ SignedIn(f)
      PROVE  SignInAnswered'
  <2> DEFINE over == [flow[f] EXCEPT !.st = "done"]
  <2>1. over \in Flow
    BY DEF Flow
  <2>2. \A how \in {"user", "error"} : Settled(over, how).settled # "no"
    BY <2>1, SettledFlow
  <2>3. flow'[f].st = "done" => flow'[f].settled # "no"
    BY <1>3, <2>2 DEF Prepared, Redirected, Exchanged, SignedIn, Flow
  <2>4. \A g \in Flows \ {f} : flow'[g] = flow[g]
    BY <1>3 DEF Prepared, Redirected, Exchanged, SignedIn
  <2> QED
    BY <2>3, <2>4
<1>4. ASSUME NEW f \in Flows, CloseSignInWindow(f) PROVE SignInAnswered'
  BY <1>4, WindowClosedFlow DEF CloseSignInWindow
<1>5. ASSUME NEW o \in SignOuts, BeginSignOut(o) \/ SignOutEnds(o) PROVE SignInAnswered'
  BY <1>5 DEF BeginSignOut, SignOutEnds
<1>6. ASSUME NEW c \in Checks, StartCheck(c) \/ SilentAnswers(c) \/ CheckEnds(c)
      PROVE  SignInAnswered'
  BY <1>6 DEF StartCheck, SilentAnswers, CheckEnds
<1>7. CASE UNCHANGED signInVars
  BY <1>7 DEF signInVars
<1> QED
  BY <1>1, <1>2, <1>3, <1>4, <1>5, <1>6, <1>7 DEF SignInNext

(* A sign-in that is over has been answered, whatever was closed, refused,  *)
(* restarted or signed out meanwhile.                                       *)
THEOREM SignInsAnswered == SignInSpec => []SignInAnswered
<1>1. SignInInit => SignInAnswered
  BY DEF SignInInit, SignInAnswered, IdleFlow
<1>2. SignInTypeOK /\ SignInAnswered /\ [SignInNext]_signInVars => SignInAnswered'
  BY AnsweredStep
<1> QED
  BY <1>1, <1>2, SignInTypesHold, PTL DEF SignInSpec

-----------------------------------------------------------------------------
(* A sign-out lasts *)

(* No step but a new sign-in finds anything to sign in with.                *)
LEMMA OutStep ==
  ASSUME SignInTypeOK, OutInv, [SignInNext]_signInVars
  PROVE  OutInv'
<1> USE DEF OutInv
<1>1. CASE Restart
  BY <1>1 DEF Restart, UnderWay, IdleFlow, IdleCheck
<1>2. ASSUME NEW f \in Flows, StartSignIn(f) PROVE OutInv'
  BY <1>2 DEF StartSignIn
<1>3. ASSUME NEW f \in Flows,
             Prepared(f) \/ Redirected(f) \/ CloseSignInWindow(f) \/ Exchanged(f) \/ SignedIn(f)
      PROVE  OutInv'
  <2>1. UnderWay(flow, check) /\ signedOut' = signedOut
    BY <1>3 DEF Prepared, Redirected, CloseSignInWindow, Exchanged, SignedIn, UnderWay
  <2> QED
    BY <2>1
<1>4. ASSUME NEW o \in SignOuts, BeginSignOut(o) PROVE OutInv'
  BY <1>4 DEF BeginSignOut
<1>5. ASSUME NEW o \in SignOuts, SignOutEnds(o) PROVE OutInv'
  BY <1>5 DEF SignOutEnds
<1>6. ASSUME NEW c \in Checks, StartCheck(c) PROVE OutInv'
  BY <1>6 DEF StartCheck
<1>7. ASSUME NEW c \in Checks, SilentAnswers(c) \/ CheckEnds(c) PROVE OutInv'
  <2>1. UnderWay(flow, check) /\ signedOut' = signedOut
    BY <1>7 DEF SilentAnswers, CheckEnds, UnderWay
  <2> QED
    BY <2>1
<1>8. CASE UNCHANGED signInVars
  BY <1>8 DEF signInVars, UnderWay
<1> QED
  BY <1>1, <1>2, <1>3, <1>4, <1>5, <1>6, <1>7, <1>8 DEF SignInNext

(* After a sign-out that removed the token cache, with nothing else under   *)
(* way, nobody is signed in and no token comes back to the disk until the   *)
(* next sign-in; restarts and status checks included.                       *)
THEOREM SignOutLasts == SignInSpec => []SignedOutStays
<1>1. SignInInit => OutInv
  BY DEF SignInInit, OutInv
<1>2. SignInTypeOK /\ OutInv /\ [SignInNext]_signInVars => OutInv'
  BY OutStep
<1>3. OutInv => SignedOutStays
  BY DEF OutInv, SignedOutStays
<1> QED
  BY <1>1, <1>2, <1>3, SignInTypesHold, PTL DEF SignInSpec

-----------------------------------------------------------------------------
(* Direct RDP *)

(* A call that is under way, and a process that exists, have a connection.  *)
Launching ==
  /\ \A k \in DirectCalls : directCall[k].pc # "idle" => directCall[k].conn \in DirectConns
  /\ \A q \in DirectClients : directClient[q].st # "none" => directClient[q].conn \in DirectConns

DirectTypeInv == DirectTypeOK /\ Launching

(* The four parts of the state, for the steps below.                        *)
LEMMA DirectParts ==
  ASSUME DirectTypeInv
  PROVE  /\ directStatus \in [DirectConns -> {"disconnected", "connecting", "connected"}]
         /\ directEntry \in [DirectConns -> DirectClients \cup {"none", NotLaunched}]
         /\ \A k \in DirectCalls : directCall[k].pc # "idle" => directCall[k].conn \in DirectConns
         /\ \A q \in DirectClients :
              directClient[q].st # "none" => directClient[q].conn \in DirectConns
         /\ directClient \in [DirectClients ->
              [st : {"none", "running", "killed", "failing"},
               conn : DirectConns \cup {NotLaunched}]]
         /\ directCall \in [DirectCalls ->
              [pc : {"idle", "storing", "preparing"}, conn : DirectConns \cup {NotLaunched}]]
BY DEF DirectTypeInv, DirectTypeOK, Launching

(* What a launch leaves, whatever the entries were before it.               *)
LEMMA LaunchedKeeps ==
  ASSUME DirectTypeInv, NEW c \in DirectConns,
         NEW entries \in [DirectConns -> DirectClients \cup {"none", NotLaunched}],
         Launched(c, entries)
  PROVE  /\ directEntry' \in [DirectConns -> DirectClients \cup {"none", NotLaunched}]
         /\ directStatus' = [directStatus EXCEPT ![c] = "connected"]
         /\ directClient' \in [DirectClients ->
              [st : {"none", "running", "killed", "failing"},
               conn : DirectConns \cup {NotLaunched}]]
         /\ \A q \in DirectClients :
              directClient'[q].st # "none" => directClient'[q].conn \in DirectConns
         /\ \A q \in DirectClients :
              directClient[q].st # "none" => directClient'[q] = directClient[q]
         /\ \E q \in DirectClients : directClient'[q].st # "none" /\ directClient'[q].conn = c
<1>1. PICK q \in FreeDirectClients, st \in {"running", "failing"} :
        /\ directClient' = [directClient EXCEPT ![q] = [st |-> st, conn |-> c]]
        /\ directEntry' = IF entries[c] = "none" THEN entries ELSE [entries EXCEPT ![c] = q]
        /\ directStatus' = [directStatus EXCEPT ![c] = "connected"]
  BY DEF Launched
<1>2. q \in DirectClients /\ directClient[q].st = "none"
  BY DEF FreeDirectClients
<1>3. directEntry' \in [DirectConns -> DirectClients \cup {"none", NotLaunched}]
  BY <1>1, <1>2
<1>4. directClient' \in [DirectClients ->
        [st : {"none", "running", "killed", "failing"}, conn : DirectConns \cup {NotLaunched}]]
  BY <1>1, <1>2, DirectParts
<1>5. \A r \in DirectClients :
        directClient'[r] = IF r = q THEN [st |-> st, conn |-> c] ELSE directClient[r]
  BY <1>1, <1>2, DirectParts
<1> QED
  BY <1>1, <1>2, <1>3, <1>4, <1>5, DirectParts

-----------------------------------------------------------------------------
(* Types *)

LEMMA DirectTypeStep ==
  ASSUME DirectTypeInv, [DirectNext]_directVars
  PROVE  DirectTypeInv'
<1> DEFINE Entries == [DirectConns -> DirectClients \cup {"none", NotLaunched}]
<1>1. ASSUME NEW c \in DirectConns PROVE Reserved(c) \in Entries
  BY DirectParts DEF Reserved
<1>2. ASSUME NEW k \in DirectCalls, NEW c \in DirectConns, DirectConnect(k, c)
      PROVE  DirectTypeInv'
  <2>1. CASE UNCHANGED directCall
    <3>1. Launched(c, Reserved(c)) /\ UNCHANGED directOs
      BY <1>2, <2>1, DirectParts DEF DirectConnect
    <3>2. \A j \in DirectCalls : directCall'[j] = directCall[j]
      BY <2>1
    <3> QED
      BY <1>1, <2>1, <3>1, LaunchedKeeps, DirectParts DEF DirectTypeInv, DirectTypeOK, Launching
  <2>2. ASSUME NEW pc \in {"storing", "preparing"},
               directCall' = [directCall EXCEPT ![k] = [pc |-> pc, conn |-> c]],
               UNCHANGED <<directClient, directOs>>,
               directEntry' \in {directEntry, Reserved(c)},
               directStatus' \in {directStatus, [directStatus EXCEPT ![c] = "connecting"]}
        PROVE  DirectTypeInv'
    <3>1. /\ directCall' \in [DirectCalls -> [pc : {"idle", "storing", "preparing"},
                                            conn : DirectConns \cup {NotLaunched}]]
          /\ \A j \in DirectCalls : directCall'[j].pc # "idle" => directCall'[j].conn \in DirectConns
      BY <2>2, DirectParts
    <3>2. directEntry' \in Entries
      BY <1>1, <2>2, DirectParts
    <3>3. directStatus' \in [DirectConns -> {"disconnected", "connecting", "connected"}]
      BY <2>2, DirectParts
    <3> QED
      BY <2>2, <3>1, <3>2, <3>3 DEF DirectTypeInv, DirectTypeOK, Launching
  <2> QED
    BY <1>2, <2>1, <2>2 DEF DirectConnect
<1>3. ASSUME NEW k \in DirectCalls, DirectStored(k) \/ DirectLaunch(k)
      PROVE  DirectTypeInv'
  <2>1. PICK c \in DirectConns, entries \in Entries :
          Launched(c, entries) /\ UNCHANGED directOs
    BY <1>1, <1>3, DirectParts DEF DirectStored, DirectLaunch
  <2>2. /\ directCall' \in [DirectCalls -> [pc : {"idle", "storing", "preparing"},
                                          conn : DirectConns \cup {NotLaunched}]]
        /\ \A j \in DirectCalls : directCall'[j].pc # "idle" => directCall'[j].conn \in DirectConns
    <3>1. directCall' = [directCall EXCEPT ![k] = NoCall]
      BY <1>3 DEF DirectStored, DirectLaunch
    <3> QED
      BY <3>1, DirectParts DEF NoCall
  <2> QED
    BY <2>1, <2>2, LaunchedKeeps, DirectParts DEF DirectTypeInv, DirectTypeOK, Launching
<1>4. ASSUME NEW k \in DirectCalls, DirectFails(k)
      PROVE  DirectTypeInv'
  <2>1. /\ directCall' \in [DirectCalls -> [pc : {"idle", "storing", "preparing"},
                                          conn : DirectConns \cup {NotLaunched}]]
        /\ \A j \in DirectCalls : directCall'[j].pc # "idle" => directCall'[j].conn \in DirectConns
    BY <1>4, DirectParts DEF DirectFails, NoCall
  <2> QED
    BY <1>4, <2>1, DirectParts
       DEF DirectFails, StatusGone, DirectTypeInv, DirectTypeOK, Launching
<1>5. ASSUME NEW q \in DirectClients, DirectEnds(q)
      PROVE  DirectTypeInv'
  <2>1. /\ directClient' \in [DirectClients ->
             [st : {"none", "running", "killed", "failing"}, conn : DirectConns \cup {NotLaunched}]]
        /\ \A r \in DirectClients :
             directClient'[r].st # "none" => directClient'[r].conn \in DirectConns
    BY <1>5, DirectParts DEF DirectEnds, NoProcess
  <2> QED
    BY <1>5, <2>1, DirectParts
       DEF DirectEnds, StatusAfterEnd, StatusGone, DirectTypeInv, DirectTypeOK, Launching
<1>6. ASSUME NEW c \in DirectConns, DirectStop(c)
      PROVE  DirectTypeInv'
  <2>1. /\ directClient' \in [DirectClients ->
             [st : {"none", "running", "killed", "failing"}, conn : DirectConns \cup {NotLaunched}]]
        /\ \A r \in DirectClients :
             directClient'[r].st # "none" => directClient'[r].conn \in DirectConns
    BY <1>6, DirectParts DEF DirectStop
  <2> QED
    BY <1>6, <2>1, DirectParts DEF DirectStop, StatusGone, DirectTypeInv, DirectTypeOK, Launching
<1>7. CASE UNCHANGED directVars
  BY <1>7 DEF directVars, DirectTypeInv, DirectTypeOK, Launching
<1> QED
  BY <1>2, <1>3, <1>4, <1>5, <1>6, <1>7 DEF DirectNext

(* The types hold, with the owners they need, in every reachable state.     *)
THEOREM DirectTypesHold == DirectSpec => []DirectTypeInv
<1>1. DirectInit => DirectTypeInv
  BY DEF DirectInit, DirectTypeInv, DirectTypeOK, Launching, NoCall, NoProcess
<1>2. DirectTypeInv /\ [DirectNext]_directVars => DirectTypeInv'
  BY DirectTypeStep
<1> QED
  BY <1>1, <1>2, PTL DEF DirectSpec

-----------------------------------------------------------------------------
(* Connected *)

LEMMA DirectBackedStep ==
  ASSUME DirectTypeInv, DirectBacked, [DirectNext]_directVars
  PROVE  DirectBacked'
<1>1. ASSUME NEW c \in DirectConns,
             NEW entries \in [DirectConns -> DirectClients \cup {"none", NotLaunched}],
             Launched(c, entries)
      PROVE  DirectBacked'
  <2>1. \A d \in DirectConns : d # c => directStatus'[d] = directStatus[d]
    BY <1>1, LaunchedKeeps, DirectParts
  <2> QED
    BY <1>1, <2>1, LaunchedKeeps DEF DirectBacked
<1>2. ASSUME \A d \in DirectConns :
               directStatus'[d] = "connected" => directStatus[d] = "connected",
             UNCHANGED directClient
      PROVE  DirectBacked'
  BY <1>2 DEF DirectBacked
<1>3. ASSUME NEW k \in DirectCalls, NEW c \in DirectConns, DirectConnect(k, c)
      PROVE  DirectBacked'
  <2>1. Reserved(c) \in [DirectConns -> DirectClients \cup {"none", NotLaunched}]
    BY DirectParts DEF Reserved
  <2>2. \/ Launched(c, Reserved(c))
        \/ /\ directStatus' \in {directStatus, [directStatus EXCEPT ![c] = "connecting"]}
           /\ UNCHANGED directClient
    BY <1>3 DEF DirectConnect
  <2> QED
    BY <1>1, <1>2, <2>1, <2>2, DirectParts
<1>4. ASSUME NEW k \in DirectCalls, DirectStored(k) \/ DirectLaunch(k)
      PROVE  DirectBacked'
  <2>1. \E c \in DirectConns :
          \E entries \in [DirectConns -> DirectClients \cup {"none", NotLaunched}] :
            Launched(c, entries)
    BY <1>4, DirectParts DEF DirectStored, DirectLaunch, Reserved
  <2> QED
    BY <1>1, <2>1
<1>5. ASSUME NEW k \in DirectCalls, DirectFails(k)
      PROVE  DirectBacked'
  BY <1>2, <1>5, DirectParts DEF DirectFails, StatusGone
(* The client that ends may be the only one of its connection: the handler  *)
(* resets the status of that very connection.                               *)
<1>6. ASSUME NEW q \in DirectClients, DirectEnds(q)
      PROVE  DirectBacked'
  <2>1. /\ \A r \in DirectClients : r # q => directClient'[r] = directClient[r]
        /\ \A d \in DirectConns : directStatus'[d] = "connected" =>
             directStatus[d] = "connected" /\ d # directClient[q].conn
    BY <1>6, DirectParts DEF DirectEnds, StatusAfterEnd, StatusGone
  <2> QED
    BY <2>1 DEF DirectBacked
<1>7. ASSUME NEW c \in DirectConns, DirectStop(c)
      PROVE  DirectBacked'
  <2>1. /\ \A d \in DirectConns :
             directStatus'[d] = "connected" => directStatus[d] = "connected"
        /\ \A r \in DirectClients : directClient[r].st # "none" =>
             directClient'[r].st # "none" /\ directClient'[r].conn = directClient[r].conn
    BY <1>7, DirectParts DEF DirectStop, StatusGone
  <2> QED
    BY <2>1 DEF DirectBacked
<1>8. CASE UNCHANGED directVars
  BY <1>2, <1>8 DEF directVars
<1> QED
  BY <1>3, <1>4, <1>5, <1>6, <1>7, <1>8 DEF DirectNext

(* A connection shown as connected has a client whose end will be reported. *)
THEOREM ConnectedHasClient == DirectSpec => []DirectBacked
<1>1. DirectInit => DirectBacked
  BY DEF DirectInit, DirectBacked
<1>2. DirectTypeInv /\ DirectBacked /\ [DirectNext]_directVars => DirectBacked'
  BY DirectBackedStep
<1> QED
  BY <1>1, <1>2, DirectTypesHold, PTL DEF DirectSpec

-----------------------------------------------------------------------------
(* The log *)

StreamType == [st : {"null", "opening", "open", "ending"}, block : Lines, waiting : Lines]

-----------------------------------------------------------------------------
(* Lines, streams and files *)

LEMMA EmptyLines == <<>> \in Lines
BY EmptySeq DEF Lines

LEMMA JoinedLines ==
  ASSUME NEW s \in Lines, NEW t \in Lines
  PROVE  s \o t \in Lines
BY ConcatProperties DEF Lines

(* A sequence that continues another one begins with its lines.             *)
LEMMA BeginsWith ==
  ASSUME NEW s \in Lines, NEW t \in Lines
  PROVE  \A i \in DOMAIN s : i \in DOMAIN (s \o t) /\ (s \o t)[i] = s[i]
BY ConcatProperties, LenProperties DEF Lines

LEMMA StreamTypes ==
  /\ NoStream \in StreamType /\ NewStream \in StreamType
  /\ \A s \in StreamType : writeBuf \in Lines => StreamWrite(s) \in StreamType
<1>1. NoStream \in StreamType /\ NewStream \in StreamType
  BY EmptyLines DEF NoStream, NewStream, StreamType
<1>2. ASSUME NEW s \in StreamType, writeBuf \in Lines PROVE StreamWrite(s) \in StreamType
  <2>1. s.waiting \o writeBuf \in Lines
    BY <1>2, JoinedLines DEF StreamType
  <2>2. [s EXCEPT !.waiting = s.waiting \o writeBuf] \in StreamType
    BY <2>1 DEF StreamType
  <2>3. [s EXCEPT !.block = writeBuf] \in StreamType
    BY <1>2 DEF StreamType
  <2> QED
    BY <2>2, <2>3 DEF StreamWrite
<1> QED
  BY <1>1, <1>2

(* What a rotation leaves under each name is what was there, or what was    *)
(* under the number below, or nothing.                                      *)
RotationLeaves(new, fs, head, stuck) ==
  /\ new \in [FileNames -> Lines]
  /\ head \in Lines
  /\ 0 \notin stuck => new[0] = <<>> /\ new[1] = head
  /\ 0 \in stuck => /\ new[0] = head
                    /\ 1 \in (0..MaxRotated) \ stuck => new[1] = <<>>
                    /\ 1 \notin (0..MaxRotated) \ stuck => new[1] = fs[1]
  /\ \A n \in FileNames \ {0, 1} :
       \/ n - 1 \notin stuck /\ new[n] = fs[n - 1]
       \/ n - 1 \in stuck /\ n \notin stuck /\ n # MaxRotated + 1 /\ new[n] = <<>>
       \/ n - 1 \in stuck /\ (n \in stuck \/ n = MaxRotated + 1) /\ new[n] = fs[n]

LEMMA RotatedFiles ==
  ASSUME NEW fs \in [FileNames -> Lines], NEW s \in StreamType,
         NEW stuck \in SUBSET (0..MaxRotated)
  PROVE  RotationLeaves(Rotated(fs, s, stuck), fs, fs[0] \o s.block, stuck)
<1> USE LoggerAssumption
<1> DEFINE old == [fs EXCEPT ![0] = fs[0] \o s.block]
           moved == (0..MaxRotated) \ stuck
           new == Rotated(fs, s, stuck)
<1>1. 0 \in FileNames /\ 1 \in FileNames /\ \A n \in FileNames : n # 0 => n - 1 \in 0..MaxRotated
  BY DEF FileNames
<1>2. \A n \in FileNames : n \in 0..MaxRotated \/ n = MaxRotated + 1
  BY DEF FileNames
<1>3. fs[0] \o s.block \in Lines
  BY <1>1, JoinedLines DEF StreamType
<1>4. old \in [FileNames -> Lines] /\ old[0] = fs[0] \o s.block
      /\ \A n \in FileNames \ {0} : old[n] = fs[n]
  BY <1>1, <1>3
<1>5. new = [n \in FileNames |-> IF n # 0 /\ n - 1 \in moved THEN old[n - 1]
                                  ELSE IF n \in moved THEN <<>> ELSE old[n]]
  BY DEF Rotated
<1> HIDE DEF old, new
<1>6. new \in [FileNames -> Lines]
  <2>1. \A n \in FileNames : n # 0 => n - 1 \in FileNames
    BY DEF FileNames
  <2> QED
    BY <1>4, <1>5, <2>1, EmptyLines
<1>7. /\ 0 \notin stuck => new[0] = <<>> /\ new[1] = fs[0] \o s.block
      /\ 0 \in stuck => /\ new[0] = fs[0] \o s.block
                        /\ 1 \in moved => new[1] = <<>>
                        /\ 1 \notin moved => new[1] = fs[1]
  BY <1>1, <1>4, <1>5
<1>8. ASSUME NEW n \in FileNames \ {0, 1}
      PROVE  \/ n - 1 \notin stuck /\ new[n] = fs[n - 1]
             \/ n - 1 \in stuck /\ n \notin stuck /\ n # MaxRotated + 1 /\ new[n] = <<>>
             \/ n - 1 \in stuck /\ (n \in stuck \/ n = MaxRotated + 1) /\ new[n] = fs[n]
  <2>1. n - 1 \in FileNames \ {0} /\ n - 1 \in 0..MaxRotated
    BY DEF FileNames
  <2>2. n = MaxRotated + 1 => n \notin moved
    OBVIOUS
  <2> QED
    BY <1>2, <1>4, <1>5, <2>1, <2>2
<1> QED
  BY <1>3, <1>6, <1>7, <1>8 DEF new, RotationLeaves

LEMMA RotateTypes ==
  ASSUME files \in [FileNames -> Lines], NEW s \in StreamType, Rotate(s),
         lineNo \in 0..MaxLines, firstLine \in 0..MaxLines
  PROVE  files' \in [FileNames -> Lines] /\ firstLine' \in 0..MaxLines
<1>1. PICK stuck \in SUBSET (0..MaxRotated) :
        /\ files' = Rotated(files, s, stuck)
        /\ firstLine' = IF 0 \in stuck THEN lineNo ELSE firstLine
  BY DEF Rotate
<1>2. Rotated(files, s, stuck) \in [FileNames -> Lines]
  BY RotatedFiles DEF RotationLeaves
<1> QED
  BY <1>1, <1>2

-----------------------------------------------------------------------------
(* Types *)

(* A flush, with or without the end of the stream.                          *)
LEMMA FlushTypes ==
  ASSUME LoggerTypeOK, NEW closing \in BOOLEAN, Flush(closing),
         UNCHANGED <<lineNo, logReady>>
  PROVE  LoggerTypeOK'
<1> DEFINE s == StreamWrite(stream)
           Ended(t) == IF closing
                       THEN [st |-> "ending", block |-> t.block \o t.waiting, waiting |-> <<>>]
                       ELSE t
<1>1. stream \in StreamType /\ writeBuf \in Lines /\ files \in [FileNames -> Lines]
  BY DEF LoggerTypeOK, StreamType
<1>2. s \in StreamType
  BY <1>1, StreamTypes
<1>3. \A t \in StreamType : Ended(t) \in StreamType
  BY JoinedLines, EmptyLines DEF StreamType
<1>4. stream' \in StreamType
  <2>1. stream' \in {Ended(stream), Ended(NewStream), Ended(s)}
    BY DEF Flush
  <2> QED
    BY <1>1, <1>2, <1>3, <2>1, StreamTypes
<1>5. files' \in [FileNames -> Lines] /\ firstLine' \in 0..MaxLines
  BY <1>1, <1>2, RotateTypes DEF Flush, LoggerTypeOK
<1>6. currentSize' \in Nat
  <2>1. Len(writeBuf) \in Nat
    BY <1>1, LenProperties DEF Lines
  <2> QED
    BY <2>1 DEF Flush, LoggerTypeOK
<1>7. writeBuf' \in Lines /\ flushTimer' \in {"null", "armed", "fired"}
  BY EmptyLines DEF Flush, BufferAfterFlush, TimerAfterFlush
<1> QED
  BY <1>4, <1>5, <1>6, <1>7 DEF LoggerTypeOK, StreamType

(* Every step keeps the types.                                              *)
LEMMA LoggerTypeStep ==
  ASSUME LoggerTypeOK, [LoggerNext]_logVars
  PROVE  LoggerTypeOK'
<1> USE LoggerAssumption
<1>1. /\ stream \in StreamType /\ writeBuf \in Lines /\ files \in [FileNames -> Lines]
      /\ files[0] \in Lines /\ Len(files[0]) \in Nat
      /\ stream.block \in Lines /\ stream.waiting \in Lines
  <2>1. stream \in StreamType /\ writeBuf \in Lines /\ files \in [FileNames -> Lines]
    BY DEF LoggerTypeOK, StreamType
  <2>2. files[0] \in Lines
    BY <2>1 DEF FileNames
  <2> QED
    BY <2>1, <2>2, LenProperties DEF StreamType, Lines
<1>2. CASE InitLogger
  <2>1. files' \in [FileNames -> Lines] /\ firstLine' \in 0..MaxLines
    BY <1>1, <1>2, RotateTypes, StreamTypes DEF InitLogger, LoggerTypeOK
  <2>2. stream' \in StreamType /\ currentSize' \in Nat
    BY <1>1, <1>2, StreamTypes DEF InitLogger
  <2> QED
    BY <1>2, <2>1, <2>2 DEF InitLogger, LoggerTypeOK, StreamType
<1>3. CASE WriteLog
  <2>1. lineNo' \in 0..MaxLines /\ lineNo' \in 1..MaxLines
    BY <1>3 DEF WriteLog, LoggerTypeOK
  <2>2. writeBuf' \in Lines
    BY <1>1, <1>3, <2>1, AppendProperties DEF WriteLog, Lines
  <2>3. flushTimer' \in {"null", "armed", "fired"}
    BY <1>3 DEF WriteLog, LoggerTypeOK
  <2> QED
    BY <1>3, <2>1, <2>2, <2>3 DEF WriteLog, LoggerTypeOK
<1>4. CASE FlushTimerFires \/ CloseLogger
  BY <1>4, FlushTypes DEF FlushTimerFires, CloseLogger
<1>5. CASE StreamOpens
  <2>1. stream' \in StreamType
    BY <1>1, <1>5, EmptyLines DEF StreamOpens, StreamType
  <2> QED
    BY <1>5, <2>1 DEF StreamOpens, LoggerTypeOK, StreamType
<1>6. CASE BlockWritten
  <2>1. stream' \in StreamType
    BY <1>1, <1>6, EmptyLines DEF BlockWritten, StreamType
  <2>2. files' \in [FileNames -> Lines]
    BY <1>1, <1>6, JoinedLines DEF BlockWritten
  <2> QED
    BY <1>6, <2>1, <2>2 DEF BlockWritten, LoggerTypeOK, StreamType
<1>7. CASE ProgramEnds
  <2>1. stream' \in StreamType /\ writeBuf' \in Lines
    BY <1>7, StreamTypes, EmptyLines DEF ProgramEnds
  <2> QED
    BY <1>7, <2>1 DEF ProgramEnds, LoggerTypeOK, StreamType
<1>8. CASE UNCHANGED logVars
  BY <1>8 DEF logVars, LoggerTypeOK
<1> QED
  BY <1>2, <1>3, <1>4, <1>5, <1>6, <1>7, <1>8 DEF LoggerNext

(* Every reachable state of the logger is well typed.                       *)
THEOREM LoggerTypesHold == LoggerSpec => []LoggerTypeOK
<1>1. ASSUME LoggerInit PROVE LoggerTypeOK
  <2>1. lineNo \in 0..MaxLines /\ firstLine \in 0..MaxLines /\ currentSize \in Nat
    BY <1>1, LoggerAssumption DEF LoggerInit
  <2>2. writeBuf \in Lines /\ stream \in StreamType
    BY <1>1, StreamTypes, EmptyLines DEF LoggerInit
  <2>3. files \in [FileNames -> Lines]
    BY <1>1, EmptyLines DEF LoggerInit
  <2> QED
    BY <1>1, <2>1, <2>2, <2>3 DEF LoggerInit, LoggerTypeOK, StreamType
<1>2. LoggerTypeOK /\ [LoggerNext]_logVars => LoggerTypeOK'
  BY LoggerTypeStep
<1> QED
  BY <1>1, <1>2, PTL DEF LoggerSpec

-----------------------------------------------------------------------------
(* The buffer *)

(* A timer that has fired is forgotten, so that the next line arms one.     *)
TimerInv == flushTimer # "fired" /\ BufferedIsFlushed

(* No line stays in the buffer without a flush to come.                     *)
THEOREM BufferFlushed == LoggerSpec => []BufferedIsFlushed
<1> USE DEF TimerInv, BufferedIsFlushed
<1>1. LoggerInit => TimerInv
  BY DEF LoggerInit
<1>2. ASSUME LoggerTypeOK, TimerInv, [LoggerNext]_logVars PROVE TimerInv'
  <2>1. CASE WriteLog
    BY <1>2, <2>1 DEF WriteLog, LoggerTypeOK
  <2>2. CASE FlushTimerFires \/ CloseLogger
    BY <2>2 DEF FlushTimerFires, CloseLogger, Flush, BufferAfterFlush, TimerAfterFlush
  <2>3. CASE InitLogger \/ StreamOpens \/ BlockWritten \/ ProgramEnds \/ UNCHANGED logVars
    BY <1>2, <2>3 DEF InitLogger, StreamOpens, BlockWritten, ProgramEnds, logVars
  <2> QED
    BY <1>2, <2>1, <2>2, <2>3 DEF LoggerNext
<1> QED
  BY <1>1, <1>2, LoggerTypesHold, PTL DEF LoggerSpec

-----------------------------------------------------------------------------
(* The current file and what is on its way to it *)

(* A line passes from the buffer to the stream and to the file, in order.   *)
(* What the stream holds depends on its state; without a program there is   *)
(* neither stream nor buffer, and every line is of an earlier run.          *)
StreamInv ==
  /\ stream.st = "opening" => stream.block = <<>>
  /\ stream.st = "open" /\ stream.block = <<>> => stream.waiting = <<>>
  /\ stream.st = "ending" => stream.waiting = <<>>
  /\ ~logReady => stream = NoStream /\ writeBuf = <<>> /\ firstLine = lineNo

NumberInv ==
  /\ firstLine <= lineNo
  /\ \A n \in FileNames : \A i \in DOMAIN Content(n) : Content(n)[i] <= lineNo

GapInv == StreamInv /\ NumberInv /\ LogInOrder /\ NoGapInFile

(* What each name stands for after a step begins what some name stood for   *)
(* before it, or is nothing, and names did not pass each other.             *)
LEMMA OrderKept ==
  ASSUME NumberInv, LogInOrder, lineNo' = lineNo, firstLine' \in {firstLine, lineNo},
         lineNo \in Nat,
         NEW was \in [FileNames -> FileNames],
         \A n \in FileNames : \A i \in DOMAIN Content(n)' :
           i \in DOMAIN Content(was[n]) /\ Content(n)'[i] = Content(was[n])[i],
         \A m, n \in FileNames :
           m > n /\ DOMAIN Content(m)' # {} /\ DOMAIN Content(n)' # {} => was[m] > was[n]
  PROVE  NumberInv' /\ LogInOrder'
<1>1. firstLine' <= lineNo'
  BY DEF NumberInv
<1>2. NumberInv'
  BY <1>1 DEF NumberInv
<1>3. LogInOrder'
  <2> SUFFICES ASSUME NEW m \in FileNames, NEW n \in FileNames,
                      NEW i \in DOMAIN Content(m)', NEW j \in DOMAIN Content(n)',
                      m > n \/ (m = n /\ i < j)
               PROVE  Content(m)'[i] < Content(n)'[j]
    BY DEF LogInOrder
  <2>1. /\ Content(m)'[i] = Content(was[m])[i] /\ i \in DOMAIN Content(was[m])
        /\ Content(n)'[j] = Content(was[n])[j] /\ j \in DOMAIN Content(was[n])
        /\ was[m] \in FileNames /\ was[n] \in FileNames
    OBVIOUS
  <2>2. was[m] > was[n] \/ (was[m] = was[n] /\ i < j)
    OBVIOUS
  <2> QED
    BY <2>1, <2>2 DEF LogInOrder
<1> QED
  BY <1>2, <1>3

(* The names stay, and the current one stands for a beginning of what it    *)
(* stood for.                                                               *)
LEMMA CurrentBegins ==
  ASSUME LoggerTypeOK, NumberInv, LogInOrder, lineNo' = lineNo,
         firstLine' \in {firstLine, lineNo}, \A n \in FileNames \ {0} : files'[n] = files[n],
         \A i \in DOMAIN CurrentLines' :
           i \in DOMAIN CurrentLines /\ CurrentLines'[i] = CurrentLines[i]
  PROVE  NumberInv' /\ LogInOrder'
<1> DEFINE was == [n \in FileNames |-> n]
<1>1. was \in [FileNames -> FileNames] /\ lineNo \in Nat
  BY LoggerAssumption DEF LoggerTypeOK
<1>2. \A n \in FileNames : was[n] = n
  OBVIOUS
<1> HIDE DEF was
<1>3. \A n \in FileNames : \A i \in DOMAIN Content(n)' :
        i \in DOMAIN Content(was[n]) /\ Content(n)'[i] = Content(was[n])[i]
  BY <1>2 DEF Content
<1>4. \A m, n \in FileNames : m > n => was[m] > was[n]
  BY <1>2
<1> QED
  BY <1>1, <1>3, <1>4, OrderKept

LEMMA CurrentLinesType == ASSUME LoggerTypeOK PROVE CurrentLines \in Lines
<1>1. files[0] \in Lines /\ stream.block \in Lines /\ stream.waiting \in Lines /\ writeBuf \in Lines
  BY LoggerAssumption DEF LoggerTypeOK, FileNames
<1> QED
  BY <1>1, JoinedLines DEF CurrentLines

LEMMA Associative ==
  ASSUME NEW a \in Lines, NEW b \in Lines, NEW c \in Lines
  PROVE  (a \o b) \o c = a \o (b \o c)
<1> DEFINE T == 1..MaxLines
<1>1. a \in Seq(T) /\ b \in Seq(T) /\ c \in Seq(T)
  BY DEF Lines
<1> HIDE DEF T
<1> QED
  BY <1>1, ConcatAssociative

LEMMA AppendedEnd ==
  ASSUME NEW s \in Lines, NEW u \in Lines, NEW l \in 1..MaxLines
  PROVE  s \o Append(u, l) = Append(s \o u, l)
<1> DEFINE T == 1..MaxLines
<1>1. s \in Seq(T) /\ u \in Seq(T) /\ l \in T
  BY DEF Lines
<1> HIDE DEF T
<1>2. s \o u \in Seq(T) /\ <<l>> \in Seq(T)
  BY <1>1, ConcatProperties
<1>3. Append(u, l) = u \o <<l>> /\ Append(s \o u, l) = (s \o u) \o <<l>>
  BY <1>1, <1>2, AppendIsConcat
<1> QED
  BY <1>1, <1>2, <1>3, ConcatAssociative

(* What is appended to a part may wait for the next.                        *)
LEMMA JoinedEnd ==
  ASSUME NEW e \in Lines, NEW c \in Lines, NEW d \in Lines
  PROVE  e \o (c \o d) \o <<>> = e \o c \o d
<1>1. e \o (c \o d) \in Lines
  <2>1. c \o d \in Lines
    BY JoinedLines
  <2> QED
    BY <2>1, JoinedLines
<1>2. (e \o c) \o d = e \o (c \o d)
  BY Associative
<1>3. e \o (c \o d) \o <<>> = e \o (c \o d)
  BY <1>1, ConcatEmptySeq DEF Lines
<1> QED
  BY <1>2, <1>3

(* Four parts in a row: what two neighbours hold may move between them.     *)
LEMMA Regrouped ==
  ASSUME NEW a \in Lines, NEW b \in Lines, NEW c \in Lines, NEW d \in Lines
  PROVE  /\ (a \o b) \o c \o <<>> \o d = a \o b \o c \o d
         /\ a \o <<>> \o c \o d = a \o c \o <<>> \o d
         /\ a \o d \o <<>> \o <<>> = a \o <<>> \o <<>> \o d
         /\ a \o <<>> \o <<>> \o <<>> = a
<1>1. a \o b \o c \in Lines /\ a \o c \in Lines /\ a \o d \in Lines
  BY JoinedLines
<1>2. \A s \in Lines : s \o <<>> = s
  BY ConcatEmptySeq DEF Lines
<1>3. /\ (a \o b) \o c \o <<>> = a \o b \o c
      /\ a \o <<>> = a /\ (a \o c) \o <<>> = a \o c /\ (a \o d) \o <<>> = a \o d
  BY <1>1, <1>2
<1> QED
  BY <1>3

(* A step that leaves the lines, their number and the run alone.            *)
LEMMA LinesStay ==
  ASSUME LoggerTypeOK, NumberInv, LogInOrder, NoGapInFile,
         UNCHANGED <<CurrentLines, lineNo, firstLine>>,
         \A n \in FileNames \ {0} : files'[n] = files[n]
  PROVE  NumberInv' /\ LogInOrder' /\ NoGapInFile'
<1>1. NoGapInFile'
  BY DEF NoGapInFile, ThisRun
<1>2. \A i \in DOMAIN CurrentLines' :
        i \in DOMAIN CurrentLines /\ CurrentLines'[i] = CurrentLines[i]
  OBVIOUS
<1> QED
  BY <1>1, <1>2, CurrentBegins

(* A rotation.  The current lines begin with those of the stream's block,   *)
(* whatever else of them is lost.                                           *)
LEMMA RotateKeepsOrder ==
  ASSUME LoggerTypeOK, NumberInv, LogInOrder, NEW s \in StreamType, Rotate(s), lineNo' = lineNo,
         stream'.block = <<>>, stream'.waiting = <<>>, writeBuf' = <<>>,
         NEW rest \in Lines, CurrentLines = files[0] \o s.block \o rest
  PROVE  NumberInv' /\ LogInOrder' /\ NoGapInFile'
<1> USE LoggerAssumption
<1>1. PICK stuck \in SUBSET (0..MaxRotated) :
        /\ files' = Rotated(files, s, stuck)
        /\ firstLine' = IF 0 \in stuck THEN lineNo ELSE firstLine
  BY DEF Rotate
<1>2. files \in [FileNames -> Lines] /\ lineNo \in Nat /\ firstLine \in Nat
  BY DEF LoggerTypeOK
<1> DEFINE head == files[0] \o s.block
<1>3. /\ 0 \in FileNames /\ 1 \in FileNames
      /\ files' \in [FileNames -> Lines] /\ head \in Lines
      /\ 0 \notin stuck => files'[0] = <<>> /\ files'[1] = head
      /\ 0 \in stuck => /\ files'[0] = head
                        /\ 1 \in (0..MaxRotated) \ stuck => files'[1] = <<>>
                        /\ 1 \notin (0..MaxRotated) \ stuck => files'[1] = files[1]
      /\ \A n \in FileNames \ {0, 1} :
           \/ n - 1 \notin stuck /\ files'[n] = files[n - 1]
           \/ n - 1 \in stuck /\ n \notin stuck /\ n # MaxRotated + 1 /\ files'[n] = <<>>
           \/ n - 1 \in stuck /\ (n \in stuck \/ n = MaxRotated + 1) /\ files'[n] = files[n]
  <2>1. 0 \in FileNames /\ 1 \in FileNames
    BY DEF FileNames
  <2>2. RotationLeaves(files', files, head, stuck)
    BY <1>1, <1>2, RotatedFiles
  <2> HIDE DEF head
  <2> QED
    BY <2>1, <2>2 DEF RotationLeaves
<1>4. CurrentLines = head \o rest
  OBVIOUS
<1> HIDE DEF head
<1>5. \A i \in DOMAIN head : i \in DOMAIN CurrentLines /\ CurrentLines[i] = head[i]
  BY <1>3, <1>4, BeginsWith
<1>6. CurrentLines' = files'[0]
  <2>1. \A t \in Lines : t \o <<>> \o <<>> \o <<>> = t
    BY Regrouped, EmptyLines
  <2> QED
    BY <1>3, <2>1 DEF CurrentLines
<1>7. DOMAIN <<>> = {}
  BY EmptySeq, LenProperties
<1> DEFINE was == [n \in FileNames |-> IF n # 0 /\ n - 1 \notin stuck THEN n - 1 ELSE n]
<1>8. was \in [FileNames -> FileNames]
  BY DEF FileNames
<1>9. \A n \in FileNames : was[n] = IF n # 0 /\ n - 1 \notin stuck THEN n - 1 ELSE n
  OBVIOUS
<1> HIDE DEF was
<1>10. ASSUME NEW n \in FileNames, NEW i \in DOMAIN Content(n)'
       PROVE  i \in DOMAIN Content(was[n]) /\ Content(n)'[i] = Content(was[n])[i]
  <2>1. CASE n = 0
    <3>1. was[n] = 0 /\ Content(n)' = files'[0] /\ Content(0) = CurrentLines
      BY <1>6, <1>9, <2>1 DEF Content
    <3> QED
      BY <1>3, <1>5, <1>7, <3>1
  <2>2. CASE n = 1
    <3>1. Content(n)' = files'[1] /\ (0 \notin stuck => was[n] = 0) /\ (0 \in stuck => was[n] = 1)
      BY <1>9, <2>2 DEF Content
    <3>2. Content(0) = CurrentLines /\ Content(1) = files[1]
      BY DEF Content
    <3>3. CASE 0 \notin stuck
      <4>1. files'[1] = head
        BY <1>3, <3>3
      <4> QED
        BY <1>5, <3>1, <3>2, <3>3, <4>1
    <3>4. CASE 0 \in stuck
      BY <1>3, <1>7, <2>2, <3>1, <3>2, <3>4
    <3> QED
      BY <3>3, <3>4
  <2>3. CASE n \notin {0, 1}
    <3>1. Content(n)' = files'[n] /\ Content(n) = files[n] /\ Content(n - 1) = files[n - 1]
      BY <2>3 DEF Content, FileNames
    <3> QED
      BY <1>3, <1>7, <1>9, <2>3, <3>1
  <2> QED
    BY <2>1, <2>2, <2>3
<1>11. ASSUME NEW m \in FileNames, NEW n \in FileNames, m > n,
              DOMAIN Content(m)' # {}, DOMAIN Content(n)' # {}
       PROVE  was[m] > was[n]
  <2>1. n \in Nat /\ m \in Nat /\ m <= MaxRotated + 1
    BY DEF FileNames
  <2>2. m = n + 1 /\ m - 1 \notin stuck => was[n] # n
    <3> SUFFICES ASSUME m = n + 1, n \notin stuck PROVE was[n] # n
      BY <2>1
    <3>1. CASE n = 0
      BY <1>3, <1>6, <1>7, <1>11, <3>1 DEF Content
    <3>2. CASE n = 1
      <4>1. 1 \in 0..MaxRotated /\ 1 \notin stuck
        BY <2>1, <3>2
      <4> QED
        BY <1>3, <1>7, <1>9, <1>11, <3>2, <4>1 DEF Content
    <3>3. CASE n \notin {0, 1}
      BY <1>3, <1>7, <1>9, <1>11, <2>1, <3>3 DEF Content
    <3> QED
      BY <3>1, <3>2, <3>3
  <2>3. /\ was[m] = m \/ (m - 1 \notin stuck /\ was[m] = m - 1)
        /\ was[n] = n \/ was[n] = n - 1
    BY <1>9
  <2>4. CASE m = n + 1 /\ was[m] = m - 1 /\ m - 1 \notin stuck
    BY <2>1, <2>2, <2>3, <2>4
  <2>5. CASE was[m] = m
    BY <1>11, <2>1, <2>3, <2>5
  <2>6. CASE m # n + 1 /\ was[m] = m - 1
    BY <1>11, <2>1, <2>3, <2>6
  <2> QED
    BY <2>3, <2>4, <2>5, <2>6
<1>12. NumberInv' /\ LogInOrder'
  <2>1. firstLine' \in {firstLine, lineNo}
    BY <1>1
  <2> QED
    BY <1>2, <1>8, <1>10, <1>11, <2>1, OrderKept
<1>13. NoGapInFile'
  <2>1. CASE 0 \in stuck
    <3>1. \A i \in DOMAIN CurrentLines' : ~(CurrentLines'[i] > firstLine')
      <4>1. \A i \in DOMAIN CurrentLines' : CurrentLines'[i] <= lineNo /\ CurrentLines'[i] \in Nat
        <5>1. \A i \in DOMAIN CurrentLines' : CurrentLines'[i] <= lineNo
          BY <1>3, <1>12 DEF NumberInv, Content
        <5>2. CurrentLines' \in Lines
          BY <1>3, <1>6
        <5>3. \A i \in DOMAIN CurrentLines' : CurrentLines'[i] \in 1..MaxLines
          BY <5>2, ElementOfSeq, LenProperties DEF Lines
        <5> QED
          BY <5>1, <5>3
      <4> QED
        BY <1>1, <1>2, <2>1, <4>1
    <3> QED
      BY <3>1 DEF NoGapInFile, ThisRun
  <2>2. CASE 0 \notin stuck
    BY <1>3, <1>6, <1>7, <2>2 DEF NoGapInFile
  <2> QED
    BY <2>1, <2>2
<1> QED
  BY <1>12, <1>13

(* The next line comes last, after every line in every file.                *)
LEMMA LineComes ==
  ASSUME LoggerTypeOK, GapInv, WriteLog
  PROVE  NumberInv' /\ LogInOrder' /\ NoGapInFile'
<1> DEFINE n == Len(CurrentLines)
<1>1. CurrentLines \in Lines /\ n \in Nat /\ DOMAIN CurrentLines = 1..n
  BY CurrentLinesType, LenProperties DEF Lines
<1>2. lineNo + 1 \in 1..MaxLines /\ lineNo \in Nat /\ firstLine \in Nat
  BY LoggerAssumption DEF WriteLog, LoggerTypeOK
<1>3. CurrentLines' = Append(CurrentLines, lineNo + 1)
  <2>1. /\ files[0] \in Lines /\ stream.block \in Lines /\ stream.waiting \in Lines
        /\ writeBuf \in Lines
    BY LoggerAssumption DEF LoggerTypeOK, FileNames
  <2>2. files[0] \o stream.block \o stream.waiting \in Lines
    BY <2>1, JoinedLines
  <2>3. \A s \in Lines : s \o Append(writeBuf, lineNo + 1) = Append(s \o writeBuf, lineNo + 1)
    BY <1>2, <2>1, AppendedEnd
  <2> QED
    BY <2>2, <2>3 DEF CurrentLines, WriteLog
<1>4. /\ CurrentLines' \in Lines
      /\ Len(CurrentLines') = n + 1 /\ DOMAIN CurrentLines' = 1..(n + 1)
      /\ \A i \in 1..n : CurrentLines'[i] = CurrentLines[i]
      /\ CurrentLines'[n + 1] = lineNo + 1
  BY <1>1, <1>2, <1>3, AppendProperties, LenProperties DEF Lines
<1>5. lineNo' = lineNo + 1 /\ firstLine' = firstLine /\ files' = files
  BY DEF WriteLog
<1>6. \A i \in 1..n : CurrentLines[i] \in Nat
  BY <1>1, ElementOfSeq, LoggerAssumption DEF Lines
<1> HIDE DEF n
<1>7. \A i \in 1..(n + 1) : i \in 1..n \/ i = n + 1
  BY <1>1
<1>8. ASSUME NEW m \in FileNames, NEW i \in DOMAIN Content(m)'
      PROVE  \/ /\ i \in DOMAIN Content(m) /\ Content(m)'[i] = Content(m)[i]
                /\ Content(m)[i] \in Nat /\ Content(m)[i] <= lineNo
             \/ m = 0 /\ i = n + 1 /\ Content(m)'[i] = lineNo + 1
  <2>1. CASE m = 0
    <3>1. Content(m) = CurrentLines /\ Content(m)' = CurrentLines'
      BY <2>1 DEF Content
    <3>2. \A k \in 1..n : CurrentLines[k] <= lineNo
      BY <1>1, <2>1, <3>1 DEF GapInv, NumberInv
    <3> QED
      BY <1>1, <1>4, <1>6, <1>7, <2>1, <3>1, <3>2
  <2>2. CASE m # 0
    <3>1. Content(m) = files[m] /\ Content(m)' = files[m] /\ files[m] \in Lines
      BY <1>5, <2>2 DEF Content, LoggerTypeOK
    <3>2. files[m][i] \in 1..MaxLines
      BY <3>1, ElementOfSeq, LenProperties DEF Lines
    <3>3. files[m][i] <= lineNo
      BY <3>1 DEF GapInv, NumberInv
    <3> QED
      BY <3>1, <3>2, <3>3, LoggerAssumption
  <2> QED
    BY <2>1, <2>2
<1>9. NumberInv'
  <2>1. firstLine <= lineNo + 1
    BY <1>2 DEF GapInv, NumberInv
  <2> QED
    BY <1>2, <1>5, <1>8, <2>1 DEF NumberInv
<1>10. LogInOrder'
  <2> SUFFICES ASSUME NEW k \in FileNames, NEW m \in FileNames,
                      NEW i \in DOMAIN Content(k)', NEW j \in DOMAIN Content(m)',
                      k > m \/ (k = m /\ i < j)
               PROVE  Content(k)'[i] < Content(m)'[j]
    BY DEF LogInOrder
  <2>1. k \in Nat /\ m \in Nat
    BY DEF FileNames
  <2>2. CASE m = 0 /\ j = n + 1 /\ Content(m)'[j] = lineNo + 1
    <3>1. ~(k = 0 /\ i = n + 1)
      BY <1>1, <2>1, <2>2
    <3> QED
      BY <1>2, <1>8, <2>2, <3>1
  <2>3. CASE j \in DOMAIN Content(m) /\ Content(m)'[j] = Content(m)[j]
             /\ ~(m = 0 /\ j = n + 1)
    <3>1. ~(k = 0 /\ i = n + 1)
      <4> SUFFICES ASSUME k = 0, i = n + 1 PROVE FALSE
        OBVIOUS
      <4>1. m = 0 /\ n + 1 < j
        BY <2>1
      <4>2. j \in 1..(n + 1)
        BY <1>4, <4>1 DEF Content
      <4> QED
        BY <1>1, <4>1, <4>2
    <3>2. i \in DOMAIN Content(k) /\ Content(k)'[i] = Content(k)[i]
      BY <1>8, <3>1
    <3> QED
      BY <2>3, <3>2 DEF GapInv, LogInOrder
  <2>4. CASE j \in DOMAIN Content(m) /\ m = 0 /\ j = n + 1
    BY <1>1, <2>4 DEF Content
  <2> QED
    BY <1>8, <2>2, <2>3, <2>4
<1>11. firstLine < lineNo + 1
  BY <1>2 DEF GapInv, NumberInv
<1>12. ASSUME NEW i \in 1..(n + 1), CurrentLines'[i] > firstLine
       PROVE  /\ CurrentLines'[i] = lineNo + 1 + i - (n + 1)
              /\ \A j \in 1..(n + 1) : j > i => CurrentLines'[j] > firstLine
  <2>1. CASE i \in 1..n
    <3>1. CurrentLines[i] = lineNo + i - Len(CurrentLines)
          /\ \A j \in 1..n : j > i => CurrentLines[j] > firstLine
      BY <1>1, <1>4, <1>12, <2>1 DEF GapInv, NoGapInFile, ThisRun
    <3>2. CurrentLines'[i] = lineNo + 1 + i - (n + 1)
      BY <1>1, <1>2, <1>4, <2>1, <3>1 DEF n
    <3> QED
      BY <1>4, <1>7, <1>11, <3>1, <3>2
  <2>2. CASE i = n + 1
    BY <1>1, <1>2, <1>4, <2>2
  <2> QED
    BY <1>7, <2>1, <2>2
<1> QED
  BY <1>4, <1>5, <1>9, <1>10, <1>12 DEF NoGapInFile, ThisRun

LEMMA FlushKeepsLines ==
  ASSUME LoggerTypeOK, GapInv, NEW closing \in BOOLEAN, Writable, Flush(closing),
         UNCHANGED <<lineNo, logReady>>
  PROVE  GapInv'
<1> DEFINE a == files[0]
           b == stream.block
           c == stream.waiting
<1>1. a \in Lines /\ b \in Lines /\ c \in Lines /\ writeBuf \in Lines /\ stream \in StreamType
  BY LoggerAssumption DEF LoggerTypeOK, FileNames, StreamType
<1> USE DEF GapInv
<1>2. writeBuf' = <<>>
  BY DEF Flush, BufferAfterFlush
<1>3. CASE writeBuf # <<>> /\ currentSize + Len(writeBuf) >= MaxSize
  <2> DEFINE s == StreamWrite(stream)
  <2>1. s \in StreamType /\ Rotate(s)
    BY <1>1, <1>3, StreamTypes DEF Flush
  <2>2. stream'.block = <<>> /\ stream'.waiting = <<>> /\ stream'.st \in {"opening", "ending"}
    <3>1. stream' = NewStream \/ stream' = [st |-> "ending", block |-> <<>> \o <<>>, waiting |-> <<>>]
      BY <1>3 DEF Flush, NewStream
    <3>2. <<>> \o <<>> = <<>>
      BY EmptyLines, ConcatEmptySeq DEF Lines
    <3> QED
      BY <3>1, <3>2 DEF NewStream
  <2>3. StreamInv'
    BY <2>2 DEF StreamInv, Writable, NoStream
  <2>4. CASE stream.st = "open" /\ b = <<>>
    <3>1. s.block = writeBuf /\ c = <<>>
      BY <1>1, <2>4 DEF StreamInv, StreamWrite, StreamType
    <3>2. CurrentLines = a \o s.block \o <<>>
      <4>1. a \o <<>> \o <<>> \o writeBuf = a \o writeBuf \o <<>> \o <<>>
        BY <1>1, Regrouped
      <4>2. a \o writeBuf \o <<>> \o <<>> = a \o writeBuf \o <<>>
        <5>1. a \o writeBuf \in Lines
          BY <1>1, JoinedLines
        <5>2. \A t \in Lines : t \o <<>> = t
          BY ConcatEmptySeq DEF Lines
        <5> QED
          BY <5>1, <5>2
      <4> QED
        BY <2>4, <3>1, <4>1, <4>2 DEF CurrentLines
    <3> HIDE DEF s
    <3> QED
      BY <1>2, <2>1, <2>2, <2>3, <3>2, EmptyLines, RotateKeepsOrder
  <2>5. CASE ~(stream.st = "open" /\ b = <<>>)
    <3>1. s.block = b
      BY <1>1, <2>5 DEF StreamWrite, StreamType
    <3>2. c \o writeBuf \in Lines /\ a \o b \in Lines
      BY <1>1, JoinedLines
    <3>3. CurrentLines = a \o s.block \o (c \o writeBuf)
      <4> DEFINE e == a \o b
      <4>1. e \in Lines /\ c \in Lines
        BY <1>1, <3>2
      <4>2. CurrentLines = e \o c \o writeBuf
        BY DEF CurrentLines
      <4> HIDE DEF e, c
      <4>3. e \o c \o writeBuf = e \o (c \o writeBuf)
        BY <1>1, <4>1, Associative
      <4> QED
        BY <3>1, <4>2, <4>3 DEF e
    <3> HIDE DEF s
    <3> QED
      BY <1>2, <2>1, <2>2, <2>3, <3>2, <3>3, RotateKeepsOrder
  <2> QED
    BY <2>4, <2>5
<1>4. ASSUME ~(writeBuf # <<>> /\ currentSize + Len(writeBuf) >= MaxSize)
      PROVE  GapInv'
  <2> DEFINE s == IF writeBuf = <<>> THEN stream ELSE StreamWrite(stream)
  <2>1. files' = files /\ firstLine' = firstLine
        /\ stream' = IF closing
                     THEN [st |-> "ending", block |-> s.block \o s.waiting, waiting |-> <<>>]
                     ELSE s
    BY <1>4 DEF Flush
  <2>2. s.block \in Lines /\ s.waiting \in Lines /\ s.st = stream.st
    BY <1>1, StreamTypes DEF StreamType, StreamWrite
  <2>3. a \o s.block \o s.waiting \o <<>> = CurrentLines
    <3>1. CASE writeBuf = <<>>
      BY <3>1 DEF CurrentLines
    <3>2. CASE writeBuf # <<>> /\ stream.st = "open" /\ b = <<>>
      <4>1. c = <<>>
        BY <3>2 DEF StreamInv
      <4>2. s.block = writeBuf /\ s.waiting = <<>>
        BY <1>1, <3>2, <4>1 DEF StreamWrite, StreamType
      <4>3. a \o writeBuf \o <<>> \o <<>> = a \o <<>> \o <<>> \o writeBuf
        BY <1>1, Regrouped
      <4> QED
        BY <3>2, <4>1, <4>2, <4>3 DEF CurrentLines
    <3>3. CASE writeBuf # <<>> /\ ~(stream.st = "open" /\ b = <<>>)
      <4>1. s.block = b /\ s.waiting = c \o writeBuf
        BY <1>1, <3>3 DEF StreamWrite, StreamType
      <4>2. a \o b \o (c \o writeBuf) \o <<>> = a \o b \o c \o writeBuf
        <5> DEFINE e == a \o b
        <5>1. e \in Lines /\ c \in Lines /\ writeBuf \in Lines
          BY <1>1, JoinedLines
        <5> HIDE DEF e, c
        <5>2. e \o (c \o writeBuf) \o <<>> = e \o c \o writeBuf
          BY <5>1, JoinedEnd
        <5> QED
          BY <5>2 DEF e
      <4> QED
        BY <4>1, <4>2 DEF CurrentLines
    <3> QED
      BY <3>1, <3>2, <3>3
  <2>4. s.st = "opening" => s.block = <<>>
    BY <1>1 DEF StreamInv, StreamWrite, StreamType
  <2>5. s.st = "open" /\ s.block = <<>> => s.waiting = <<>>
    BY <1>1 DEF StreamInv, StreamWrite, StreamType
  <2> HIDE DEF s
  <2>6. CurrentLines' = CurrentLines
    <3>1. CASE closing
      <4>1. stream'.block = s.block \o s.waiting /\ stream'.waiting = <<>>
        BY <2>1, <3>1
      <4>2. a \o (s.block \o s.waiting) \o <<>> \o <<>> = a \o s.block \o s.waiting \o <<>>
        <5>1. a \in Lines /\ s.block \in Lines /\ s.waiting \in Lines /\ <<>> \in Lines
          BY <1>1, <2>2, EmptyLines
        <5>2. a \o s.block \in Lines /\ s.block \o s.waiting \in Lines
              /\ a \o (s.block \o s.waiting) \in Lines
          BY <5>1, JoinedLines
        <5>3. a \o (s.block \o s.waiting) = (a \o s.block) \o s.waiting
          BY <5>1, Associative
        <5>4. \A t \in Lines : t \o <<>> = t
          BY ConcatEmptySeq DEF Lines
        <5> QED
          BY <5>2, <5>3, <5>4
      <4> QED
        BY <1>2, <2>1, <2>3, <4>1, <4>2 DEF CurrentLines
    <3>2. CASE ~closing
      BY <1>2, <2>1, <2>3, <3>2 DEF CurrentLines
    <3> QED
      BY <3>1, <3>2
  <2>7. StreamInv'
    <3>1. logReady
      BY DEF StreamInv, Writable, NoStream
    <3>2. CASE closing
      BY <2>1, <3>1, <3>2 DEF StreamInv
    <3>3. CASE ~closing
      BY <2>1, <2>2, <2>4, <2>5, <3>1, <3>3 DEF StreamInv, Writable
    <3> QED
      BY <3>2, <3>3
  <2> QED
    BY <2>1, <2>6, <2>7, LinesStay
<1> QED
  BY <1>3, <1>4

LEMMA GapStep ==
  ASSUME LoggerTypeOK, GapInv, [LoggerNext]_logVars
  PROVE  GapInv'
<1> DEFINE a == files[0]
           b == stream.block
           c == stream.waiting
<1>1. a \in Lines /\ b \in Lines /\ c \in Lines /\ writeBuf \in Lines
      /\ files \in [FileNames -> Lines] /\ 0 \in FileNames
      /\ stream \in StreamType /\ lineNo \in Nat /\ firstLine \in Nat
  BY LoggerAssumption DEF LoggerTypeOK, FileNames, StreamType
<1> USE DEF GapInv
<1>2. CASE InitLogger
  <2>1. stream = NoStream /\ writeBuf = <<>> /\ stream' = NewStream /\ writeBuf' = <<>>
        /\ logReady' /\ UNCHANGED lineNo
    BY <1>2 DEF InitLogger, StreamInv
  <2>2. StreamInv'
    BY <2>1 DEF StreamInv, NewStream
  <2>3. CurrentLines = a \o <<>> \o <<>> \o <<>> /\ CurrentLines' = files'[0] \o <<>> \o <<>> \o <<>>
    BY <2>1 DEF CurrentLines, NoStream, NewStream
  <2>4. CASE UNCHANGED <<files, firstLine>>
    BY <2>1, <2>2, <2>3, <2>4, LinesStay
  <2>5. CASE Rotate(NoStream)
    <3>1. a \o <<>> \o <<>> \o <<>> = a /\ a \o <<>> = a
      BY <1>1, Regrouped, ConcatEmptySeq DEF Lines
    <3>2. CurrentLines = files[0] \o NoStream.block \o <<>>
      BY <2>3, <3>1 DEF NoStream
    <3>3. stream'.block = <<>> /\ stream'.waiting = <<>>
      BY <2>1 DEF NewStream
    <3> QED
      BY <2>1, <2>2, <2>5, <3>2, <3>3, StreamTypes, EmptyLines, RotateKeepsOrder
  <2> QED
    BY <1>2, <2>4, <2>5 DEF InitLogger
<1>3. CASE WriteLog
  <2>1. StreamInv'
    BY <1>3 DEF WriteLog, StreamInv, Writable, NoStream
  <2> QED
    BY <1>3, <2>1, LineComes
<1>4. CASE FlushTimerFires \/ CloseLogger
  BY <1>4, FlushKeepsLines DEF FlushTimerFires, CloseLogger
<1>5. CASE StreamOpens
  <2>1. b = <<>> /\ stream' = [st |-> "open", block |-> c, waiting |-> <<>>]
        /\ UNCHANGED <<lineNo, writeBuf, files, logReady, firstLine>>
    BY <1>5 DEF StreamOpens, StreamInv
  <2>2. CurrentLines' = CurrentLines
    <3>1. CurrentLines' = a \o c \o <<>> \o writeBuf
      BY <2>1 DEF CurrentLines
    <3>2. a \o <<>> \o c \o writeBuf = a \o c \o <<>> \o writeBuf
      BY <1>1, Regrouped
    <3> QED
      BY <2>1, <3>1, <3>2 DEF CurrentLines
  <2>3. StreamInv'
    BY <1>5, <2>1 DEF StreamInv, StreamOpens, NoStream
  <2> QED
    BY <2>1, <2>2, <2>3, LinesStay
<1>6. CASE BlockWritten
  <2>1. stream.st \in {"open", "ending"} /\ files'[0] = a \o b
        /\ (\A n \in FileNames \ {0} : files'[n] = files[n])
        /\ stream' = [stream EXCEPT !.block = c, !.waiting = <<>>]
        /\ UNCHANGED <<lineNo, writeBuf, logReady, firstLine>>
    BY <1>1, <1>6 DEF BlockWritten
  <2>2. stream'.st = stream.st /\ stream'.block = c /\ stream'.waiting = <<>>
    BY <1>1, <2>1 DEF StreamType
  <2>3. CurrentLines' = CurrentLines
    <3>1. CurrentLines' = (a \o b) \o c \o <<>> \o writeBuf
      BY <2>1, <2>2 DEF CurrentLines
    <3> QED
      BY <1>1, <3>1, Regrouped DEF CurrentLines
  <2>4. StreamInv'
    BY <2>1, <2>2 DEF StreamInv, NoStream
  <2> QED
    BY <2>1, <2>3, <2>4, LinesStay
<1>7. CASE ProgramEnds
  <2>1. StreamInv'
    BY <1>7 DEF ProgramEnds, StreamInv, NoStream
  <2>2. CurrentLines' = a
    <3>1. CurrentLines' = a \o <<>> \o <<>> \o <<>>
      BY <1>7 DEF ProgramEnds, CurrentLines, NoStream
    <3> QED
      BY <1>1, <3>1, Regrouped
  <2>3. \A i \in DOMAIN a : i \in DOMAIN CurrentLines /\ CurrentLines[i] = a[i]
    <3>1. a \o b \in Lines /\ a \o b \o c \in Lines
      BY <1>1, JoinedLines
    <3>2. \A i \in DOMAIN a : i \in DOMAIN (a \o b) /\ (a \o b)[i] = a[i]
      BY <1>1, BeginsWith
    <3>3. \A i \in DOMAIN (a \o b) :
            i \in DOMAIN (a \o b \o c) /\ (a \o b \o c)[i] = (a \o b)[i]
      BY <1>1, <3>1, BeginsWith
    <3>4. \A i \in DOMAIN (a \o b \o c) :
            i \in DOMAIN CurrentLines /\ CurrentLines[i] = (a \o b \o c)[i]
      BY <1>1, <3>1, BeginsWith DEF CurrentLines
    <3> QED
      BY <3>2, <3>3, <3>4
  <2>4. lineNo' = lineNo /\ firstLine' = lineNo /\ files' = files
    BY <1>7 DEF ProgramEnds
  <2>5. NumberInv' /\ LogInOrder'
    BY <2>2, <2>3, <2>4, CurrentBegins
  <2>6. \A i \in DOMAIN CurrentLines' : ~(CurrentLines'[i] > lineNo)
    <3>1. \A i \in DOMAIN a : a[i] <= lineNo
      <4>1. \A i \in DOMAIN CurrentLines : CurrentLines[i] <= lineNo
        BY <1>1 DEF NumberInv, Content
      <4> QED
        BY <2>3, <4>1
    <3>2. \A i \in DOMAIN a : a[i] \in 1..MaxLines
      BY <1>1, ElementOfSeq, LenProperties DEF Lines
    <3> QED
      BY <1>1, <2>2, <3>1, <3>2, LoggerAssumption
  <2>7. NoGapInFile'
    BY <2>4, <2>6 DEF NoGapInFile, ThisRun
  <2> QED
    BY <2>1, <2>5, <2>7
<1>8. CASE UNCHANGED logVars
  <2>1. UNCHANGED <<CurrentLines, lineNo, firstLine, files>>
    BY <1>8 DEF logVars, CurrentLines
  <2>2. StreamInv'
    BY <1>8 DEF logVars, StreamInv
  <2> QED
    BY <2>1, <2>2, LinesStay
<1> QED
  BY <1>2, <1>3, <1>4, <1>5, <1>6, <1>7, <1>8 DEF LoggerNext

LEMMA LogStarts == LoggerInit => GapInv
<1> SUFFICES ASSUME LoggerInit PROVE GapInv
  OBVIOUS
<1>1. CurrentLines = <<>>
  <2>1. files[0] = <<>>
    BY LoggerAssumption DEF LoggerInit, FileNames
  <2>2. <<>> \o <<>> \o <<>> \o <<>> = <<>>
    BY EmptyLines, Regrouped
  <2> QED
    BY <2>1, <2>2 DEF LoggerInit, CurrentLines, NoStream
<1>2. DOMAIN <<>> = {}
  BY EmptySeq, LenProperties
<1>3. \A n \in FileNames : Content(n) = <<>>
  BY <1>1 DEF LoggerInit, Content
<1>4. NumberInv /\ LogInOrder
  BY <1>2, <1>3 DEF LoggerInit, NumberInv, LogInOrder
<1> QED
  BY <1>1, <1>2, <1>4 DEF LoggerInit, GapInv, StreamInv, NoGapInFile, NoStream

(* The lines in the files, oldest file first, and those in the stream and   *)
(* the buffer are in the order they were written and none is kept twice,    *)
(* for any size and number of files, whichever renames of rotateSync fail   *)
(* unseen and whenever the program ends (logger.js).                        *)
THEOREM LogOrdered == LoggerSpec => []LogInOrder
<1>1. GapInv => LogInOrder
  BY DEF GapInv
<1> QED
  BY <1>1, LogStarts, GapStep, LoggerTypesHold, PTL DEF LoggerSpec

(* The current file and what is on its way to it end with the lines written *)
(* since the last start or the last rotation that failed to move            *)
(* activity.log, without a gap: otherwise only whole files are lost         *)
(* (logger.js, flushLog and rotateSync).                                    *)
THEOREM LinesFollow == LoggerSpec => []NoGapInFile
<1>1. GapInv => NoGapInFile
  BY DEF GapInv
<1> QED
  BY <1>1, LogStarts, GapStep, LoggerTypesHold, PTL DEF LoggerSpec

-----------------------------------------------------------------------------
(* Managed connections *)

LEMMA SyncStarts == SyncInit => SyncTypeOK
<1> SUFFICES ASSUME SyncInit PROVE SyncTypeOK
  OBVIOUS
<1>1. NoSave \in Save /\ NoFetch \in Fetch
  BY DEF NoSave, Save, NoFetch, Fetch, Url
<1>2. EffectiveUrl(policy, setting) \in Url
  BY SyncAssumption DEF SyncInit, EffectiveUrl, Url
<1>3. saves \in [Saves -> Save]
  BY <1>1 DEF SyncInit
<1>4. fetches \in [Fetches -> Fetch]
  <2>1. [pc |-> "load", kind |-> "start", url |-> EffectiveUrl(policy, setting)] \in Fetch
    BY <1>2 DEF Fetch
  <2> QED
    BY <1>1, <2>1 DEF SyncInit
<1> QED
  BY <1>3, <1>4 DEF SyncInit, SyncTypeOK, Url

(* A call that ends, whatever its kind, leaves well-typed timers.           *)
LEMMA EndsTypes ==
  ASSUME SyncTypeOK, NEW f \in Fetches, NEW failed, FetchEnds(f, failed)
  PROVE  /\ fetches' \in [Fetches -> Fetch] /\ timer' \in Timers \cup {NoSync}
         /\ intervals' \in [Timers -> Url]
<1>1. NoFetch \in Fetch
  BY DEF NoFetch, Fetch, Url
<1>2. fetches' \in [Fetches -> Fetch]
  BY <1>1 DEF SyncTypeOK, FetchEnds
<1>3. fetches[f].url \in Url
  BY DEF SyncTypeOK, Fetch
<1> QED
  BY <1>2, <1>3 DEF SyncTypeOK, FetchEnds

LEMMA StopTypes ==
  ASSUME SyncTypeOK, StopSync
  PROVE  timer' \in Timers \cup {NoSync} /\ intervals' \in [Timers -> Url]
BY DEF SyncTypeOK, StopSync, Url

LEMMA SyncTypeStep ==
  ASSUME SyncTypeOK, [SyncNext]_allSyncVars
  PROVE  SyncTypeOK'
<1>1. ASSUME NEW f \in Fetches, CachedListLoaded(f) PROVE SyncTypeOK'
  BY <1>1 DEF CachedListLoaded, SyncTypeOK, Fetch, Url
<1>2. ASSUME NEW f \in Fetches, Answered(f) PROVE SyncTypeOK'
  BY <1>2 DEF Answered, SyncTypeOK, Fetch, Url
<1>3. ASSUME NEW f \in Fetches, ListSaved(f) PROVE SyncTypeOK'
  <2>1. /\ fetches' \in [Fetches -> Fetch] /\ timer' \in Timers \cup {NoSync}
        /\ intervals' \in [Timers -> Url]
    BY <1>3, EndsTypes DEF ListSaved
  <2>2. savedList' \in Url
    BY <1>3 DEF ListSaved, SyncTypeOK, Fetch
  <2> QED
    BY <1>3, <2>1, <2>2 DEF ListSaved, SyncTypeOK
<1>4. ASSUME NEW f \in Fetches, FetchFails(f) PROVE SyncTypeOK'
  <2>1. /\ fetches' \in [Fetches -> Fetch] /\ timer' \in Timers \cup {NoSync}
        /\ intervals' \in [Timers -> Url]
    BY <1>4, EndsTypes DEF FetchFails
  <2> QED
    BY <1>4, <2>1 DEF FetchFails, SyncTypeOK
<1>5. ASSUME NEW f \in Fetches, FetchNow(f) PROVE SyncTypeOK'
  <2>1. EffectiveUrl(policy, setting) \in Url
    BY SyncAssumption DEF EffectiveUrl, SyncTypeOK, Url
  <2> QED
    BY <1>5, <2>1 DEF FetchNow, SyncTypeOK, Fetch
<1>6. ASSUME NEW t \in Timers, Tick(t) PROVE SyncTypeOK'
  BY <1>6 DEF Tick, SyncTypeOK, Fetch, Url
<1>7. ASSUME NEW s \in Saves, SaveBegins(s) PROVE SyncTypeOK'
  BY <1>7 DEF SaveBegins, SyncTypeOK, Save, syncVars
<1>8. ASSUME NEW s \in Saves, SaveWritten(s) PROVE SyncTypeOK'
  BY <1>8 DEF SaveWritten, SyncTypeOK, Save, syncVars
<1>9. NoSave \in Save
  BY DEF NoSave, Save, Url
<1>10. ASSUME NEW s \in Saves, SaveFails(s) PROVE SyncTypeOK'
  BY <1>9, <1>10 DEF SaveFails, SyncTypeOK, syncVars
<1>11. ASSUME NEW s \in Saves, SaveEnds(s) PROVE SyncTypeOK'
  <2> DEFINE url == EffectiveUrl(policy, saves[s].merged)
  <2>1. url \in Url
    BY SyncAssumption DEF EffectiveUrl, SyncTypeOK, Save, Url
  <2>2. saves' \in [Saves -> Save] /\ UNCHANGED <<setting, policy, managedConnections, savedList, syncError>>
    BY <1>9, <1>11 DEF SaveEnds, SyncTypeOK
  <2>3. CASE UNCHANGED <<timer, intervals, fetches, abandoned>>
    BY <2>2, <2>3 DEF SyncTypeOK
  <2>4. CASE StartSync(url)
    <3>1. timer' \in Timers \cup {NoSync} /\ intervals' \in [Timers -> Url]
      BY <2>4, StopTypes DEF StartSync
    <3>2. fetches' \in [Fetches -> Fetch]
      <4> HIDE DEF url
      <4>1. [pc |-> "load", kind |-> "start", url |-> url] \in Fetch
        BY <2>1 DEF Fetch
      <4> QED
        BY <2>4, <4>1 DEF StartSync, SyncTypeOK
    <3>3. abandoned' \subseteq Url
      BY <2>4 DEF StartSync, SyncTypeOK
    <3> QED
      BY <2>2, <3>1, <3>2, <3>3 DEF SyncTypeOK
  <2>5. CASE StopSync /\ UNCHANGED <<fetches, abandoned>>
    BY <2>2, <2>5, StopTypes DEF SyncTypeOK
  <2> QED
    BY <1>11, <2>3, <2>4, <2>5 DEF SaveEnds
<1>12. PolicyRead => SyncTypeOK'
  BY DEF PolicyRead, SyncTypeOK, syncVars
<1>13. UNCHANGED allSyncVars => SyncTypeOK'
  BY DEF allSyncVars, SyncTypeOK
<1>14. ASSUME NEW f \in Fetches, FetchHangs(f) PROVE SyncTypeOK'
  <2>1. NoFetch \in Fetch /\ fetches[f].url \in Url
    BY DEF NoFetch, Fetch, Url, SyncTypeOK
  <2> QED
    BY <1>14, <2>1 DEF FetchHangs, SyncTypeOK
<1> QED
  BY <1>1, <1>2, <1>3, <1>4, <1>5, <1>6, <1>7, <1>8, <1>10, <1>11, <1>12, <1>13, <1>14 DEF SyncNext

(* Every reachable state of managed connections is well typed, the policy   *)
(* changing or not and saves overlapping or not.                            *)
THEOREM SyncTypesHold == SyncSpec => []SyncTypeOK
BY SyncStarts, SyncTypeStep, PTL DEF SyncSpec

(* A call that is loading, asking, saving or ending does not uncover a URL: *)
(* a start that ends arms the interval it stood for, unless it hangs.       *)
LEMMA CoveredByCalls ==
  ASSUME SyncTypeOK, NEW url \in Url, Kept(url),
         \/ \E f \in Fetches : \/ CachedListLoaded(f) \/ Answered(f) \/ ListSaved(f)
                               \/ FetchFails(f) \/ FetchHangs(f) \/ FetchNow(f)
         \/ \E t \in Timers : Tick(t)
  PROVE  Kept(url)'
<1>0. abandoned \subseteq abandoned'
  BY DEF CachedListLoaded, Answered, ListSaved, FetchFails, FetchHangs, FetchNow, Tick
<1> SUFFICES ASSUME url # NoSync, url \notin abandoned'
             PROVE  \/ \E t \in Timers : intervals'[t] = url
                    \/ \E g \in Fetches : /\ fetches'[g].pc # "idle"
                                          /\ fetches'[g].kind = "start" /\ fetches'[g].url = url
  BY DEF Kept, Covered
<1>1. \/ \E t \in Timers : intervals[t] = url
      \/ \E g \in Fetches : /\ fetches[g].pc # "idle"
                            /\ fetches[g].kind = "start" /\ fetches[g].url = url
  BY <1>0 DEF Kept, Covered
<1>2. ASSUME NEW f \in Fetches, CachedListLoaded(f) \/ Answered(f)
      PROVE  Covered(url)'
  <2>1. /\ intervals' = intervals
        /\ fetches' = [fetches EXCEPT ![f].pc = "fetch"] \/ fetches' = [fetches EXCEPT ![f].pc = "save"]
    BY <1>2 DEF CachedListLoaded, Answered
  <2>2. \A g \in Fetches : /\ fetches'[g].kind = fetches[g].kind /\ fetches'[g].url = fetches[g].url
                           /\ fetches[g].pc # "idle" => fetches'[g].pc # "idle"
    BY <2>1 DEF SyncTypeOK, Fetch
  <2> QED
    BY <1>1, <2>1, <2>2 DEF Covered
<1>3. ASSUME NEW f \in Fetches, NEW failed, FetchEnds(f, failed)
      PROVE  Covered(url)'
  <2>1. \A g \in Fetches : g # f => fetches'[g] = fetches[g]
    BY <1>3 DEF FetchEnds, SyncTypeOK
  <2>2. CASE fetches[f].kind = "start"
    <3>1. PICK t \in Timers : /\ intervals[t] = NoSync
                              /\ intervals' = [intervals EXCEPT ![t] = fetches[f].url]
      BY <1>3, <2>2 DEF FetchEnds
    <3>2. /\ intervals'[t] = fetches[f].url
          /\ \A u \in Timers : intervals[u] = url => intervals'[u] = url
      BY <3>1 DEF SyncTypeOK
    <3> QED
      BY <1>1, <2>1, <3>2 DEF Covered
  <2>3. CASE fetches[f].kind # "start"
    <3>1. intervals' = intervals
      BY <1>3, <2>3 DEF FetchEnds
    <3> QED
      BY <1>1, <2>1, <2>3, <3>1 DEF Covered
  <2> QED
    BY <2>2, <2>3
<1>4. ASSUME NEW f \in Fetches, FetchIdle(f), NEW call, fetches' = [fetches EXCEPT ![f] = call],
             intervals' = intervals
      PROVE  Covered(url)'
  <2>1. \A g \in Fetches : fetches[g].pc # "idle" => fetches'[g] = fetches[g]
    BY <1>4 DEF FetchIdle, SyncTypeOK
  <2> QED
    BY <1>1, <1>4, <2>1 DEF Covered
<1>5. ASSUME NEW f \in Fetches, FetchNow(f) PROVE Covered(url)'
  BY <1>4, <1>5 DEF FetchNow
<1>6. ASSUME NEW t \in Timers, Tick(t) PROVE Covered(url)'
  BY <1>4, <1>6 DEF Tick
<1>7. ASSUME NEW f \in Fetches, ListSaved(f) \/ FetchFails(f) PROVE Covered(url)'
  BY <1>3, <1>7 DEF ListSaved, FetchFails
<1>9. ASSUME NEW f \in Fetches, FetchHangs(f) PROVE Covered(url)'
  <2>1. /\ fetches[f].kind # "start" \/ fetches[f].url # url
        /\ intervals' = intervals
        /\ \A g \in Fetches : g # f => fetches'[g] = fetches[g]
    BY <1>9 DEF FetchHangs, SyncTypeOK
  <2> QED
    BY <1>1, <2>1 DEF Covered
<1>8. Covered(url)'
  BY <1>2, <1>5, <1>6, <1>7, <1>9
<1> QED
  BY <1>8 DEF Covered

\* A save holds the URL it found, and that one is covered until the save ends.
SaveInv ==
  \A s \in Saves :
    /\ saves[s].pc = "write" => saves[s].was = setting /\ Kept(EffectiveUrl(policy, setting))
    /\ saves[s].pc = "flag" =>
         saves[s].merged = setting /\ Kept(EffectiveUrl(policy, saves[s].was))

LEMMA CoveredStep ==
  ASSUME SyncTypeOK, SaveInv, ConfiguredKept, OneSave, OneSave', [SyncNext /\ UNCHANGED policy]_allSyncVars
  PROVE  SaveInv' /\ ConfiguredKept'
<1>1. \A u \in Url : EffectiveUrl(policy, u) \in Url
  BY SyncAssumption DEF EffectiveUrl, SyncTypeOK, Url
<1>2. CASE \/ \E f \in Fetches : \/ CachedListLoaded(f) \/ Answered(f) \/ ListSaved(f)
                                 \/ FetchFails(f) \/ FetchHangs(f) \/ FetchNow(f)
           \/ \E t \in Timers : Tick(t)
  <2>1. UNCHANGED <<setting, saves, policy>>
    BY <1>2 DEF CachedListLoaded, Answered, ListSaved, FetchFails, FetchHangs, FetchNow, Tick
  <2>2. \A u \in Url : Kept(u) => Kept(u)'
    BY <1>2, CoveredByCalls
  <2>3. setting \in Url /\ \A s \in Saves : saves[s].was \in Url
    BY DEF SyncTypeOK, Save
  <2>4. \A u \in Url : Kept(EffectiveUrl(policy, u)) => Kept(EffectiveUrl(policy, u))'
    BY <1>1, <2>1, <2>2 DEF EffectiveUrl, Kept, Covered
  <2> QED
    BY <2>1, <2>3, <2>4 DEF SaveInv, ConfiguredKept, EffectiveUrl, Kept, Covered
<1>4. ASSUME NEW s \in Saves, SaveBegins(s), UNCHANGED policy PROVE SaveInv' /\ ConfiguredKept'
  <2>1. PICK url \in Url :
          saves' = [saves EXCEPT ![s] = [pc |-> "write", was |-> setting, merged |-> url]]
    BY <1>4 DEF SaveBegins
  <2>2. /\ UNCHANGED <<setting, policy, intervals, fetches, abandoned>> /\ saves[s].pc = "idle"
    BY <1>4 DEF SaveBegins, syncVars
  <2>3. /\ saves'[s].pc = "write" /\ saves'[s].was = setting
        /\ \A o \in Saves : o # s => saves'[o] = saves[o]
    BY <2>1 DEF SyncTypeOK
  <2>4. \A o \in Saves : saves[o].pc = "idle"
    BY <2>2, <2>3 DEF OneSave
  <2>5. Kept(EffectiveUrl(policy, setting))
    BY <2>4 DEF ConfiguredKept
  <2>6. SaveInv'
    BY <2>2, <2>3, <2>4, <2>5 DEF SaveInv, Kept, Covered
  <2> QED
    BY <2>3, <2>6 DEF ConfiguredKept
<1>5. ASSUME NEW s \in Saves, SaveWritten(s), UNCHANGED policy PROVE SaveInv' /\ ConfiguredKept'
  <2>1. /\ UNCHANGED <<policy, intervals, fetches, abandoned>> /\ saves[s].pc = "write"
        /\ setting' = saves[s].merged /\ saves' = [saves EXCEPT ![s].pc = "flag"]
    BY <1>5 DEF SaveWritten, syncVars
  <2>2. /\ saves'[s].pc = "flag" /\ saves'[s].was = saves[s].was
        /\ saves'[s].merged = saves[s].merged
        /\ \A o \in Saves : o # s => saves'[o] = saves[o]
    BY <2>1 DEF SyncTypeOK, Save
  <2>3. \A o \in Saves : o # s => saves'[o].pc = "idle"
    <3>1. \A o \in Saves : saves'[o].pc # "idle" => o = s
      BY <2>2 DEF OneSave
    <3> QED
      BY <3>1
  <2>4. Kept(EffectiveUrl(policy, saves[s].was))
    BY <2>1 DEF SaveInv
  <2>5. SaveInv'
    BY <2>1, <2>2, <2>3, <2>4 DEF SaveInv, Kept, Covered
  <2> QED
    BY <2>2, <2>5 DEF ConfiguredKept
<1>6. ASSUME NEW s \in Saves, SaveFails(s), UNCHANGED policy PROVE SaveInv' /\ ConfiguredKept'
  <2>1. /\ UNCHANGED <<policy, setting, intervals, fetches, abandoned>> /\ saves[s].pc = "write"
        /\ saves' = [saves EXCEPT ![s] = NoSave]
    BY <1>6 DEF SaveFails, syncVars
  <2>2. /\ saves'[s].pc = "idle" /\ \A o \in Saves : o # s => saves'[o] = saves[o]
    BY <2>1 DEF SyncTypeOK, NoSave
  <2>3. Kept(EffectiveUrl(policy, setting))
    BY <2>1 DEF SaveInv
  <2>4. SaveInv'
    BY <2>1, <2>2 DEF SaveInv, Kept, Covered
  <2> QED
    BY <2>1, <2>3, <2>4 DEF ConfiguredKept, Kept, Covered
<1>7. ASSUME NEW s \in Saves, SaveEnds(s), UNCHANGED policy PROVE SaveInv' /\ ConfiguredKept'
  <2> DEFINE url == EffectiveUrl(policy, saves[s].merged)
  <2>1. /\ UNCHANGED <<policy, setting>> /\ saves[s].pc = "flag"
        /\ saves' = [saves EXCEPT ![s] = NoSave]
    BY <1>7 DEF SaveEnds
  <2>2. /\ saves'[s].pc = "idle" /\ \A o \in Saves : o # s => saves'[o] = saves[o]
    BY <2>1 DEF SyncTypeOK, NoSave
  <2>3. \A o \in Saves : saves'[o].pc = "idle"
    <3>1. \A o \in Saves : saves[o].pc # "idle" => o = s
      BY <2>1 DEF OneSave
    <3> QED
      BY <2>2, <3>1
  <2>4. setting = saves[s].merged /\ Kept(EffectiveUrl(policy, saves[s].was))
    BY <2>1 DEF SaveInv
  <2>5. CASE saves[s].merged = saves[s].was /\ UNCHANGED <<timer, intervals, fetches, abandoned>>
    <3>1. Kept(EffectiveUrl(policy, setting))'
      BY <2>1, <2>4, <2>5 DEF Kept, Covered, EffectiveUrl
    <3> QED
      BY <2>3, <3>1 DEF SaveInv, ConfiguredKept
  <2>6. CASE url # NoSync /\ StartSync(url)
    <3> DEFINE call == [pc |-> "load", kind |-> "start", url |-> url]
    <3>1. PICK f \in Fetches : fetches' = [fetches EXCEPT ![f] = call]
      BY <2>6 DEF StartSync
    <3>2. fetches'[f] = call
      BY <3>1 DEF SyncTypeOK
    <3> HIDE DEF url
    <3>3. fetches'[f].pc # "idle" /\ fetches'[f].kind = "start" /\ fetches'[f].url = url
      BY <3>2
    <3>4. url = EffectiveUrl(policy, setting)'
      BY <2>1, <2>4 DEF url, EffectiveUrl
    <3>5. Kept(EffectiveUrl(policy, setting))'
      BY <3>3, <3>4 DEF Kept, Covered
    <3> QED
      BY <2>3, <3>5 DEF SaveInv, ConfiguredKept
  <2>7. CASE url = NoSync
    BY <2>1, <2>3, <2>4, <2>7 DEF SaveInv, ConfiguredKept, Kept, Covered
  <2> QED
    BY <1>7, <2>5, <2>6, <2>7 DEF SaveEnds
<1>8. CASE (PolicyRead /\ UNCHANGED policy) \/ UNCHANGED allSyncVars
  BY <1>8 DEF PolicyRead, allSyncVars, syncVars, SaveInv, ConfiguredKept, Kept, Covered, EffectiveUrl
<1> QED
  BY <1>2, <1>4, <1>5, <1>6, <1>7, <1>8 DEF SyncNext

(* While group policy stays what it is and saves do not overlap, the URL in *)
(* effect never loses what polls it, for any number of calls and timers:    *)
(* whatever else stopSync clears, and however late a startSync ends, unless *)
(* its first fetch is left pending for ever.                                *)
THEOREM UrlStaysPolled == SteadySpec /\ []OneSave => []ConfiguredKept
<1>1. SyncInit => SyncTypeOK /\ SaveInv /\ ConfiguredKept
  <2> SUFFICES ASSUME SyncInit PROVE SaveInv /\ ConfiguredKept
    BY SyncStarts
  <2>1. \A s \in Saves : saves[s].pc = "idle"
    BY DEF SyncInit, NoSave
  <2>2. Kept(EffectiveUrl(policy, setting))
    BY DEF SyncInit, Kept, Covered
  <2> QED
    BY <2>1, <2>2 DEF SaveInv, ConfiguredKept
<1>2. SyncTypeOK /\ [SyncNext /\ UNCHANGED policy]_allSyncVars => SyncTypeOK'
  <2>1. [SyncNext /\ UNCHANGED policy]_allSyncVars => [SyncNext]_allSyncVars
    OBVIOUS
  <2> QED
    BY <2>1, SyncTypeStep
<1>3. /\ SyncTypeOK /\ SaveInv /\ ConfiguredKept /\ OneSave /\ OneSave'
      /\ [SyncNext /\ UNCHANGED policy]_allSyncVars
      => SaveInv' /\ ConfiguredKept'
  BY CoveredStep
<1> QED
  BY <1>1, <1>2, <1>3, PTL DEF SteadySpec

-----------------------------------------------------------------------------
(* The parts side by side *)

(* The desktop steps as one of its parts does, and no other.                *)
LEMMA PartSteps ==
  ASSUME [DeskNext]_deskVars
  PROVE  /\ [SftpNext]_sftpVars /\ [ViewsNext]_viewsVars /\ [DebugNext]_debugVars
         /\ [TelnetWireNext]_telnetVars /\ [LoggerNext]_logVars
         /\ [SignInNext]_signInVars /\ [DirectNext]_directVars
         /\ part' = part
BY DEF DeskNext, deskVars, SftpPart, ViewsPart, DebugPart, TelnetPart, LogPart, SignInPart, DirectPart

(* Whatever part a behaviour of the desktop is about, it is a behaviour of  *)
(* every part's own specification: what is proved of one holds here.        *)
THEOREM DeskRunsParts ==
  DeskSpec => /\ SftpSpec /\ ViewsSpec /\ DebugSpec /\ TelnetWireSpec
              /\ LoggerSpec /\ SignInSpec /\ DirectSpec
<1>1. DeskInit => /\ SftpInit /\ ViewsInit /\ DebugInit /\ TelnetInit
                  /\ LoggerInit /\ SignInInit /\ DirectInit
  BY DEF DeskInit
<1>2. [DeskNext]_deskVars => /\ [SftpNext]_sftpVars /\ [ViewsNext]_viewsVars
                             /\ [DebugNext]_debugVars /\ [TelnetWireNext]_telnetVars
                             /\ [LoggerNext]_logVars /\ [SignInNext]_signInVars
                             /\ [DirectNext]_directVars
  BY PartSteps
<1> QED
  BY <1>1, <1>2, PTL DEF DeskSpec, SftpSpec, ViewsSpec, DebugSpec, TelnetWireSpec,
     LoggerSpec, SignInSpec, DirectSpec

(* Every reachable state of the desktop is well typed, in every part.       *)
THEOREM DeskTypesHold == DeskSpec => []DeskTypeOK
<1>1. DeskInit => part \in Parts
  BY DEF DeskInit
<1>2. part \in Parts /\ [DeskNext]_deskVars => (part \in Parts)'
  BY PartSteps
<1>3. /\ part \in Parts /\ SftpTypeOK /\ ViewsTypeOK /\ DebugTypeOK /\ TelnetTypeOK
      /\ LoggerTypeOK /\ SignInTypeOK /\ DirectTypeInv
      => DeskTypeOK
  BY DEF DeskTypeOK, DirectTypeInv
<1> QED
  BY <1>1, <1>2, <1>3, DeskRunsParts, SftpTypesHold, ViewsTypesHold, DebugTypesHold,
     TelnetTypesHold, LoggerTypesHold, SignInTypesHold, DirectTypesHold, PTL DEF DeskSpec
=============================================================================
