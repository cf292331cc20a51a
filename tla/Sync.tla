-------------------------------- MODULE Sync --------------------------------
(***************************************************************************)
(* Managed connections: sync.js, which polls a URL for a list and keeps a  *)
(* copy of it on disk; settings.js and the save-settings handler, which    *)
(* restart it when the URL changes; and policy.js, whose URL overrides the *)
(* one in the settings.  Lists are told apart by the URL they came from.   *)
(***************************************************************************)
EXTENDS Naturals, FiniteSets

CONSTANTS
  Urls,        \* sync URLs
  PolicyUrls,  \* what group policy may say: URLs or NoSync
  Saves,       \* save-settings calls in flight
  Fetches,     \* startSync and fetchAndApply calls in flight
  Timers,      \* setInterval timers
  NoSync       \* null, "", no file

ASSUME SyncAssumption ==
  /\ NoSync \notin Urls \cup Timers
  /\ PolicyUrls \subseteq Urls \cup {NoSync}
  /\ PolicyUrls # {}

VARIABLES
  setting,    \* configSyncUrl in the cached settings
  saves,      \* save-settings handlers
  policy,     \* configSyncUrl in the cached policy
  timer,      \* syncTimer
  intervals,  \* live timers, with the URL they poll
  fetches,    \* frames of startSync and fetchAndApply
  managedConnections,  \* the list in memory
  savedList,  \* managed-connections.json
  syncError,  \* lastSyncError is set
  abandoned   \* history: URLs a startSync will never arm a timer for, since
              \* they were last started

syncVars ==
  <<timer, intervals, fetches, managedConnections, savedList, syncError, abandoned>>
allSyncVars == <<setting, saves, policy, timer, intervals, fetches, managedConnections,
                 savedList, syncError, abandoned>>

Url == Urls \cup {NoSync}

(* "write" awaits the temporary file and the rename, "flag" the sidecar     *)
(* file for the GPU setting; `was` is the URL before, `merged` the new one. *)
Save == [pc : {"idle", "write", "flag"}, was : Url, merged : Url]
NoSave == [pc |-> "idle", was |-> NoSync, merged |-> NoSync]

(* "load" awaits the file, "fetch" the server, "save" the write of the file.*)
(* A start arms a timer when it ends; a tick and a fetch-now do not.        *)
Fetch == [pc : {"idle", "load", "fetch", "save"}, kind : {"start", "tick", "now"}, url : Url]
NoFetch == [pc |-> "idle", kind |-> "now", url |-> NoSync]

SyncTypeOK ==
  /\ setting \in Url /\ policy \in PolicyUrls
  /\ saves \in [Saves -> Save]
  /\ timer \in Timers \cup {NoSync}
  /\ intervals \in [Timers -> Url]
  /\ fetches \in [Fetches -> Fetch]
  /\ managedConnections \in Url /\ savedList \in Url
  /\ syncError \in BOOLEAN
  /\ abandoned \subseteq Url

\* Policy first; the URL in the settings counts when it says nothing.
EffectiveUrl(p, s) == IF p # NoSync THEN p ELSE s

FetchIdle(f) == fetches[f].pc = "idle"

\* Start-up has just called startSync, if there is a URL.
SyncInit ==
  /\ setting \in Url /\ policy \in PolicyUrls /\ savedList \in Url
  /\ saves = [s \in Saves |-> NoSave]
  /\ timer = NoSync /\ intervals = [t \in Timers |-> NoSync]
  /\ LET url == EffectiveUrl(policy, setting) IN
       \E f \in Fetches :
         fetches = [g \in Fetches |-> IF g = f /\ url # NoSync
                                      THEN [pc |-> "load", kind |-> "start", url |-> url]
                                      ELSE NoFetch]
  /\ managedConnections = NoSync /\ syncError = FALSE
  /\ abandoned = {}

-----------------------------------------------------------------------------
(* sync.js *)

\* stopSync clears the timer whose handle is in syncTimer, and only that one.
StopSync ==
  /\ intervals' = IF timer # NoSync THEN [intervals EXCEPT ![timer] = NoSync] ELSE intervals
  /\ timer' = NoSync

StartSync(url) ==
  /\ StopSync
  /\ \E f \in Fetches :
       /\ FetchIdle(f)
       /\ fetches' = [fetches EXCEPT ![f] = [pc |-> "load", kind |-> "start", url |-> url]]
  /\ abandoned' = abandoned \ {url}

\* A missing or unreadable file leaves the list as it is.
CachedListLoaded(f) ==
  /\ fetches[f].pc = "load"
  /\ managedConnections' \in {managedConnections} \cup ({savedList} \ {NoSync})
  /\ fetches' = [fetches EXCEPT ![f].pc = "fetch"]
  /\ UNCHANGED <<setting, saves, policy, timer, intervals, savedList, syncError, abandoned>>

Answered(f) ==
  /\ fetches[f].pc = "fetch"
  /\ managedConnections' = fetches[f].url
  /\ syncError' = FALSE
  /\ fetches' = [fetches EXCEPT ![f].pc = "save"]
  /\ UNCHANGED <<setting, saves, policy, timer, intervals, savedList, abandoned>>

\* Mutant: a failure of the first fetch leaves startSync.
FetchEndsWhenFetched(f, failed) ==
  /\ fetches' = [fetches EXCEPT ![f] = NoFetch]
  /\ IF fetches[f].kind = "start" /\ ~failed
     THEN \E t \in Timers :
            /\ intervals[t] = NoSync
            /\ intervals' = [intervals EXCEPT ![t] = fetches[f].url]
            /\ timer' = t
     ELSE UNCHANGED <<timer, intervals>>

\* What follows fetchAndApply: a start arms the interval, failed or not.
FetchEnds(f, failed) ==
  /\ fetches' = [fetches EXCEPT ![f] = NoFetch]
  /\ IF fetches[f].kind = "start"
     THEN \E t \in Timers :
            /\ intervals[t] = NoSync
            /\ intervals' = [intervals EXCEPT ![t] = fetches[f].url]
            /\ timer' = t
     ELSE UNCHANGED <<timer, intervals>>

ListSaved(f) ==
  /\ fetches[f].pc = "save"
  /\ savedList' = fetches[f].url
  /\ FetchEnds(f, FALSE)
  /\ UNCHANGED <<setting, saves, policy, managedConnections, syncError, abandoned>>

\* A request error, a socket idle for 10 s, a bad answer, a list too large, or
\* a file that cannot be written.
FetchFails(f) ==
  /\ fetches[f].pc \in {"fetch", "save"}
  /\ syncError' = IF fetches[f].kind = "now" THEN syncError ELSE TRUE
  /\ FetchEnds(f, TRUE)
  /\ UNCHANGED <<setting, saves, policy, managedConnections, savedList, abandoned>>

(* A response closed in mid-body: the response has no handler for it, and a *)
(* closed socket no longer times out.  The promise stays pending for ever,  *)
(* and with it the frame that awaits it.                                    *)
FetchHangs(f) ==
  /\ fetches[f].pc = "fetch"
  /\ abandoned' = IF fetches[f].kind = "start" THEN abandoned \cup {fetches[f].url}
                  ELSE abandoned
  /\ fetches' = [fetches EXCEPT ![f] = NoFetch]
  /\ UNCHANGED <<setting, saves, policy, timer, intervals, managedConnections, savedList,
                 syncError>>

Tick(t) ==
  /\ intervals[t] # NoSync
  /\ \E f \in Fetches :
       /\ FetchIdle(f)
       /\ fetches' = [fetches EXCEPT ![f] =
                       [pc |-> "fetch", kind |-> "tick", url |-> intervals[t]]]
  /\ UNCHANGED <<setting, saves, policy, timer, intervals, managedConnections, savedList,
                 syncError, abandoned>>

\* The sync-fetch-now handler.
FetchNow(f) ==
  /\ FetchIdle(f)
  /\ EffectiveUrl(policy, setting) # NoSync
  /\ fetches' = [fetches EXCEPT ![f] = [pc |-> "fetch", kind |-> "now",
                                        url |-> EffectiveUrl(policy, setting)]]
  /\ UNCHANGED <<setting, saves, policy, timer, intervals, managedConnections, savedList,
                 syncError, abandoned>>

-----------------------------------------------------------------------------
(* settings.js and the save-settings handler *)

(* Bound: a save begins only while a timer remains for every start that may *)
(* follow; intervals that lost their handle are never given back.           *)
RoomForStart ==
  Cardinality({t \in Timers : intervals[t] # NoSync})
    + Cardinality({f \in Fetches : fetches[f].kind = "start"})
    + Cardinality({s \in Saves : saves[s].pc # "idle"}) < Cardinality(Timers)

\* The partial object names a URL, or other settings only.
SaveBegins(s) ==
  /\ saves[s].pc = "idle" /\ RoomForStart
  /\ \E url \in Url :
       saves' = [saves EXCEPT ![s] = [pc |-> "write", was |-> setting, merged |-> url]]
  /\ UNCHANGED <<setting, policy, syncVars>>

SaveWritten(s) ==
  /\ saves[s].pc = "write"
  /\ setting' = saves[s].merged
  /\ saves' = [saves EXCEPT ![s].pc = "flag"]
  /\ UNCHANGED <<policy, syncVars>>

SaveFails(s) ==
  /\ saves[s].pc = "write"
  /\ saves' = [saves EXCEPT ![s] = NoSave]
  /\ UNCHANGED <<setting, policy, syncVars>>

SaveEnds(s) ==
  LET url == EffectiveUrl(policy, saves[s].merged) IN
  /\ saves[s].pc = "flag"
  /\ saves' = [saves EXCEPT ![s] = NoSave]
  /\ IF saves[s].merged = saves[s].was
     THEN UNCHANGED <<timer, intervals, fetches, abandoned>>
     ELSE IF url # NoSync THEN StartSync(url)
     ELSE StopSync /\ UNCHANGED <<fetches, abandoned>>
  /\ UNCHANGED <<setting, policy, managedConnections, savedList, syncError>>

\* The policy poll: a change is announced to the windows, nothing else.
PolicyRead ==
  /\ policy' \in PolicyUrls
  /\ UNCHANGED <<setting, saves, syncVars>>

SyncNext ==
  \/ \E f \in Fetches : \/ CachedListLoaded(f) \/ Answered(f) \/ ListSaved(f)
                        \/ FetchFails(f) \/ FetchHangs(f) \/ FetchNow(f)
  \/ \E t \in Timers : Tick(t)
  \/ \E s \in Saves : SaveBegins(s) \/ SaveWritten(s) \/ SaveFails(s) \/ SaveEnds(s)
  \/ PolicyRead

(* File operations end, a fetch is answered, fails or is abandoned, and a   *)
(* live interval fires again and again (strongly fair, since the bound on   *)
(* Fetches, which the code does not have, may hold it back).                *)
SyncFairness ==
  /\ \A f \in Fetches : /\ WF_allSyncVars(CachedListLoaded(f))
                        /\ WF_allSyncVars(Answered(f) \/ FetchFails(f) \/ FetchHangs(f))
                        /\ WF_allSyncVars(ListSaved(f) \/ FetchFails(f))
  /\ \A s \in Saves : WF_allSyncVars(SaveWritten(s) \/ SaveFails(s)) /\ SF_allSyncVars(SaveEnds(s))
  /\ \A t \in Timers : SF_allSyncVars(Tick(t))

SyncSpec == SyncInit /\ [][SyncNext]_allSyncVars

\* The behaviours during which group policy stays what it is, and its saves
\* one at a time.
OneSave == \A s \in Saves, o \in Saves : saves[s].pc # "idle" /\ saves[o].pc # "idle" => s = o
SteadySpec == SyncInit /\ [][SyncNext /\ UNCHANGED policy]_allSyncVars
SteadyPolicySpec == SteadySpec /\ SyncFairness

-----------------------------------------------------------------------------
(* Properties *)

(* While saves do not overlap and group policy stays what it is, the URL in *)
(* effect, once it no longer changes, is polled for ever, whatever starts,  *)
(* stops and failures came before: a startSync that ends late may leave a   *)
(* stray interval, but never takes away the one that counts.  Only a first  *)
(* fetch that neither ends nor fails (sync.js:86) leaves a URL without one. *)
ConfiguredIsPolled ==
  \A u \in Urls :
    <>[](EffectiveUrl(policy, setting) = u) =>
      \/ []<>(\E f \in Fetches : fetches[f].pc = "fetch" /\ fetches[f].url = u)
      \/ <>[](u \in abandoned)

\* An interval polls the URL, or a startSync under way will arm one for it.
Covered(url) ==
  url # NoSync =>
    \/ \E t \in Timers : intervals[t] = url
    \/ \E f \in Fetches : /\ fetches[f].pc # "idle"
                          /\ fetches[f].kind = "start" /\ fetches[f].url = url

\* It is, or the startSync that was to do so hangs.
Kept(url) == Covered(url) \/ url \in abandoned

(* What that rests on, and what README.md:166 promises of a configured URL: *)
(* between saves the URL in effect has an interval or is about to have one, *)
(* whichever starts, ends and failures of earlier URLs are still under way. *)
(* It takes a steady policy, saves that do not overlap, and a first fetch   *)
(* that is not left pending for ever.                                       *)
ConfiguredKept ==
  (\A s \in Saves : saves[s].pc = "idle") => Kept(EffectiveUrl(policy, setting))

(* "Restart sync if the URL changed": with nothing in flight, no interval   *)
(* polls any other URL than the one in effect.                              *)
OnlyEffectivePolled ==
  (\A f \in Fetches : FetchIdle(f)) /\ (\A s \in Saves : saves[s].pc = "idle") =>
    \A t \in Timers : intervals[t] \in {NoSync, EffectiveUrl(policy, setting)}
=============================================================================
