------------------------------- MODULE SignIn -------------------------------
(***************************************************************************)
(* auth.js: signing in with Microsoft in a window of its own, signing out, *)
(* and the status check that signs in silently from the token cache.       *)
(***************************************************************************)
EXTENDS FiniteSets

CONSTANTS
  Accounts,   \* accounts one can sign in to
  Flows,      \* signIn calls
  Checks,     \* getAuthStatus calls
  SignOuts,   \* signOut calls
  NoAccount

ASSUME SignInAssumption == NoAccount \notin Accounts

VARIABLES
  currentUser,
  authCache,   \* the account in auth-cache.enc
  flow,        \* the signIn calls
  check,       \* the getAuthStatus calls
  leaving,     \* signOut calls that await the unlink
  signedOut    \* history: signed out and the cache gone, and nothing was
               \* under way by then

signInVars == <<currentUser, authCache, flow, check, leaving, signedOut>>

(* A flow prepares the window, shows it, exchanges the code for tokens and  *)
(* saves them.  Its promise may be settled before: the user closes the      *)
(* window.  The window exists until then.                                   *)
Flow == [st : {"idle", "preparing", "window", "exchanging", "saving", "done"},
         account : Accounts \cup {NoAccount},
         settled : {"no", "user", "error"}]
IdleFlow == [st |-> "idle", account |-> NoAccount, settled |-> "no"]
Check == [st : {"idle", "silent", "saving"}, account : Accounts \cup {NoAccount}]
IdleCheck == [st |-> "idle", account |-> NoAccount]

SignInTypeOK ==
  /\ currentUser \in Accounts \cup {NoAccount}
  /\ authCache \in Accounts \cup {NoAccount}
  /\ flow \in [Flows -> Flow] /\ check \in [Checks -> Check]
  /\ leaving \subseteq SignOuts /\ signedOut \in BOOLEAN

SignInInit ==
  /\ currentUser = NoAccount /\ authCache = NoAccount
  /\ flow = [f \in Flows |-> IdleFlow] /\ check = [c \in Checks |-> IdleCheck]
  /\ leaving = {} /\ signedOut = FALSE

UnderWay(flows, checks) ==
  \/ \E f \in Flows : flows[f].st \in {"preparing", "window", "exchanging", "saving"}
  \/ \E c \in Checks : checks[c].st # "idle"

Settled(fl, how) == IF fl.settled = "no" THEN [fl EXCEPT !.settled = how] ELSE fl

StartSignIn(f) ==
  /\ flow[f].st \in {"idle", "done"}
  /\ flow' = [flow EXCEPT ![f] = [IdleFlow EXCEPT !.st = "preparing"]]
  /\ signedOut' = FALSE
  /\ UNCHANGED <<currentUser, authCache, check, leaving>>

\* generatePkceCodes and getAuthCodeUrl; no network, no window.
Prepared(f) ==
  /\ flow[f].st = "preparing"
  /\ \E ok \in BOOLEAN :
       flow' = [flow EXCEPT ![f] = IF ok THEN [@ EXCEPT !.st = "window"]
                                   ELSE Settled([@ EXCEPT !.st = "done"], "error")]
  /\ UNCHANGED <<currentUser, authCache, check, leaving, signedOut>>

\* handleUrl: the redirect carries an error, or a code.
Redirected(f) ==
  /\ flow[f].st = "window"
  /\ \/ flow' = [flow EXCEPT ![f] = Settled([@ EXCEPT !.st = "done"], "error")]
     \/ \E a \in Accounts :
          flow' = [flow EXCEPT ![f] = [@ EXCEPT !.st = "exchanging", !.account = a]]
  /\ UNCHANGED <<currentUser, authCache, check, leaving, signedOut>>

\* Mutant: nothing is done when the window is closed.
ClosedUnsettled(fl) == [fl EXCEPT !.st = IF @ = "window" THEN "done" ELSE @]

\* The closed handler; an exchange under way goes on.
WindowClosed(fl) == Settled([fl EXCEPT !.st = IF @ = "window" THEN "done" ELSE @], "error")

CloseSignInWindow(f) ==
  /\ flow[f].st \in {"window", "exchanging", "saving"} /\ flow[f].settled = "no"
  /\ flow' = [flow EXCEPT ![f] = WindowClosed(@)]
  /\ UNCHANGED <<currentUser, authCache, check, leaving, signedOut>>

Exchanged(f) ==
  /\ flow[f].st = "exchanging"
  /\ \/ flow' = [flow EXCEPT ![f].st = "saving"]
     \/ flow' = [flow EXCEPT ![f] = Settled([@ EXCEPT !.st = "done"], "error")]
  /\ UNCHANGED <<currentUser, authCache, check, leaving, signedOut>>

(* saveTokenCache, which may fail unseen; the user is signed in even when   *)
(* the call was settled before.                                             *)
SignedIn(f) ==
  /\ flow[f].st = "saving"
  /\ authCache' \in {authCache, flow[f].account}
  /\ currentUser' = flow[f].account
  /\ flow' = [flow EXCEPT ![f] = Settled([@ EXCEPT !.st = "done"], "user")]
  /\ UNCHANGED <<check, leaving, signedOut>>

BeginSignOut(o) ==
  /\ o \notin leaving
  /\ currentUser' = NoAccount /\ leaving' = leaving \cup {o}
  /\ UNCHANGED <<authCache, flow, check, signedOut>>

\* The unlink may fail, and every error is swallowed: the tokens then stay.
SignOutEnds(o) ==
  /\ o \in leaving
  /\ authCache' \in {authCache, NoAccount}
  /\ leaving' = leaving \ {o}
  /\ signedOut' = /\ currentUser = NoAccount /\ authCache' = NoAccount
                  /\ leaving' = {} /\ ~UnderWay(flow, check)
  /\ UNCHANGED <<currentUser, flow, check>>

\* Mutant: the MSAL client is built once and keeps its tokens in memory.
StartCheckInMemory(c) ==
  /\ check[c].st = "idle"
  /\ currentUser = NoAccount
  /\ \E a \in Accounts : check' = [check EXCEPT ![c] = [st |-> "silent", account |-> a]]
  /\ UNCHANGED <<currentUser, authCache, flow, leaving, signedOut>>

(* getAuthStatus: answered at once for a user, or without cached tokens.    *)
StartCheck(c) ==
  /\ check[c].st = "idle"
  /\ currentUser = NoAccount /\ authCache # NoAccount
  /\ check' = [check EXCEPT ![c] = [st |-> "silent", account |-> authCache]]
  /\ UNCHANGED <<currentUser, authCache, flow, leaving, signedOut>>

\* acquireTokenSilent.
SilentAnswers(c) ==
  /\ check[c].st = "silent"
  /\ \E next \in {IdleCheck, [check[c] EXCEPT !.st = "saving"]} :
       check' = [check EXCEPT ![c] = next]
  /\ UNCHANGED <<currentUser, authCache, flow, leaving, signedOut>>

CheckEnds(c) ==
  /\ check[c].st = "saving"
  /\ authCache' \in {authCache, check[c].account}
  /\ currentUser' = check[c].account
  /\ check' = [check EXCEPT ![c] = IdleCheck]
  /\ UNCHANGED <<flow, leaving, signedOut>>

(* The program ends and starts again: what is on disk stays.                *)
Restart ==
  /\ currentUser' = NoAccount /\ leaving' = {}
  /\ flow' = [f \in Flows |-> IdleFlow] /\ check' = [c \in Checks |-> IdleCheck]
  /\ UNCHANGED <<authCache, signedOut>>

SignInNext ==
  \/ Restart
  \/ \E f \in Flows : \/ StartSignIn(f) \/ Prepared(f) \/ Redirected(f)
                      \/ CloseSignInWindow(f) \/ Exchanged(f) \/ SignedIn(f)
  \/ \E o \in SignOuts : BeginSignOut(o) \/ SignOutEnds(o)
  \/ \E c \in Checks : StartCheck(c) \/ SilentAnswers(c) \/ CheckEnds(c)

SignInSpec == SignInInit /\ [][SignInNext]_signInVars

-----------------------------------------------------------------------------
(* Properties *)

(* A sign-in that is over has answered its caller: by a user, an error, or  *)
(* because the window was closed.                                           *)
SignInAnswered == \A f \in Flows : flow[f].st = "done" => flow[f].settled # "no"

(* A sign-out that could remove the token cache, with nothing else under    *)
(* way, lasts until the next sign-in, restarts included: no status check    *)
(* finds tokens to sign in with.  A sign-in or check under way would undo   *)
(* it, and so does a cache that could not be removed (auth.js:157).         *)
SignedOutStays == signedOut => currentUser = NoAccount /\ authCache = NoAccount
=============================================================================
