------------------------------ MODULE Session -------------------------------
(***************************************************************************)
(* Who is signed in: the Firebase session, which survives a restart, and   *)
(* UserProvider._user, which does not, as SplashScreen, LoginScreen,       *)
(* SignUpScreen and AccountScreen.logout move them.                        *)
(*                                                                         *)
(* A sign-in is a chain of awaits during which the user can leave the      *)
(* screen, press another sign-in button, or lose the connection.  A chain  *)
(* outlives its screen: a State that is no longer mounted has no context,  *)
(* and Provider.of, Navigator.of and setState throw there.                 *)
(*                                                                         *)
(* The asserts of google_service.dart are not evaluated (release build).   *)
(***************************************************************************)
EXTENDS Integers, FiniteSets

CONSTANTS
  Accounts,   \* Firebase accounts
  None,
  Checks,     \* bound: start-up checks (two can overlap, see SplashScreen)
  MaxLogins   \* bound: sign-ins that are under way at once

ASSUME SessionAssumption ==
  /\ None \notin Accounts
  /\ MaxLogins \in Nat

VARIABLES
  auth,         \* FirebaseAuth.instance.currentUser()
  user,         \* UserProvider._user
  registered,   \* the accounts the backend has a profile of
  googleToken,  \* google_service.dart: the account the global token is of
  tokenWaits,   \* accounts whose getIdToken().then has not run yet
  screen,       \* the route on top
  isLoading,    \* _LoginScreenState.isLoading: the spinner blocks the form
  logins,       \* the sign-in under way with each method
  checks,       \* the runs of SplashScreen.startCheckUser
  uid,          \* _SignUpScreenState.uid, None before it is read
  posts,        \* sign-up requests on their way
  signingOut,   \* logout: awaits signOut(), or its answer is on the way back
  stuck,        \* history: a sign-in ended without clearing isLoading
  raced         \* history: the Firebase session moved under another chain

signUp    == <<uid, posts>>
google    == <<googleToken, tokenWaits>>
histories == <<stuck, raced>>
vars == <<auth, user, registered, googleToken, tokenWaits, screen, isLoading,
          logins, checks, uid, posts, signingOut, stuck, raced>>

Methods == {"phone", "facebook", "google"}
Somebody == Accounts \union {None}

\* Where a sign-in waits: for the provider and signInWithCredential, for
\* getIdToken, for currentUser in signInWithGoogle, for currentUser and getUser
\* in _getUserByToken, and for signOut in its catch block.
Phases  == {"idle", "credential", "token", "current", "check", "profile", "signout"}
Screens == {"splash", "main", "login", "signup"}

Idle   == [phase |-> "idle", account |-> None, token |-> None, mounted |-> FALSE]
Logins == [phase : Phases, account : Somebody, token : Somebody, mounted : BOOLEAN]

Pending == {m \in Methods : logins[m].phase # "idle"}

\* The sign-ins, other than m, that rely on the Firebase session as it is.
Relying(m) ==
  {n \in Methods \ {m} : logins[n].phase \in {"token", "current", "check", "profile"}}

Posts == [uid : Somebody, mounted : BOOLEAN]

Unmounted(ls) == [m \in Methods |-> IF ls[m].phase = "idle" THEN Idle
                                    ELSE [ls[m] EXCEPT !.mounted = FALSE]]

\* A new value of screen: the screen that was left loses its State.
Leave(ls) == logins' = Unmounted(ls)

Abandoned(ps) == {[p EXCEPT !.mounted = FALSE] : p \in ps}

Ended(m) == [logins EXCEPT ![m] = Idle]

At(m, p) == logins[m].phase = p

Goto(m, p) == logins' = [logins EXCEPT ![m].phase = p]

\* setState in a State that is still there.
SetLoading(m, b) == isLoading' = IF logins[m].mounted THEN b ELSE isLoading

-----------------------------------------------------------------------------
Init ==
  /\ auth \in Somebody
  /\ user = None
  /\ registered \in SUBSET Accounts
  /\ googleToken = None
  /\ tokenWaits = {}
  /\ screen = "splash"
  /\ isLoading = FALSE
  /\ logins = [m \in Methods |-> Idle]
  /\ checks = [i \in Checks |-> "off"]
  /\ uid = None
  /\ posts = {}
  /\ signingOut = "no"
  /\ stuck = FALSE
  /\ raced = FALSE

(***************************************************************************)
(* SplashScreen.  When the app starts offline, two periodic ticks can both *)
(* be waiting for checkConnectivity and both start a check.                *)
(***************************************************************************)
SplashUnchanged ==
  UNCHANGED <<auth, registered, google, isLoading, logins, signUp, signingOut, histories>>

StartCheck(i) ==
  /\ screen = "splash"
  /\ checks[i] = "off"
  /\ checks' = [checks EXCEPT ![i] = "currency"]
  /\ UNCHANGED <<user, screen>> /\ SplashUnchanged

\* getCurrency has no catch: if it fails, or finds the screen gone, the check dies.
CurrencyAnswer(i) ==
  /\ checks[i] = "currency"
  /\ \E result \in {"rates", "null", "error"} :
       checks' = [checks EXCEPT ![i] =
         IF result = "null" \/ (result = "rates" /\ screen = "splash")
         THEN "auth" ELSE "dead"]
  /\ UNCHANGED <<user, screen>> /\ SplashUnchanged

\* currentUser, and getIdToken for somebody; an error is only printed.
AuthAnswer(i) ==
  /\ checks[i] = "auth"
  /\ \/ /\ auth # None
        /\ checks' = [checks EXCEPT ![i] = "profile"]
        /\ UNCHANGED screen
     \/ /\ auth = None /\ screen = "splash"
        /\ checks' = [checks EXCEPT ![i] = "done"]
        /\ screen' = "main"
     \/ /\ checks' = [checks EXCEPT ![i] = "dead"]
        /\ UNCHANGED screen
  /\ UNCHANGED user /\ SplashUnchanged

\* getUser: the profile, null, or an exception; each of them leads to the main page.
ProfileAnswerOnlyFound(i) ==  \* mutant: stays on the splash screen without a profile
  /\ checks[i] = "profile" /\ screen = "splash" /\ auth \in registered
  /\ user' = auth
  /\ checks' = [checks EXCEPT ![i] = "done"]
  /\ screen' = "main"
  /\ SplashUnchanged

ProfileAnswer(i) ==
  /\ checks[i] = "profile"
  /\ \/ /\ screen = "splash" /\ auth \in registered
        /\ user' = auth
        /\ checks' = [checks EXCEPT ![i] = "done"]
        /\ screen' = "main"
     \/ /\ screen = "splash"
        /\ checks' = [checks EXCEPT ![i] = "done"]
        /\ screen' = "main"
        /\ UNCHANGED user
     \/ /\ screen # "splash"
        /\ checks' = [checks EXCEPT ![i] = "dead"]
        /\ UNCHANGED <<user, screen>>
  /\ SplashUnchanged

-----------------------------------------------------------------------------
(***************************************************************************)
(* LoginScreen.                                                            *)
(***************************************************************************)
LoginUnchanged == UNCHANGED <<registered, checks, signUp, signingOut>>

OpenLoginSignedIn ==  \* mutant: the login screen opens for a signed-in user
  /\ screen = "main"
  /\ screen' = "login"
  /\ isLoading' = FALSE
  /\ stuck' = FALSE
  /\ UNCHANGED <<auth, user, google, logins, raced>> /\ LoginUnchanged

OpenLogin ==
  /\ screen = "main" /\ user = None
  /\ screen' = "login"
  /\ isLoading' = FALSE
  /\ stuck' = FALSE
  /\ UNCHANGED <<auth, user, google, logins, raced>> /\ LoginUnchanged

CloseLogin ==
  /\ screen = "login"
  /\ screen' = "main"
  /\ isLoading' = FALSE
  /\ stuck' = FALSE
  /\ Leave(logins)
  /\ UNCHANGED <<auth, user, google, raced>> /\ LoginUnchanged

\* The connectivity listener hides the spinner of whatever is under way.
Offline ==
  /\ screen = "login"
  /\ isLoading' = FALSE
  /\ stuck' = FALSE
  /\ UNCHANGED <<auth, user, google, screen, logins, raced>> /\ LoginUnchanged

\* signIn, initiateFacebookLogin, _googleButtonClick: the last one shows the
\* spinner only when signInWithGoogle has returned.
Press(m, a) ==
  /\ screen = "login" /\ ~isLoading
  /\ m \notin Pending /\ Cardinality(Pending) < MaxLogins
  /\ isLoading' = (m # "google")
  /\ logins' = [logins EXCEPT ![m] =
       [phase |-> "credential", account |-> a, token |-> None, mounted |-> TRUE]]
  /\ UNCHANGED <<auth, user, google, screen, histories>> /\ LoginUnchanged

(***************************************************************************)
(* The provider or signInWithCredential refuses.  All handlers but one     *)
(* clear isLoading: an exception after a successful Facebook dialog is not *)
(* caught.                                                                 *)
(***************************************************************************)
Refused(m) ==
  /\ At(m, "credential")
  /\ logins' = Ended(m)
  /\ \/ /\ SetLoading(m, FALSE)
        /\ stuck' = (stuck /\ ~logins[m].mounted)
     \/ /\ m = "facebook"
        /\ stuck' = (stuck \/ (isLoading /\ logins[m].mounted))
        /\ UNCHANGED isLoading
  /\ UNCHANGED <<auth, user, google, screen, raced>> /\ LoginUnchanged

\* signInWithCredential succeeds.  Google asks for the token on the side.
Accepted(m) ==
  /\ At(m, "credential")
  /\ auth' = logins[m].account
  /\ raced' = (raced \/ Relying(m) # {} \/ user # None \/ uid # None)
  /\ IF m = "google"
     THEN /\ tokenWaits' = tokenWaits \union {logins[m].account}
          /\ Goto(m, "current")
     ELSE /\ Goto(m, "token")
          /\ UNCHANGED tokenWaits
  /\ UNCHANGED <<user, googleToken, screen, isLoading, stuck>> /\ LoginUnchanged

\* getIdToken of a phone or Facebook sign-in; only the former has a catch.
TokenAnswer(m) ==
  /\ At(m, "token")
  /\ \/ /\ logins' = [logins EXCEPT ![m].phase = "check",
                                    ![m].token = logins[m].account]
        /\ UNCHANGED <<isLoading, stuck>>
     \/ /\ m = "phone"
        /\ logins' = Ended(m)
        /\ SetLoading(m, FALSE)
        /\ stuck' = (stuck /\ ~logins[m].mounted)
     \/ /\ m = "facebook"
        /\ logins' = Ended(m)
        /\ stuck' = (stuck \/ (isLoading /\ logins[m].mounted))
        /\ UNCHANGED isLoading
  /\ UNCHANGED <<auth, user, google, screen, raced>> /\ LoginUnchanged

\* getIdToken().then of signInWithGoogle.
GoogleToken(a) ==
  /\ a \in tokenWaits
  /\ tokenWaits' = tokenWaits \ {a}
  /\ googleToken' = a
  /\ UNCHANGED <<auth, user, screen, isLoading, logins, histories>> /\ LoginUnchanged

(***************************************************************************)
(* signInWithGoogle has its currentUser and returns; _googleButtonClick    *)
(* shows the spinner and looks the user up with whatever googleToken is.   *)
(* A missing displayName, or a screen that is gone, throws into its catch. *)
(***************************************************************************)
GoogleReturns ==
  /\ At("google", "current")
  /\ \/ /\ logins["google"].mounted
        /\ isLoading' = TRUE
        /\ logins' = [logins EXCEPT !["google"].phase = "check",
                                    !["google"].token = googleToken]
        /\ raced' = (raced \/ googleToken # logins["google"].account)
        /\ UNCHANGED stuck
     \/ /\ logins' = Ended("google")
        /\ SetLoading("google", FALSE)
        /\ stuck' = (stuck /\ ~logins["google"].mounted)
        /\ UNCHANGED raced
  /\ UNCHANGED <<auth, user, google, screen>> /\ LoginUnchanged

\* _getUserByToken gives up, spinner on, if there is no current user or
\* currentUser fails.
Check(m) ==
  /\ At(m, "check")
  /\ \/ /\ auth # None
        /\ Goto(m, "profile")
        /\ UNCHANGED stuck
     \/ /\ logins' = Ended(m)
        /\ stuck' = (stuck \/ (isLoading /\ logins[m].mounted))
  /\ UNCHANGED <<auth, user, google, screen, isLoading, raced>> /\ LoginUnchanged

\* getUser finds the profile of the token: setUser, hide the spinner, pop.
ProfileFoundAnywhere(m) ==  \* mutant: setUser through a context that is gone
  /\ At(m, "profile") /\ logins[m].token \in registered
  /\ user' = logins[m].token
  /\ isLoading' = FALSE
  /\ stuck' = FALSE
  /\ screen' = "main"
  /\ Leave(Ended(m))
  /\ UNCHANGED <<auth, google, raced>> /\ LoginUnchanged

ProfileFound(m) ==
  /\ At(m, "profile") /\ logins[m].token \in registered
  /\ logins[m].mounted
  /\ user' = logins[m].token
  /\ isLoading' = FALSE
  /\ stuck' = FALSE
  /\ screen' = "main"
  /\ Leave(Ended(m))
  /\ UNCHANGED <<auth, google, raced>> /\ LoginUnchanged

\* getUser returns null: the account, or the missing token, has no profile.
ProfileUnknown(m) ==
  /\ At(m, "profile") /\ logins[m].token \notin registered
  /\ logins[m].mounted
  /\ isLoading' = FALSE
  /\ stuck' = FALSE
  /\ screen' = "signup"
  /\ Leave(Ended(m))
  /\ uid' = None
  /\ UNCHANGED <<auth, user, google, registered, checks, posts, signingOut, raced>>

\* getUser throws, or the screen is gone: the catch block signs out.
ProfileFails(m) ==
  /\ At(m, "profile")
  /\ Goto(m, "signout")
  /\ UNCHANGED <<auth, user, google, screen, isLoading, histories>> /\ LoginUnchanged

SignOutDoneSpinning(m) ==  \* mutant: the spinner is not hidden
  /\ At(m, "signout")
  /\ auth' = None
  /\ raced' = (raced \/ Relying(m) # {} \/ user # None \/ uid # None)
  /\ logins' = Ended(m)
  /\ UNCHANGED <<user, google, screen, isLoading, stuck>> /\ LoginUnchanged

SignOutDone(m) ==
  /\ At(m, "signout")
  /\ auth' = None
  /\ raced' = (raced \/ Relying(m) # {} \/ user # None \/ uid # None)
  /\ logins' = Ended(m)
  /\ SetLoading(m, FALSE)
  /\ stuck' = (stuck /\ ~logins[m].mounted)
  /\ UNCHANGED <<user, google, screen>> /\ LoginUnchanged

-----------------------------------------------------------------------------
(***************************************************************************)
(* SignUpScreen.                                                           *)
(***************************************************************************)
SignUpUnchanged ==
  UNCHANGED <<auth, google, isLoading, logins, checks, signingOut, stuck, raced>>

\* getDataFromFirebaseInstance; without a current user it throws and uid stays "".
ReadUid ==
  /\ screen = "signup" /\ uid = None /\ auth # None
  /\ uid' = auth
  /\ UNCHANGED <<user, registered, screen, posts>> /\ SignUpUnchanged

\* signUp: the spinner keeps the form from being posted twice.  Without a picture
\* an empty form is posted, and the spinner does not stay.
PostSignUp ==
  /\ screen = "signup"
  /\ \A p \in posts : p.mounted => p.uid = None
  /\ \E u \in {uid, None} : posts' = posts \union {[uid |-> u, mounted |-> TRUE]}
  /\ UNCHANGED <<user, registered, screen, uid>> /\ SignUpUnchanged

\* The backend creates the profile (it takes no empty uid); setUser and pop if
\* the screen is still there.  A refusal leaves the form, an exception its spinner.
SignUpAnswer(p) ==
  /\ p \in posts
  /\ \/ /\ p.uid # None /\ p.mounted
        /\ registered' = registered \union {p.uid}
        /\ user' = p.uid /\ screen' = "main" /\ uid' = None
        /\ posts' = Abandoned(posts \ {p})
     \/ /\ p.uid # None /\ ~p.mounted
        /\ registered' = registered \union {p.uid}
        /\ posts' = posts \ {p}
        /\ UNCHANGED <<user, screen, uid>>
     \/ /\ posts' = posts \ {p}
        /\ UNCHANGED <<user, registered, screen, uid>>
  /\ SignUpUnchanged

CloseSignUp ==
  /\ screen = "signup"
  /\ screen' = "main"
  /\ uid' = None
  /\ posts' = Abandoned(posts)
  /\ UNCHANGED <<user, registered>> /\ SignUpUnchanged

(***************************************************************************)
(* AccountScreen.logout.                                                   *)
(***************************************************************************)
LogoutUnchanged ==
  UNCHANGED <<registered, google, screen, isLoading, logins, checks, signUp, stuck>>

Logout ==
  /\ screen = "main" /\ user # None /\ signingOut = "no"
  /\ signingOut' = "asked"
  /\ UNCHANGED <<auth, user, raced>> /\ LogoutUnchanged

SignOutAnswer ==
  /\ signingOut = "asked"
  /\ signingOut' = "answered"
  /\ auth' = None
  /\ UNCHANGED <<user, raced>> /\ LogoutUnchanged

LoggedOutUncleared ==  \* mutant: UserProvider is not cleared
  /\ signingOut = "answered"
  /\ signingOut' = "no"
  /\ raced' = FALSE
  /\ UNCHANGED <<auth, user>> /\ LogoutUnchanged

LoggedOut ==
  /\ signingOut = "answered"
  /\ signingOut' = "no"
  /\ user' = None
  /\ raced' = FALSE
  /\ UNCHANGED auth /\ LogoutUnchanged

\* The process ends and starts again: only Firebase and the backend remember.
Restart ==
  /\ user' = None
  /\ googleToken' = None
  /\ tokenWaits' = {}
  /\ screen' = "splash"
  /\ isLoading' = FALSE
  /\ logins' = [m \in Methods |-> Idle]
  /\ checks' = [i \in Checks |-> "off"]
  /\ uid' = None
  /\ posts' = {}
  /\ signingOut' = "no"
  /\ stuck' = FALSE
  /\ raced' = FALSE
  /\ UNCHANGED <<auth, registered>>

Answers(m) ==
  \/ Refused(m) \/ Accepted(m) \/ TokenAnswer(m) \/ Check(m)
  \/ ProfileFound(m) \/ ProfileUnknown(m) \/ ProfileFails(m) \/ SignOutDone(m)

Splash(i) == StartCheck(i) \/ CurrencyAnswer(i) \/ AuthAnswer(i) \/ ProfileAnswer(i)

Next ==
  \/ \E i \in Checks : Splash(i)
  \/ OpenLogin \/ CloseLogin \/ Offline
  \/ \E m \in Methods, a \in Accounts : Press(m, a)
  \/ \E m \in Methods : Answers(m)
  \/ GoogleReturns
  \/ \E a \in Accounts : GoogleToken(a)
  \/ ReadUid \/ PostSignUp \/ CloseSignUp
  \/ \E p \in posts : SignUpAnswer(p)
  \/ Logout \/ SignOutAnswer \/ LoggedOut
  \/ Restart

Spec == Init /\ [][Next]_vars

(***************************************************************************)
(* Every request is answered, well or not, and every timer ticks; the user *)
(* owes nothing, but does not restart the app for ever.                    *)
(***************************************************************************)
FairSpec ==
  /\ Spec
  /\ <>[][~Restart]_vars
  /\ \A m \in Methods : WF_vars(Answers(m))
  /\ WF_vars(GoogleReturns)
  /\ \A i \in Checks : WF_vars(Splash(i))

-----------------------------------------------------------------------------
TypeOK ==
  /\ auth \in Somebody
  /\ user \in Somebody
  /\ registered \subseteq Accounts
  /\ googleToken \in Somebody
  /\ tokenWaits \subseteq Accounts
  /\ screen \in Screens
  /\ isLoading \in BOOLEAN
  /\ logins \in [Methods -> Logins]
  /\ checks \in [Checks -> {"off", "currency", "auth", "profile", "done", "dead"}]
  /\ uid \in Somebody
  /\ posts \subseteq Posts
  /\ signingOut \in {"no", "asked", "answered"}
  /\ stuck \in BOOLEAN
  /\ raced \in BOOLEAN

(***************************************************************************)
(* The profile the app shows is that of the Firebase account it holds:     *)
(* whatever the order of answers, closed screens, lost connections and     *)
(* restarts, the two part only during a logout, or when two sign-ins       *)
(* overlapped or a Google sign-in used a token that was not its own.       *)
(***************************************************************************)
IdentityAgrees == user # None /\ signingOut # "answered" /\ ~raced => auth = user

(***************************************************************************)
(* Nobody is signed in behind the user's back: a sign-in, a sign-up or a   *)
(* start-up check whose screen was left never sets the user any more.      *)
(***************************************************************************)
NoLateSignIn == [][user' \notin {user, None} => screen # "main"]_vars

(***************************************************************************)
(* The spinner of the login form goes away, the dead ends excepted.        *)
(***************************************************************************)
SpinnerEnds == isLoading ~> (~isLoading \/ stuck)

(***************************************************************************)
(* The splash screen gives way to the main page unless a check died: of    *)
(* failing rates (getCurrency throws) or a failing Firebase session.       *)
(***************************************************************************)
SplashEnds == screen = "splash" ~> (screen # "splash" \/ \E i \in Checks : checks[i] = "dead")

(***************************************************************************)
(* google_service.dart:45, assert(user.uid == currentUser.uid): when       *)
(* signInWithGoogle reads currentUser, it finds the account it signed in.  *)
(***************************************************************************)
GoogleUserIsCurrent ==
  [][GoogleReturns => auth = logins["google"].account]_vars
=============================================================================
