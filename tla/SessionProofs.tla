--------------------------- MODULE SessionProofs ----------------------------
(***************************************************************************)
(* Session implements SignedIn, for any set of accounts and any number of  *)
(* sign-ins at once.                                                       *)
(***************************************************************************)
EXTENDS SessionRefinement, TLAPS

\* Well-formed sign-ins: one that is under way is one of an account.
Proper(ls) ==
  /\ ls \in [Methods -> Logins]
  /\ \A m \in Methods : ls[m].phase # "idle" => ls[m].account \in Accounts

TypeInv == TypeOK /\ Proper(logins)

\* A sign-in that still has its screen: that screen is on top.
LoginsOnScreen ==
  \A m \in Methods : logins[m].mounted => screen = "login"

\* A sign-up request that still has its screen, likewise.
PostsOnScreen ==
  \A p \in posts : p.mounted => screen = "signup"

\* Nobody is signed in on the screens that sign somebody in.
NobodyThere == screen # "main" => user = None

\* A logout under way is one of a user on the main page.
LogoutOnMain == signingOut # "no" => screen = "main" /\ user # None

SessionInv ==
  TypeInv /\ LoginsOnScreen /\ PostsOnScreen /\ NobodyThere /\ LogoutOnMain

LEMMA IdleLogin == Idle \in Logins
BY DEF Idle, Logins, Phases, Somebody

\* Leaving a screen keeps the sign-ins and takes their screen away.
LEMMA UnmountedLogins ==
  ASSUME NEW ls, Proper(ls)
  PROVE  /\ Proper(Unmounted(ls))
         /\ \A m \in Methods : ~Unmounted(ls)[m].mounted
BY IdleLogin DEF Proper, Unmounted, Logins, Idle

\* Ending a sign-in leaves the other ones as they are.
LEMMA EndedLogins ==
  ASSUME Proper(logins), NEW m \in Methods
  PROVE  /\ Proper(Ended(m))
         /\ \A n \in Methods : Ended(m)[n].mounted => logins[n].mounted
BY IdleLogin DEF Ended, Proper, Idle

\* A sign-in that moves on keeps its account and its screen.
LEMMA GotoLogins ==
  ASSUME Proper(logins), NEW m \in Methods, ~At(m, "idle"),
         NEW p \in Phases, Goto(m, p)
  PROVE  /\ Proper(logins')
         /\ \A n \in Methods : logins'[n].mounted = logins[n].mounted
BY DEF Goto, Proper, Logins, At

\* A sign-in that is given its token, likewise.
LEMMA TokenLogins ==
  ASSUME Proper(logins), NEW m \in Methods, ~At(m, "idle"), NEW t \in Somebody,
         logins' = [logins EXCEPT ![m].phase = "check", ![m].token = t]
  PROVE  /\ Proper(logins')
         /\ \A n \in Methods : logins'[n].mounted = logins[n].mounted
BY DEF Proper, Logins, Phases, At

LEMMA InitSession == Init => SessionInv
<1> SUFFICES ASSUME Init PROVE SessionInv
  OBVIOUS
<1>1. Proper(logins)
  BY IdleLogin DEF Init, Proper, Idle
<1>2. TypeInv
  BY <1>1 DEF Init, TypeInv, TypeOK, Proper, Screens, Somebody, Posts
<1>3. LoginsOnScreen /\ PostsOnScreen /\ NobodyThere /\ LogoutOnMain
  BY DEF Init, LoginsOnScreen, PostsOnScreen, NobodyThere, LogoutOnMain, Idle
<1>4. QED
  BY <1>2, <1>3 DEF SessionInv

-----------------------------------------------------------------------------
(***************************************************************************)
(* Types, one group of actions after the other.                            *)
(***************************************************************************)
LEMMA TypeSplash ==
  ASSUME TypeInv, NEW i \in Checks, Splash(i)
  PROVE  TypeInv'
<1> USE DEF TypeInv, TypeOK, SplashUnchanged, signUp, google, histories, Screens
<1>1. CASE StartCheck(i)
  BY <1>1 DEF StartCheck
<1>2. CASE CurrencyAnswer(i)
  BY <1>2 DEF CurrencyAnswer
<1>3. CASE AuthAnswer(i)
  BY <1>3 DEF AuthAnswer
<1>4. CASE ProfileAnswer(i)
  BY <1>4 DEF ProfileAnswer
<1>5. QED
  BY <1>1, <1>2, <1>3, <1>4 DEF Splash

LEMMA TypeAnswers ==
  ASSUME TypeInv, NEW m \in Methods, Answers(m)
  PROVE  TypeInv'
<1> USE DEF TypeInv, TypeOK, LoginUnchanged, signUp, google, histories, Screens
<1>0. /\ Proper(Ended(m)) /\ Proper(Unmounted(Ended(m)))
      /\ logins[m].token \in Somebody /\ logins[m].mounted \in BOOLEAN
      /\ ~At(m, "idle") => logins[m].account \in Accounts
  BY EndedLogins, UnmountedLogins DEF Logins, Proper, At
<1>a. \A ls : Proper(ls) => ls \in [Methods -> Logins]
  BY DEF Proper
<1>b. None \in Somebody /\ Accounts \subseteq Somebody
  BY DEF Somebody
<1>1. CASE Refused(m)
  <2>1. isLoading' \in BOOLEAN /\ stuck' \in BOOLEAN
    BY <1>0, <1>1, Zenon DEF Refused, SetLoading
  <2>2. QED
    BY <1>0, <1>a, <1>1, <2>1 DEF Refused
<1>2. CASE Accepted(m)
  <2>1. ~At(m, "idle") /\ Proper(logins')
    BY <1>2, GotoLogins DEF Accepted, Phases, At
  <2>2. raced' \in BOOLEAN
    BY <1>2, Zenon DEF Accepted
  <2>3. QED
    BY <1>0, <1>a, <1>b, <1>2, <2>1, <2>2 DEF Accepted
<1>3. CASE TokenAnswer(m)
  <2>1. Proper(logins')
    <3>1. CASE logins' = Ended(m)
      BY <1>0, <3>1
    <3>2. CASE logins' = [logins EXCEPT ![m].phase = "check",
                                        ![m].token = logins[m].account]
      BY <1>0, <1>b, <1>3, <3>2, TokenLogins DEF TokenAnswer, At
    <3>3. QED
      BY <1>3, <3>1, <3>2 DEF TokenAnswer
  <2>2. isLoading' \in BOOLEAN /\ stuck' \in BOOLEAN
    BY <1>0, <1>3, Zenon DEF TokenAnswer, SetLoading
  <2>3. QED
    BY <1>a, <1>3, <2>1, <2>2 DEF TokenAnswer
<1>4. CASE Check(m)
  <2>1. Proper(logins')
    BY <1>0, <1>4, GotoLogins DEF Check, Phases, At
  <2>2. stuck' \in BOOLEAN
    BY <1>0, <1>4, Zenon DEF Check
  <2>3. QED
    BY <1>a, <1>4, <2>1, <2>2 DEF Check
<1>5. CASE ProfileFound(m)
  BY <1>0, <1>a, <1>5 DEF ProfileFound, Leave
<1>6. CASE ProfileUnknown(m)
  BY <1>0, <1>a, <1>b, <1>6 DEF ProfileUnknown, Leave
<1>7. CASE ProfileFails(m)
  <2>1. Proper(logins')
    BY <1>7, GotoLogins DEF ProfileFails, Phases, At
  <2>2. QED
    BY <1>a, <1>7, <2>1 DEF ProfileFails
<1>8. CASE SignOutDone(m)
  <2>1. isLoading' \in BOOLEAN /\ stuck' \in BOOLEAN /\ raced' \in BOOLEAN
    BY <1>0, <1>8, Zenon DEF SignOutDone, SetLoading
  <2>2. QED
    BY <1>0, <1>a, <1>b, <1>8, <2>1 DEF SignOutDone
<1>9. QED
  BY <1>1, <1>2, <1>3, <1>4, <1>5, <1>6, <1>7, <1>8 DEF Answers

\* The rest of LoginScreen: opening, closing, buttons, connection, Google.
LEMMA TypeLogin ==
  ASSUME TypeInv,
         \/ OpenLogin \/ CloseLogin \/ Offline \/ GoogleReturns
         \/ \E m \in Methods, a \in Accounts : Press(m, a)
         \/ \E a \in Accounts : GoogleToken(a)
  PROVE  TypeInv'
<1> USE DEF TypeInv, TypeOK, LoginUnchanged, signUp, google, histories, Screens
<1>a. \A ls : Proper(ls) => ls \in [Methods -> Logins]
  BY DEF Proper
<1>b. None \in Somebody /\ Accounts \subseteq Somebody
  BY DEF Somebody
<1>1. CASE OpenLogin
  BY <1>1 DEF OpenLogin
<1>2. CASE CloseLogin
  BY <1>a, <1>2, UnmountedLogins DEF CloseLogin, Leave
<1>3. CASE Offline
  BY <1>3 DEF Offline
<1>4. CASE GoogleReturns
  <2>0. "google" \in Methods /\ ~At("google", "idle") /\ logins["google"].mounted \in BOOLEAN
    BY <1>4 DEF GoogleReturns, At, Methods, Logins
  <2>1. Proper(logins')
    <3>1. CASE logins' = Ended("google")
      BY <2>0, <3>1, EndedLogins
    <3>2. CASE logins' = [logins EXCEPT !["google"].phase = "check",
                                        !["google"].token = googleToken]
      BY <2>0, <3>2, TokenLogins
    <3>3. QED
      BY <1>4, <3>1, <3>2 DEF GoogleReturns
  <2>2. isLoading' \in BOOLEAN /\ stuck' \in BOOLEAN /\ raced' \in BOOLEAN
    BY <1>4, <2>0, Zenon DEF GoogleReturns, SetLoading
  <2>3. QED
    BY <1>a, <1>4, <2>1, <2>2 DEF GoogleReturns
<1>5. ASSUME NEW m \in Methods, NEW a \in Accounts, Press(m, a) PROVE TypeInv'
  <2>1. Proper(logins')
    BY <1>b, <1>5 DEF Press, Proper, Logins, Phases
  <2>2. isLoading' \in BOOLEAN
    BY <1>5, Zenon DEF Press
  <2>3. QED
    BY <1>a, <1>5, <2>1, <2>2 DEF Press
<1>6. ASSUME NEW a \in Accounts, GoogleToken(a) PROVE TypeInv'
  BY <1>b, <1>6 DEF GoogleToken
<1>7. QED
  BY <1>1, <1>2, <1>3, <1>4, <1>5, <1>6

\* The answers to an abandoned form find no screen.
LEMMA AbandonedPosts ==
  ASSUME NEW S \in SUBSET Posts
  PROVE  Abandoned(S) \subseteq Posts /\ \A p \in Abandoned(S) : ~p.mounted
<1>1. \A p \in Posts : [p EXCEPT !.mounted = FALSE] \in Posts
                     /\ ~[p EXCEPT !.mounted = FALSE].mounted
  BY DEF Posts
<1>2. QED
  BY <1>1 DEF Abandoned

\* SignUpScreen, logout and a restart.
LEMMA TypeRest ==
  ASSUME TypeInv,
         \/ ReadUid \/ PostSignUp \/ CloseSignUp
         \/ Logout \/ SignOutAnswer \/ LoggedOut \/ Restart
         \/ \E p \in posts : SignUpAnswer(p)
  PROVE  TypeInv'
<1> USE DEF TypeInv, TypeOK, SignUpUnchanged, LogoutUnchanged, signUp, google, Screens
<1>b. None \in Somebody /\ Accounts \subseteq Somebody
  BY DEF Somebody
<1>1. CASE ReadUid
  BY <1>1 DEF ReadUid
<1>2. CASE PostSignUp
  <2>1. \A u \in {uid, None} : [uid |-> u, mounted |-> TRUE] \in Posts
    BY <1>b DEF Posts
  <2>2. QED
    BY <1>2, <2>1 DEF PostSignUp
<1>3. CASE CloseSignUp
  BY <1>b, <1>3, AbandonedPosts DEF CloseSignUp
<1>4. CASE Logout \/ SignOutAnswer
  BY <1>b, <1>4 DEF Logout, SignOutAnswer
<1>5. CASE LoggedOut
  BY <1>b, <1>5 DEF LoggedOut
<1>6. CASE Restart
  <2>1. Proper(logins')
    BY <1>6, IdleLogin DEF Restart, Proper, Idle
  <2>2. QED
    BY <1>b, <1>6, <2>1 DEF Restart, Proper
<1>7. ASSUME NEW p \in posts, SignUpAnswer(p) PROVE TypeInv'
  <2>1. Abandoned(posts \ {p}) \subseteq Posts
    BY AbandonedPosts
  <2>2. p \in Posts
    OBVIOUS
  <2>3. p.uid # None => p.uid \in Accounts
    BY <2>2 DEF Posts, Somebody
  <2>4. QED
    BY <1>b, <1>7, <2>1, <2>3 DEF SignUpAnswer
<1>8. QED
  BY <1>1, <1>2, <1>3, <1>4, <1>5, <1>6, <1>7

LEMMA TypeStep == TypeInv /\ [Next]_vars => TypeInv'
<1> SUFFICES ASSUME TypeInv, [Next]_vars PROVE TypeInv'
  OBVIOUS
<1>1. CASE UNCHANGED vars
  BY <1>1 DEF vars, TypeInv, TypeOK
<1>2. QED
  BY <1>1, TypeSplash, TypeAnswers, TypeLogin, TypeRest DEF Next

-----------------------------------------------------------------------------
(***************************************************************************)
(* The screens, the sign-ins and the user fit together.                    *)
(***************************************************************************)
LEMMA SessionStep == SessionInv /\ [Next]_vars => SessionInv'
<1> SUFFICES ASSUME SessionInv, [Next]_vars
             PROVE  LoginsOnScreen' /\ PostsOnScreen' /\ NobodyThere' /\ LogoutOnMain'
  BY TypeStep DEF SessionInv
<1>a. Proper(logins) /\ TypeOK
  BY DEF SessionInv, TypeInv
<1> USE DEF LoginsOnScreen, PostsOnScreen, NobodyThere, LogoutOnMain
<1>s. LoginsOnScreen /\ PostsOnScreen /\ NobodyThere /\ LogoutOnMain
  BY DEF SessionInv
<1>1. ASSUME NEW i \in Checks, Splash(i)
      PROVE  LoginsOnScreen' /\ PostsOnScreen' /\ NobodyThere' /\ LogoutOnMain'
  BY <1>s, <1>1 DEF Splash, StartCheck, CurrencyAnswer, AuthAnswer, ProfileAnswer,
                    SplashUnchanged, signUp
<1>2. CASE OpenLogin
  BY <1>s, <1>2 DEF OpenLogin, LoginUnchanged, signUp
<1>3. CASE CloseLogin
  BY <1>a, <1>s, <1>3, UnmountedLogins DEF CloseLogin, Leave, LoginUnchanged, signUp
<1>4. CASE Offline
  BY <1>s, <1>4 DEF Offline, LoginUnchanged, signUp
<1>5. ASSUME NEW m \in Methods, NEW a \in Accounts, Press(m, a)
      PROVE  LoginsOnScreen' /\ PostsOnScreen' /\ NobodyThere' /\ LogoutOnMain'
  BY <1>s, <1>5 DEF Press, LoginUnchanged, signUp
<1>6. ASSUME NEW m \in Methods, Answers(m)
      PROVE  LoginsOnScreen' /\ PostsOnScreen' /\ NobodyThere' /\ LogoutOnMain'
  <2>1. ASSUME \A n \in Methods : logins'[n].mounted => logins[n].mounted,
               UNCHANGED <<user, screen, posts, signingOut>>
        PROVE  LoginsOnScreen' /\ PostsOnScreen' /\ NobodyThere' /\ LogoutOnMain'
    BY <1>s, <2>1
  <2>a. ~At(m, "idle") => logins[m].account \in Somebody
    BY <1>a DEF Proper, At, Somebody
  <2>5. CASE Refused(m)
    BY <1>a, <2>1, <2>5, EndedLogins DEF Refused, LoginUnchanged, signUp
  <2>6. CASE Check(m)
    <3>1. \A n \in Methods : logins'[n].mounted => logins[n].mounted
      BY <1>a, <2>6, EndedLogins, GotoLogins DEF Check, Phases, At
    <3>2. QED
      BY <2>1, <2>6, <3>1 DEF Check, LoginUnchanged, signUp
  <2>7. CASE SignOutDone(m)
    BY <1>a, <2>1, <2>7, EndedLogins DEF SignOutDone, LoginUnchanged, signUp
  <2>8. CASE TokenAnswer(m)
    <3>1. \A n \in Methods : logins'[n].mounted => logins[n].mounted
      BY <1>a, <2>a, <2>8, EndedLogins, TokenLogins DEF TokenAnswer, At
    <3>2. QED
      BY <2>1, <2>8, <3>1 DEF TokenAnswer, LoginUnchanged, signUp
  <2>9. CASE Accepted(m)
    <3>1. \A n \in Methods : logins'[n].mounted => logins[n].mounted
      BY <1>a, <2>9, GotoLogins DEF Accepted, Phases, At
    <3>2. QED
      BY <2>1, <2>9, <3>1 DEF Accepted, LoginUnchanged, signUp
  <2>10. CASE ProfileFails(m)
    <3>1. \A n \in Methods : logins'[n].mounted => logins[n].mounted
      BY <1>a, <2>10, GotoLogins DEF ProfileFails, Phases, At
    <3>2. QED
      BY <2>1, <2>10, <3>1 DEF ProfileFails, LoginUnchanged, signUp
  <2>2. CASE ProfileFound(m)
    BY <1>a, <1>s, <2>2, EndedLogins, UnmountedLogins
       DEF ProfileFound, Leave, LoginUnchanged, signUp
  <2>3. CASE ProfileUnknown(m)
    BY <1>a, <1>s, <2>3, EndedLogins, UnmountedLogins DEF ProfileUnknown, Leave
  <2>4. QED
    BY <1>6, <2>2, <2>3, <2>5, <2>6, <2>7, <2>8, <2>9, <2>10 DEF Answers
<1>7. CASE GoogleReturns
  <2>1. \A n \in Methods : logins'[n].mounted => logins[n].mounted
    <3>1. "google" \in Methods /\ ~At("google", "idle") /\ googleToken \in Somebody
      BY <1>a, <1>7 DEF GoogleReturns, At, Methods, TypeOK
    <3>2. QED
      BY <1>a, <1>7, <3>1, EndedLogins, TokenLogins DEF GoogleReturns
  <2>2. QED
    BY <1>s, <1>7, <2>1 DEF GoogleReturns, LoginUnchanged, signUp
<1>8. ASSUME NEW a \in Accounts, GoogleToken(a)
      PROVE  LoginsOnScreen' /\ PostsOnScreen' /\ NobodyThere' /\ LogoutOnMain'
  BY <1>s, <1>8 DEF GoogleToken, LoginUnchanged, signUp
<1>9. CASE ReadUid \/ PostSignUp \/ CloseSignUp
  <2>1. CASE ReadUid
    BY <1>s, <2>1 DEF ReadUid, SignUpUnchanged
  <2>2. CASE PostSignUp
    BY <1>s, <2>2 DEF PostSignUp, SignUpUnchanged
  <2>3. CASE CloseSignUp
    <3>1. \A p \in posts' : ~p.mounted
      BY <1>a, <2>3, AbandonedPosts DEF CloseSignUp, TypeOK
    <3>2. QED
      BY <1>s, <2>3, <3>1 DEF CloseSignUp, SignUpUnchanged
  <2>4. QED
    BY <1>9, <2>1, <2>2, <2>3
<1>10. ASSUME NEW p \in posts, SignUpAnswer(p)
      PROVE  LoginsOnScreen' /\ PostsOnScreen' /\ NobodyThere' /\ LogoutOnMain'
  <2>1. \A q \in Abandoned(posts \ {p}) : ~q.mounted
    BY <1>a, AbandonedPosts DEF TypeOK
  <2>2. QED
    BY <1>a, <1>s, <1>10, <2>1 DEF SignUpAnswer, SignUpUnchanged
<1>11. CASE Logout \/ SignOutAnswer \/ LoggedOut
  BY <1>s, <1>11 DEF Logout, SignOutAnswer, LoggedOut, LogoutUnchanged, signUp
<1>12. CASE Restart
  BY <1>12 DEF Restart, Idle
<1>13. CASE UNCHANGED vars
  BY <1>s, <1>13 DEF vars
<1>14. QED
  BY <1>1, <1>2, <1>3, <1>4, <1>5, <1>6, <1>7, <1>8, <1>9, <1>10, <1>11, <1>12,
     <1>13 DEF Next

(***************************************************************************)
(* TypeOK holds in every reachable state.                                  *)
(***************************************************************************)
THEOREM TypeCorrect == Spec => []TypeOK
<1>1. Init => TypeInv
  BY InitSession DEF SessionInv
<1>2. TypeInv => TypeOK
  BY DEF TypeInv
<1>3. QED
  BY <1>1, <1>2, TypeStep, PTL DEF Spec

LEMMA SessionCorrect == Spec => []SessionInv
BY InitSession, SessionStep, PTL DEF Spec

\* A step of Session is one of SignedIn or leaves user and page alone.
LEMMA StepRefines == SessionInv /\ [Next]_vars => [Users!Next]_(Users!vars)
<1> SUFFICES ASSUME SessionInv, [Next]_vars PROVE [Users!Next]_(Users!vars)
  OBVIOUS
<1>a. TypeOK /\ LoginsOnScreen /\ PostsOnScreen /\ NobodyThere /\ LogoutOnMain
  BY DEF SessionInv, TypeInv
<1>q. (UNCHANGED <<user, screen>>) => [Users!Next]_(Users!vars)
  BY DEF Users!vars
<1>p. UNCHANGED user /\ screen # "splash" /\ screen' # "splash"
        => [Users!Next]_(Users!vars)
  BY DEF Users!vars
<1>1. ASSUME NEW i \in Checks, Splash(i) PROVE [Users!Next]_(Users!vars)
  <2>1. CASE UNCHANGED <<user, screen>>
    BY <1>q, <2>1
  <2>2. CASE screen = "splash" /\ screen' = "main" /\ user' \in Accounts \union {None}
    BY <2>2 DEF Users!Next, Users!Start
  <2>3. QED
    BY <1>a, <1>1, <2>1, <2>2
       DEF Splash, StartCheck, CurrencyAnswer, AuthAnswer, ProfileAnswer, TypeOK, Somebody
<1>2. CASE OpenLogin
  BY <1>p, <1>2 DEF OpenLogin
<1>3. CASE CloseLogin
  BY <1>p, <1>3 DEF CloseLogin
<1>4. CASE Offline \/ GoogleReturns
  BY <1>q, <1>4 DEF Offline, GoogleReturns
<1>5. ASSUME NEW m \in Methods, NEW a \in Accounts, Press(m, a)
      PROVE  [Users!Next]_(Users!vars)
  BY <1>q, <1>5 DEF Press
<1>6. ASSUME NEW m \in Methods, Answers(m) PROVE [Users!Next]_(Users!vars)
  <2>1. CASE ProfileFound(m)
    <3>1. screen = "login" /\ user = None /\ user' \in Accounts
      BY <1>a, <2>1 DEF ProfileFound, LoginsOnScreen, NobodyThere, TypeOK
    <3>2. QED
      BY <2>1, <3>1 DEF ProfileFound, Users!Next, Users!SignIn
  <2>2. CASE ProfileUnknown(m)
    <3>1. screen = "login"
      BY <1>a, <2>2 DEF ProfileUnknown, LoginsOnScreen
    <3>2. QED
      BY <1>p, <2>2, <3>1 DEF ProfileUnknown
  <2>3. CASE Refused(m) \/ Accepted(m) \/ TokenAnswer(m) \/ Check(m)
             \/ ProfileFails(m) \/ SignOutDone(m)
    BY <1>q, <2>3 DEF Refused, Accepted, TokenAnswer, Check, ProfileFails, SignOutDone
  <2>4. QED
    BY <1>6, <2>1, <2>2, <2>3 DEF Answers
<1>7. ASSUME NEW a \in Accounts, GoogleToken(a) PROVE [Users!Next]_(Users!vars)
  BY <1>q, <1>7 DEF GoogleToken
<1>8. CASE ReadUid \/ PostSignUp
  BY <1>q, <1>8 DEF ReadUid, PostSignUp
<1>9. CASE CloseSignUp
  BY <1>p, <1>9 DEF CloseSignUp
<1>10. ASSUME NEW p \in posts, SignUpAnswer(p) PROVE [Users!Next]_(Users!vars)
  <2>1. CASE UNCHANGED <<user, screen>>
    BY <1>q, <2>1
  <2>2. CASE p.mounted /\ p.uid # None /\ user' = p.uid /\ screen' = "main"
    <3>1. screen = "signup" /\ user = None
      BY <1>a, <2>2 DEF PostsOnScreen, NobodyThere
    <3>2. p.uid \in Accounts
      BY <1>a, <2>2 DEF TypeOK, Posts, Somebody
    <3>3. QED
      BY <2>2, <3>1, <3>2 DEF Users!Next, Users!SignIn
  <2>3. QED
    BY <1>10, <2>1, <2>2 DEF SignUpAnswer
<1>11. CASE Logout \/ SignOutAnswer
  BY <1>q, <1>11 DEF Logout, SignOutAnswer, LogoutUnchanged
<1>12. CASE LoggedOut
  BY <1>a, <1>12 DEF LoggedOut, LogoutUnchanged, LogoutOnMain, Users!Next, Users!Logout
<1>13. CASE Restart
  BY <1>13 DEF Restart, Users!Next, Users!Restart
<1>14. CASE UNCHANGED vars
  BY <1>q, <1>14 DEF vars
<1>15. QED
  BY <1>1, <1>2, <1>3, <1>4, <1>5, <1>6, <1>7, <1>8, <1>9, <1>10, <1>11, <1>12,
     <1>13, <1>14 DEF Next

(***************************************************************************)
(* Session implements SignedIn: for any accounts, and however many         *)
(* sign-ins overlap, UserProvider holds one user at a time.                *)
(***************************************************************************)
THEOREM SessionImplementsSignedIn == Spec => OneUserAtATime
<1>1. Init => Users!Init
  BY DEF Init, Users!Init
<1>2. QED
  BY <1>1, SessionCorrect, StepRefines, PTL DEF Spec, OneUserAtATime, Users!Spec

(***************************************************************************)
(* No answer that comes after its screen was left signs anybody in.        *)
(***************************************************************************)
THEOREM LateAnswersSignNobodyIn == Spec => NoLateSignIn
<1>1. SessionInv /\ [Next]_vars => [user' \notin {user, None} => screen # "main"]_vars
  <2> SUFFICES ASSUME SessionInv, Next, user' # user, user' # None
               PROVE  screen # "main"
    OBVIOUS
  <2>a. LoginsOnScreen /\ PostsOnScreen
    BY DEF SessionInv
  <2>1. \/ \E i \in Checks : ProfileAnswer(i) /\ screen = "splash"
        \/ \E m \in Methods : ProfileFound(m)
        \/ \E p \in posts : SignUpAnswer(p) /\ p.mounted
    BY DEF Next, Splash, StartCheck, CurrencyAnswer, AuthAnswer, ProfileAnswer,
           OpenLogin, CloseLogin, Offline, Press, Answers, Refused, Accepted,
           TokenAnswer, Check, ProfileUnknown, ProfileFails, SignOutDone,
           GoogleReturns, GoogleToken, ReadUid, PostSignUp, SignUpAnswer,
           CloseSignUp, Logout, SignOutAnswer, LoggedOut, Restart
  <2>2. QED
    BY <2>a, <2>1 DEF ProfileFound, LoginsOnScreen, PostsOnScreen
<1>2. QED
  BY <1>1, SessionCorrect, PTL DEF Spec, NoLateSignIn

-----------------------------------------------------------------------------
(***************************************************************************)
(* The Firebase session and the user.  While nothing raced, every sign-in  *)
(* that still has its screen and relies on the session is one of the       *)
(* account the session is of, and the form of SignUpScreen is, too.        *)
(***************************************************************************)
Sound(l, a) ==
  l.mounted =>
    /\ l.phase \in {"token", "current", "check", "profile"} => l.account = a
    /\ l.phase \in {"check", "profile"} => l.token = l.account

\* uid is that of the form on screen, and of every request it waits for.
UidOnScreen ==
  /\ uid # None => screen = "signup"
  /\ \A p \in posts : p.mounted /\ p.uid # None => p.uid = uid

Agreed ==
  ~raced /\ signingOut # "answered" =>
    /\ user # None => auth = user
    /\ uid # None => auth = uid
    /\ \A m \in Methods : Sound(logins[m], auth)

IdentityInv == SessionInv /\ UidOnScreen /\ Agreed

LEMMA UidStep == SessionInv /\ UidOnScreen /\ [Next]_vars => UidOnScreen'
<1> SUFFICES ASSUME SessionInv, UidOnScreen, [Next]_vars PROVE UidOnScreen'
  OBVIOUS
<1>a. TypeOK /\ LoginsOnScreen /\ PostsOnScreen
  BY DEF SessionInv, TypeInv
<1>b. \A S \in SUBSET posts : \A p \in Abandoned(S) : ~p.mounted
  BY <1>a, AbandonedPosts DEF TypeOK
<1> USE DEF UidOnScreen
<1>1. ASSUME NEW i \in Checks, Splash(i) PROVE UidOnScreen'
  BY <1>1 DEF Splash, StartCheck, CurrencyAnswer, AuthAnswer, ProfileAnswer,
              SplashUnchanged, signUp
<1>2. CASE OpenLogin \/ CloseLogin \/ Offline \/ GoogleReturns
  BY <1>2 DEF OpenLogin, CloseLogin, Offline, GoogleReturns, LoginUnchanged, signUp
<1>3. ASSUME NEW m \in Methods, NEW a \in Accounts, Press(m, a) PROVE UidOnScreen'
  BY <1>3 DEF Press, LoginUnchanged, signUp
<1>4. ASSUME NEW a \in Accounts, GoogleToken(a) PROVE UidOnScreen'
  BY <1>4 DEF GoogleToken, LoginUnchanged, signUp
<1>5. ASSUME NEW m \in Methods, Answers(m) PROVE UidOnScreen'
  <2>1. CASE ProfileFound(m)
    BY <1>a, <2>1 DEF ProfileFound, LoginUnchanged, signUp, LoginsOnScreen
  <2>2. CASE ProfileUnknown(m)
    BY <1>a, <2>2 DEF ProfileUnknown, LoginsOnScreen, PostsOnScreen
  <2>3. CASE Refused(m) \/ Accepted(m) \/ TokenAnswer(m) \/ Check(m)
             \/ ProfileFails(m) \/ SignOutDone(m)
    BY <2>3 DEF Refused, Accepted, TokenAnswer, Check, ProfileFails, SignOutDone,
                LoginUnchanged, signUp
  <2>4. QED
    BY <1>5, <2>1, <2>2, <2>3 DEF Answers
<1>6. CASE ReadUid \/ PostSignUp \/ CloseSignUp
  BY <1>b, <1>6 DEF ReadUid, PostSignUp, CloseSignUp, SignUpUnchanged
<1>7. ASSUME NEW p \in posts, SignUpAnswer(p) PROVE UidOnScreen'
  BY <1>b, <1>7 DEF SignUpAnswer, SignUpUnchanged
<1>8. CASE Logout \/ SignOutAnswer \/ LoggedOut
  BY <1>8 DEF Logout, SignOutAnswer, LoggedOut, LogoutUnchanged, signUp
<1>9. CASE Restart
  BY <1>9 DEF Restart
<1>10. CASE UNCHANGED vars
  BY <1>10 DEF vars
<1>11. QED
  BY <1>1, <1>2, <1>3, <1>4, <1>5, <1>6, <1>7, <1>8, <1>9, <1>10 DEF Next

\* The sign-in that ended claims nothing, and the other ones are as before.
LEMMA SoundEnded ==
  ASSUME Proper(logins), NEW m \in Methods
  PROVE  /\ ~Ended(m)[m].mounted
         /\ \A n \in Methods \ {m} : Ended(m)[n] = logins[n]
         /\ \A n \in Methods : Sound(logins[n], auth) => Sound(Ended(m)[n], auth)
BY DEF Proper, Ended, Idle, Sound

\* Steps that leave the session alone.
LEMMA AgreedKept ==
  ASSUME Agreed, UNCHANGED <<auth, user, uid>>, raced => raced',
         signingOut = "answered" => signingOut' = "answered",
         ~raced' => \A m \in Methods : Sound(logins[m], auth) => Sound(logins'[m], auth)
  PROVE  Agreed'
BY DEF Agreed

LEMMA AgreedAnswers ==
  ASSUME SessionInv, Agreed, UidOnScreen, NEW m \in Methods, Answers(m)
  PROVE  Agreed'
<1>a. Proper(logins) /\ LoginsOnScreen /\ logins \in [Methods -> Logins]
  BY DEF SessionInv, TypeInv, Proper
<1>b. /\ Proper(Ended(m)) /\ \A n \in Methods : ~Unmounted(Ended(m))[n].mounted
  BY <1>a, EndedLogins, UnmountedLogins
<1>1. CASE Refused(m)
  BY <1>a, <1>1, SoundEnded, AgreedKept DEF Refused, LoginUnchanged, signUp
<1>2. CASE Accepted(m)
  <2> SUFFICES ASSUME ~raced', signingOut' # "answered"
               PROVE  /\ user' # None => auth' = user'
                      /\ uid' # None => auth' = uid'
                      /\ \A n \in Methods : Sound(logins'[n], auth')
    BY DEF Agreed
  <2>1. /\ Relying(m) = {} /\ user = None /\ uid = None /\ auth' = logins[m].account
        /\ UNCHANGED <<user, uid, signingOut>> /\ ~raced
    BY <1>2 DEF Accepted, LoginUnchanged, signUp
  <2>2. PICK q \in {"token", "current"} : logins' = [logins EXCEPT ![m].phase = q]
    BY <1>2 DEF Accepted, Goto
  <2>3. logins'[m].account = logins[m].account /\ logins'[m].phase = q
    BY <1>a, <2>2 DEF Logins
  <2>4. Sound(logins'[m], auth')
    BY <2>1, <2>3 DEF Sound
  <2>5. ASSUME NEW n \in Methods, n # m PROVE Sound(logins'[n], auth')
    <3>1. logins'[n] = logins[n]
      BY <1>a, <2>2, <2>5
    <3>2. logins[n].phase \notin {"token", "current", "check", "profile"}
      BY <2>1, <2>5 DEF Relying
    <3>3. QED
      BY <3>1, <3>2 DEF Sound
  <2>6. QED
    BY <2>1, <2>4, <2>5
<1>3. CASE TokenAnswer(m)
  <2>1. CASE logins' = Ended(m)
    BY <1>a, <1>3, <2>1, SoundEnded, AgreedKept DEF TokenAnswer, LoginUnchanged, signUp
  <2>2. CASE logins' = [logins EXCEPT ![m].phase = "check", ![m].token = logins[m].account]
    <3>1. /\ logins'[m].account = logins[m].account /\ logins'[m].token = logins[m].account
          /\ logins'[m].mounted = logins[m].mounted
          /\ \A n \in Methods \ {m} : logins'[n] = logins[n]
      BY <1>a, <2>2 DEF Logins
    <3>2. logins[m].phase = "token"
      BY <1>3 DEF TokenAnswer, At
    <3>3. \A n \in Methods : Sound(logins[n], auth) => Sound(logins'[n], auth)
      BY <3>1, <3>2 DEF Sound
    <3>4. QED
      BY <1>3, <3>3, AgreedKept DEF TokenAnswer, LoginUnchanged, signUp
  <2>3. QED
    BY <1>3, <2>1, <2>2 DEF TokenAnswer
<1>4. CASE Check(m)
  <2>1. CASE logins' = Ended(m)
    BY <1>a, <1>4, <2>1, SoundEnded, AgreedKept DEF Check, LoginUnchanged, signUp
  <2>2. CASE logins' = [logins EXCEPT ![m].phase = "profile"]
    <3>1. /\ logins'[m].account = logins[m].account /\ logins'[m].token = logins[m].token
          /\ logins'[m].mounted = logins[m].mounted
          /\ \A n \in Methods \ {m} : logins'[n] = logins[n]
      BY <1>a, <2>2 DEF Logins
    <3>2. logins[m].phase = "check"
      BY <1>4 DEF Check, At
    <3>3. \A n \in Methods : Sound(logins[n], auth) => Sound(logins'[n], auth)
      BY <3>1, <3>2 DEF Sound
    <3>4. QED
      BY <1>4, <3>3, AgreedKept DEF Check, LoginUnchanged, signUp
  <2>3. QED
    BY <1>4, <2>1, <2>2 DEF Check, Goto
<1>5. CASE ProfileFound(m)
  <2>1. uid = None
    BY <1>a, <1>5 DEF ProfileFound, LoginsOnScreen, UidOnScreen
  <2>2. \A n \in Methods : ~logins'[n].mounted
    BY <1>b, <1>5 DEF ProfileFound, Leave
  <2>3. ~raced /\ signingOut # "answered" => logins[m].token = auth
    BY <1>5 DEF ProfileFound, Agreed, Sound, At
  <2>4. QED
    BY <1>5, <2>1, <2>2, <2>3 DEF ProfileFound, LoginUnchanged, signUp, Agreed, Sound
<1>6. CASE ProfileUnknown(m)
  <2>1. \A n \in Methods : ~logins'[n].mounted
    BY <1>b, <1>6 DEF ProfileUnknown, Leave
  <2>2. QED
    BY <1>6, <2>1 DEF ProfileUnknown, Agreed, Sound
<1>7. CASE ProfileFails(m)
  <2>1. logins' = [logins EXCEPT ![m].phase = "signout"]
    BY <1>7 DEF ProfileFails, Goto
  <2>2. logins'[m].phase = "signout" /\ \A n \in Methods \ {m} : logins'[n] = logins[n]
    BY <1>a, <2>1 DEF Logins
  <2>3. \A n \in Methods : Sound(logins[n], auth) => Sound(logins'[n], auth)
    BY <2>2 DEF Sound
  <2>4. QED
    BY <1>7, <2>3, AgreedKept DEF ProfileFails, LoginUnchanged, signUp, histories
<1>8. CASE SignOutDone(m)
  <2> SUFFICES ASSUME ~raced', signingOut' # "answered"
               PROVE  /\ user' # None => auth' = user'
                      /\ uid' # None => auth' = uid'
                      /\ \A n \in Methods : Sound(logins'[n], auth')
    BY DEF Agreed
  <2>1. /\ Relying(m) = {} /\ user = None /\ uid = None
        /\ UNCHANGED <<user, uid>> /\ logins' = Ended(m)
    BY <1>8 DEF SignOutDone, LoginUnchanged, signUp
  <2>2. Sound(logins'[m], auth')
    BY <1>a, <2>1, SoundEnded DEF Sound
  <2>3. ASSUME NEW n \in Methods, n # m PROVE Sound(logins'[n], auth')
    <3>1. logins'[n] = logins[n]
      BY <1>a, <2>1, <2>3, SoundEnded
    <3>2. logins[n].phase \notin {"token", "current", "check", "profile"}
      BY <2>1, <2>3 DEF Relying
    <3>3. QED
      BY <3>1, <3>2 DEF Sound
  <2>4. QED
    BY <2>1, <2>2, <2>3
<1>9. QED
  BY <1>1, <1>2, <1>3, <1>4, <1>5, <1>6, <1>7, <1>8 DEF Answers

LEMMA AgreedStep == IdentityInv /\ [Next]_vars => Agreed'
<1> SUFFICES ASSUME IdentityInv, [Next]_vars PROVE Agreed'
  OBVIOUS
<1>a. /\ SessionInv /\ UidOnScreen /\ Agreed /\ TypeOK /\ Proper(logins)
      /\ LoginsOnScreen /\ PostsOnScreen /\ NobodyThere /\ LogoutOnMain
      /\ logins \in [Methods -> Logins]
  BY DEF IdentityInv, SessionInv, TypeInv, Proper
<1>1. ASSUME NEW i \in Checks, Splash(i) PROVE Agreed'
  BY <1>a, <1>1 DEF Splash, StartCheck, CurrencyAnswer, AuthAnswer, ProfileAnswer,
       SplashUnchanged, signUp, histories, Agreed
<1>2. CASE OpenLogin \/ Offline
  BY <1>a, <1>2, AgreedKept DEF OpenLogin, Offline, LoginUnchanged, signUp
<1>3. CASE CloseLogin
  BY <1>a, <1>3, UnmountedLogins, AgreedKept DEF CloseLogin, Leave, LoginUnchanged, signUp, Sound
<1>4. CASE GoogleReturns
  <2>0. "google" \in Methods
    BY DEF Methods
  <2>1. CASE logins' = Ended("google")
    <3>1. \A n \in Methods : Sound(logins[n], auth) => Sound(logins'[n], auth)
      BY <1>a, <2>0, <2>1, SoundEnded
    <3>2. UNCHANGED <<auth, user, uid, signingOut>>
      BY <1>4 DEF GoogleReturns, LoginUnchanged, signUp
    <3>3. raced => raced'
      BY <1>4, Zenon DEF GoogleReturns
    <3>4. QED
      BY <1>a, <3>1, <3>2, <3>3, AgreedKept
  <2>2. CASE /\ logins' = [logins EXCEPT !["google"].phase = "check",
                                         !["google"].token = googleToken]
             /\ raced' = (raced \/ googleToken # logins["google"].account)
    <3>1. /\ logins'["google"].account = logins["google"].account
          /\ logins'["google"].token = googleToken
          /\ logins'["google"].mounted = logins["google"].mounted
          /\ \A n \in Methods \ {"google"} : logins'[n] = logins[n]
      BY <1>a, <2>0, <2>2 DEF Logins
    <3>2. logins["google"].phase = "current"
      BY <1>4 DEF GoogleReturns, At
    <3>3. ~raced' => googleToken = logins["google"].account
      BY <2>2
    <3>4. ~raced' => \A n \in Methods : Sound(logins[n], auth) => Sound(logins'[n], auth)
      BY <3>1, <3>2, <3>3 DEF Sound
    <3>5. raced => raced'
      BY <2>2
    <3>6. QED
      BY <1>a, <1>4, <3>4, <3>5, AgreedKept DEF GoogleReturns, LoginUnchanged, signUp
  <2>3. QED
    BY <1>4, <2>1, <2>2 DEF GoogleReturns
<1>5. ASSUME NEW m \in Methods, NEW a \in Accounts, Press(m, a) PROVE Agreed'
  <2>1. logins'[m].phase = "credential" /\ \A n \in Methods \ {m} : logins'[n] = logins[n]
    BY <1>a, <1>5 DEF Press
  <2>2. \A n \in Methods : Sound(logins[n], auth) => Sound(logins'[n], auth)
    BY <2>1 DEF Sound
  <2>3. QED
    BY <1>a, <1>5, <2>2, AgreedKept DEF Press, LoginUnchanged, signUp, histories
<1>6. ASSUME NEW m \in Methods, Answers(m) PROVE Agreed'
  BY <1>a, <1>6, AgreedAnswers
<1>7. ASSUME NEW a \in Accounts, GoogleToken(a) PROVE Agreed'
  BY <1>a, <1>7, AgreedKept DEF GoogleToken, LoginUnchanged, signUp, histories
<1>8. CASE ReadUid \/ PostSignUp \/ CloseSignUp
  BY <1>a, <1>8 DEF ReadUid, PostSignUp, CloseSignUp, SignUpUnchanged, Agreed
<1>9. ASSUME NEW p \in posts, SignUpAnswer(p) PROVE Agreed'
  BY <1>a, <1>9 DEF SignUpAnswer, SignUpUnchanged, Agreed, UidOnScreen
<1>10. CASE Logout \/ SignOutAnswer
  BY <1>a, <1>10 DEF Logout, SignOutAnswer, LogoutUnchanged, signUp, Agreed
<1>11. CASE LoggedOut
  BY <1>a, <1>11 DEF LoggedOut, LogoutUnchanged, signUp, Agreed, Sound, UidOnScreen,
       LogoutOnMain, LoginsOnScreen
<1>12. CASE Restart
  BY <1>12 DEF Restart, Agreed, Sound, Idle
<1>13. CASE UNCHANGED vars
  BY <1>a, <1>13 DEF vars, Agreed
<1>14. QED
  BY <1>1, <1>2, <1>3, <1>4, <1>5, <1>6, <1>7, <1>8, <1>9, <1>10, <1>11, <1>12,
     <1>13 DEF Next

(***************************************************************************)
(* The profile the app shows (UserProvider.user) is that of the Firebase   *)
(* session, the logout in progress and sign-ins that raced excepted.       *)
(***************************************************************************)
THEOREM UserIsOfTheSession == Spec => []IdentityAgrees
<1>1. Init => IdentityInv
  BY InitSession DEF Init, IdentityInv, UidOnScreen, Agreed, Sound, Idle
<1>2. IdentityInv /\ [Next]_vars => IdentityInv'
  BY SessionStep, UidStep, AgreedStep DEF IdentityInv
<1>3. IdentityInv => IdentityAgrees
  BY DEF IdentityInv, Agreed, IdentityAgrees
<1>4. QED
  BY <1>1, <1>2, <1>3, PTL DEF Spec
=============================================================================
