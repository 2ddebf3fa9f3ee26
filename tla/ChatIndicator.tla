--------------------------- MODULE ChatIndicator ----------------------------
(***************************************************************************)
(* The red dot on the home screen's chat button: MainPage.listenChatChange *)
(* subscribes to the conversations of the signed-in user and writes        *)
(* ChatProvider.numberOfChat and hasSeenAll, which outlive both the page   *)
(* and the user.                                                           *)
(*                                                                         *)
(* listenChatChange runs when the page appears and on every notification   *)
(* of UserProvider, whatever it is about: it subscribes if there is a user *)
(* and no subscription, and cancels otherwise.  Of Session only the        *)
(* changes of UserProvider are kept.                                       *)
(***************************************************************************)
EXTENDS Integers

CONSTANTS Accounts, None

ASSUME ChatIndicatorAssumption == None \notin Accounts

VARIABLES
  user,          \* UserProvider._user
  page,          \* a MainPage is shown
  listener,      \* the account chatChangeListener is subscribed for
  pending,       \* an onValue event of that subscription is on its way
  numberOfChat,  \* ChatProvider._numberOfChat, 0 or more
  hasSeenAll,    \* ChatProvider._hasSeenAll
  chats,         \* the conversations of each account, as its query sees them
  switched       \* history: other notifications since sign-in, modulo 2

provider == <<numberOfChat, hasSeenAll>>
vars == <<user, page, listener, pending, numberOfChat, hasSeenAll, chats, switched>>

Somebody == Accounts \union {None}
States == {"none", "read", "unread"}

-----------------------------------------------------------------------------
Init ==
  /\ user = None
  /\ page = FALSE
  /\ listener = None
  /\ pending = FALSE
  /\ numberOfChat = 0
  /\ hasSeenAll = TRUE
  /\ chats \in [Accounts -> States]
  /\ switched = 0

\* The account subscribed for once listenChatChange has run for user u.
Subscribed(u, l) == IF l = None THEN u ELSE None

\* A new subscription delivers the current value first; a cancelled one nothing.
ListenChatChange(u, l) ==
  /\ listener' = Subscribed(u, l)
  /\ pending' = (listener' # None)

\* SplashScreen has set the user, or not, and MainPage appears.
Start(u) ==
  /\ ~page
  /\ page' = TRUE
  /\ user' = u
  /\ ListenChatChange(u, None)
  /\ switched' = 0
  /\ UNCHANGED <<provider, chats>>

\* LoginScreen or SignUpScreen: setUser notifies.
SignIn(u) ==
  /\ page /\ user = None
  /\ user' = u
  /\ ListenChatChange(u, listener)
  /\ switched' = 0
  /\ UNCHANGED <<page, provider, chats>>

\* setCurrencyKey in the app bar, or setUser when a profile was edited.
OtherNotification ==
  /\ page
  /\ ListenChatChange(user, listener)
  /\ switched' = IF user = None THEN 0 ELSE 1 - switched
  /\ UNCHANGED <<user, page, provider, chats>>

\* logout: clear() does not notify; a new MainPage replaces the old one, whose
\* dispose cancels its subscription.
LogoutSamePage ==  \* mutant: the old page and its subscription stay
  /\ page /\ user # None
  /\ user' = None
  /\ UNCHANGED <<page, listener, pending, provider, chats, switched>>

Logout ==
  /\ page /\ user # None
  /\ user' = None
  /\ ListenChatChange(None, None)
  /\ switched' = 0
  /\ UNCHANGED <<page, provider, chats>>

\* The app is killed; the providers are created anew.
Restart ==
  /\ page' = FALSE
  /\ user' = None
  /\ listener' = None
  /\ pending' = FALSE
  /\ numberOfChat' = 0
  /\ hasSeenAll' = TRUE
  /\ switched' = 0
  /\ UNCHANGED chats

(***************************************************************************)
(* The listener's callback.  Without conversations the value is null:      *)
(* numberOfChat is reset, and value.values throws before hasSeenAll is.    *)
(***************************************************************************)
DeliverFirst ==  \* mutant: the dot is only set with the first value
  /\ pending
  /\ pending' = FALSE
  /\ numberOfChat' = IF chats[listener] = "none" THEN 0 ELSE 1
  /\ hasSeenAll' = IF numberOfChat = 0 /\ chats[listener] # "none"
                   THEN chats[listener] = "read" ELSE hasSeenAll
  /\ UNCHANGED <<user, page, listener, chats, switched>>

DeliverOnce ==  \* mutant: a listener for the first value only
  /\ pending /\ numberOfChat = 0
  /\ pending' = FALSE
  /\ numberOfChat' = IF chats[listener] = "none" THEN 0 ELSE 1
  /\ hasSeenAll' = IF chats[listener] = "none" THEN hasSeenAll
                   ELSE chats[listener] = "read"
  /\ UNCHANGED <<user, page, listener, chats, switched>>

Deliver ==
  /\ pending
  /\ pending' = FALSE
  /\ numberOfChat' = IF chats[listener] = "none" THEN 0 ELSE 1
  /\ hasSeenAll' = IF chats[listener] = "none" THEN hasSeenAll
                   ELSE chats[listener] = "read"
  /\ UNCHANGED <<user, page, listener, chats, switched>>

\* A conversation of a is started, receives a message, or is read.
ChatsChange(a) ==
  /\ \E s \in {"read", "unread"} \ {chats[a]} : chats' = [chats EXCEPT ![a] = s]
  /\ pending' = (pending \/ listener = a)
  /\ UNCHANGED <<user, page, listener, provider, switched>>

Next ==
  \/ \E u \in Somebody : Start(u)
  \/ \E u \in Accounts : SignIn(u)
  \/ OtherNotification \/ Logout \/ Restart
  \/ Deliver
  \/ \E a \in Accounts : ChatsChange(a)

Spec == Init /\ [][Next]_vars

\* Events of a subscription reach its callback.
FairSpec == Spec /\ WF_vars(Deliver)

-----------------------------------------------------------------------------
TypeOK ==
  /\ user \in Somebody
  /\ page \in BOOLEAN
  /\ listener \in Somebody
  /\ pending \in BOOLEAN
  /\ numberOfChat \in {0, 1}
  /\ hasSeenAll \in BOOLEAN
  /\ chats \in [Accounts -> States]
  /\ switched \in {0, 1}

(***************************************************************************)
(* The indicator never follows the conversations of anyone but the user    *)
(* who is signed in: not after a logout, another sign-in or a restart.     *)
(***************************************************************************)
OwnChatsOnly == listener \in {user, None}

(***************************************************************************)
(* The indicator follows the user's conversations after the sign-in and    *)
(* after every second further notification of UserProvider, and only then: *)
(* choosing a currency or saving the profile switches it off and on again. *)
(***************************************************************************)
FollowsEverySecond == user # None => (listener = user <=> switched = 0)

(***************************************************************************)
(* Once the events of a subscription have arrived, the dot and the number  *)
(* are those of the user's conversations, if there are any - whatever an   *)
(* earlier user or an earlier subscription had left in ChatProvider.       *)
(***************************************************************************)
DotIsRight ==
  (listener # None /\ ~pending /\ chats[listener] # "none")
  => numberOfChat = 1 /\ (hasSeenAll <=> chats[listener] = "read")

(***************************************************************************)
(* A change of the followed conversations shows, unless the subscription   *)
(* is given up first: no order of notifications swallows it for good.      *)
(***************************************************************************)
ChangeShows ==
  \A a \in Accounts :
    listener = a /\ chats[a] = "unread"
      ~> listener # a \/ chats[a] # "unread" \/ ~hasSeenAll
=============================================================================
