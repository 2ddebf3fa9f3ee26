------------------------ MODULE ChatIndicatorProofs -------------------------
(***************************************************************************)
(* The safety properties of ChatIndicator for any set of accounts.         *)
(***************************************************************************)
EXTENDS ChatIndicator, TLAPS

\* Only a subscription has events on their way.
EventsOfListener == pending => listener # None

\* What a step needs to know of its first state.
IndicatorInv ==
  /\ TypeOK
  /\ EventsOfListener
  /\ OwnChatsOnly
  /\ FollowsEverySecond
  /\ DotIsRight

\* listenChatChange subscribes for the user or not at all, and with the value
\* of the conversations still to come.
LEMMA SubscribedResult ==
  ASSUME NEW u \in Somebody, NEW l \in Somebody
  PROVE  /\ Subscribed(u, l) \in {u, None}
         /\ l = None => Subscribed(u, l) = u
         /\ l # None => Subscribed(u, l) = None
BY DEF Subscribed

LEMMA InitIndicator == Init => IndicatorInv
BY ChatIndicatorAssumption
   DEF Init, IndicatorInv, TypeOK, EventsOfListener, OwnChatsOnly,
       FollowsEverySecond, DotIsRight, Somebody, States

LEMMA TypeStep == TypeOK /\ EventsOfListener /\ [Next]_vars => TypeOK'
<1> SUFFICES ASSUME TypeOK, EventsOfListener, [Next]_vars PROVE TypeOK'
  OBVIOUS
<1> USE DEF TypeOK, provider
<1>1. ASSUME NEW u \in Somebody, Start(u) PROVE TypeOK'
  BY <1>1 DEF Start, ListenChatChange, Subscribed, Somebody
<1>2. ASSUME NEW u \in Accounts, SignIn(u) PROVE TypeOK'
  BY <1>2 DEF SignIn, ListenChatChange, Subscribed, Somebody
<1>3. CASE OtherNotification
  BY <1>3 DEF OtherNotification, ListenChatChange, Subscribed, Somebody
<1>4. CASE Logout
  BY <1>4 DEF Logout, ListenChatChange, Subscribed, Somebody
<1>5. CASE Restart
  BY <1>5 DEF Restart, Somebody
<1>6. CASE Deliver
  <2>1. chats[listener] \in States
    BY <1>6 DEF Deliver, EventsOfListener, Somebody
  <2>2. hasSeenAll' \in BOOLEAN
    BY <1>6, Zenon DEF Deliver
  <2>3. QED
    BY <1>6, <2>2 DEF Deliver
<1>7. ASSUME NEW a \in Accounts, ChatsChange(a) PROVE TypeOK'
  <2>1. chats' \in [Accounts -> States]
    BY <1>7 DEF ChatsChange, States
  <2>2. pending' \in BOOLEAN
    BY <1>7, Zenon DEF ChatsChange
  <2>3. QED
    BY <1>7, <2>1, <2>2 DEF ChatsChange
<1>8. CASE UNCHANGED vars
  BY <1>8 DEF vars
<1>9. QED
  BY <1>1, <1>2, <1>3, <1>4, <1>5, <1>6, <1>7, <1>8 DEF Next

\* Running listenChatChange leaves the facts about the subscription in place.
LEMMA ListenStep ==
  ASSUME TypeOK, NEW u \in Somebody, NEW l \in Somebody, ListenChatChange(u, l)
  PROVE  /\ EventsOfListener'
         /\ listener' = Subscribed(u, l)
         /\ listener' # None => pending'
BY DEF ListenChatChange, EventsOfListener

LEMMA IndicatorStep == IndicatorInv /\ [Next]_vars => IndicatorInv'
<1> SUFFICES ASSUME IndicatorInv, [Next]_vars PROVE IndicatorInv'
  OBVIOUS
<1> USE ChatIndicatorAssumption
<1>0. TypeOK'
  BY TypeStep DEF IndicatorInv
<1>1. ASSUME NEW u \in Somebody, NEW l \in Somebody, ListenChatChange(u, l),
             user' = u, u # None => (l = None <=> switched' = 0)
      PROVE  IndicatorInv'
  <2>1. EventsOfListener' /\ listener' = Subscribed(u, l) /\ (listener' # None => pending')
    BY <1>1, ListenStep DEF IndicatorInv
  <2>2. OwnChatsOnly'
    BY <1>1, <2>1, SubscribedResult DEF OwnChatsOnly
  <2>3. FollowsEverySecond'
    BY <1>1, <2>1, SubscribedResult DEF FollowsEverySecond
  <2>4. DotIsRight'
    BY <2>1 DEF DotIsRight
  <2>5. QED
    BY <1>0, <2>1, <2>2, <2>3, <2>4 DEF IndicatorInv
<1>2. None \in Somebody /\ user \in Somebody /\ listener \in Somebody
  BY DEF IndicatorInv, TypeOK, Somebody
<1>3. ASSUME NEW u \in Somebody, Start(u) PROVE IndicatorInv'
  BY <1>1, <1>2, <1>3 DEF Start
<1>4. ASSUME NEW u \in Accounts, SignIn(u) PROVE IndicatorInv'
  <2>1. listener = None
    BY <1>4 DEF SignIn, IndicatorInv, OwnChatsOnly
  <2>2. QED
    BY <1>1, <1>2, <1>4, <2>1 DEF SignIn, Somebody
<1>5. CASE OtherNotification
  <2>1. user # None => (listener = None <=> switched' = 0)
    BY <1>5 DEF OtherNotification, IndicatorInv, TypeOK, OwnChatsOnly, FollowsEverySecond
  <2>2. QED
    BY <1>1, <1>2, <1>5, <2>1 DEF OtherNotification
<1>6. CASE Logout
  BY <1>1, <1>2, <1>6 DEF Logout
<1>7. CASE Restart
  BY <1>0, <1>7 DEF Restart, IndicatorInv, EventsOfListener, OwnChatsOnly,
                    FollowsEverySecond, DotIsRight
<1>8. CASE Deliver
  <2>1. listener # None /\ chats[listener] \in States
    BY <1>8 DEF Deliver, IndicatorInv, EventsOfListener, TypeOK, Somebody
  <2>2. DotIsRight'
    <3>1. chats[listener] # "none" => numberOfChat' = 1
      BY <1>8 DEF Deliver
    <3>2. chats[listener] # "none" => (hasSeenAll' <=> chats[listener] = "read")
      BY <1>8, Zenon DEF Deliver
    <3>3. QED
      BY <1>8, <3>1, <3>2, Zenon DEF Deliver, DotIsRight
  <2>3. EventsOfListener' /\ OwnChatsOnly' /\ FollowsEverySecond'
    BY <1>8 DEF Deliver, IndicatorInv, EventsOfListener, OwnChatsOnly, FollowsEverySecond
  <2>4. QED
    BY <1>0, <2>2, <2>3 DEF IndicatorInv
<1>9. ASSUME NEW a \in Accounts, ChatsChange(a) PROVE IndicatorInv'
  <2>1. EventsOfListener'
    BY <1>9 DEF ChatsChange, IndicatorInv, EventsOfListener
  <2>2. DotIsRight'
    <3>1. CASE listener = a
      BY <1>9, <3>1 DEF ChatsChange, DotIsRight
    <3>2. CASE listener # a
      <4>1. listener # None => chats'[listener] = chats[listener]
        BY <1>9, <3>2 DEF ChatsChange, IndicatorInv, TypeOK, Somebody
      <4>2. pending' <=> pending
        BY <1>9, <3>2, Zenon DEF ChatsChange
      <4>3. QED
        BY <1>9, <4>1, <4>2 DEF ChatsChange, provider, IndicatorInv, DotIsRight
    <3>3. QED
      BY <3>1, <3>2
  <2>3. OwnChatsOnly' /\ FollowsEverySecond'
    BY <1>9 DEF ChatsChange, IndicatorInv, OwnChatsOnly, FollowsEverySecond
  <2>4. QED
    BY <1>0, <2>1, <2>2, <2>3 DEF IndicatorInv
<1>10. CASE UNCHANGED vars
  BY <1>10 DEF vars, IndicatorInv, TypeOK, EventsOfListener, OwnChatsOnly,
               FollowsEverySecond, DotIsRight
<1>11. QED
  BY <1>3, <1>4, <1>5, <1>6, <1>7, <1>8, <1>9, <1>10 DEF Next

(***************************************************************************)
(* Every reachable state of the indicator satisfies the invariant.         *)
(***************************************************************************)
THEOREM IndicatorCorrect == Spec => []IndicatorInv
BY InitIndicator, IndicatorStep, PTL DEF Spec

(***************************************************************************)
(* The home screen never follows another account's conversations: logout,  *)
(* sign-in and the notifications of UserProvider cannot mix two users up.  *)
(***************************************************************************)
THEOREM FollowsOwnChats == Spec => []OwnChatsOnly
<1>1. IndicatorInv => OwnChatsOnly
  BY DEF IndicatorInv
<1>2. QED
  BY IndicatorCorrect, <1>1, PTL

(***************************************************************************)
(* listenChatChange is a switch: an odd number of further notifications    *)
(* leaves the signed-in user without an indicator, an even number with one.*)
(***************************************************************************)
THEOREM SwitchesEveryTime == Spec => []FollowsEverySecond
<1>1. IndicatorInv => FollowsEverySecond
  BY DEF IndicatorInv
<1>2. QED
  BY IndicatorCorrect, <1>1, PTL

(***************************************************************************)
(* The dot of a followed user who has conversations is right once their    *)
(* events have arrived, whatever ChatProvider held before.                 *)
(***************************************************************************)
THEOREM DotShowsUnread == Spec => []DotIsRight
<1>1. IndicatorInv => DotIsRight
  BY DEF IndicatorInv
<1>2. QED
  BY IndicatorCorrect, <1>1, PTL
=============================================================================
