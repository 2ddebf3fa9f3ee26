----------------------------- MODULE ChatWindow -----------------------------
(***************************************************************************)
(* One mounted ChatWidget (presentations/widget/chat/chat_widget.dart) and *)
(* the part of the Firebase database it reads and writes.                  *)
(*                                                                         *)
(* The widget shows one conversation.  Opening a conversation is a         *)
(* protocol of several asynchronous steps: read the last FirstLimit        *)
(* messages once, show all of them but the newest, and then subscribe to   *)
(* "the last message, and every one after it", whose first event brings    *)
(* the newest message back.  Scrolling to the top reads one page of older  *)
(* messages.  None of the continuations after an await checks that the     *)
(* conversation it was started for is still the one on screen, so the      *)
(* module keeps every outstanding request, and the history variable        *)
(* `races' names each kind of overlap that has happened so far.  The       *)
(* properties say precisely which overlap can cause which defect, and that *)
(* without any overlap the window is exact.                                *)
(***************************************************************************)
EXTENDS Integers, Sequences, FiniteSets

CONSTANTS
  Chats,       \* conversation keys, the path component "null" included
  NoKey,       \* oldKey = "": no conversation was opened yet
  MaxKey,      \* bound: message keys are 1..MaxKey
  Slots,       \* bound: loads and subscriptions alive at the same time
  NoSub,       \* _onNoteAddedSubscription holds no active subscription
  PageSlots,   \* bound: page requests in flight at the same time
  FirstLimit,  \* limitToLast(11) of _listenToChatFirstTime
  PageLimit    \* limitToLast(4) of _listenToPreviousChat

ASSUME ChatWindowAssumption ==
  /\ NoKey \notin Chats
  /\ NoSub \notin Slots
  /\ MaxKey \in Nat
  /\ FirstLimit \in Nat \ {0}
  /\ PageLimit \in Nat \ {0}

VARIABLES
  stored,          \* chats/<chat>/messages: the keys the server holds
  lastSeen,        \* chats/<chat>/users/<own id>/lastSeen, 0 if never written
  chatKeyStream,   \* latest value of ChatProvider.chatKeyStream
  status,          \* life cycle of the widget's State object
  signedIn,        \* UserProvider.getUser() != null
  chatKey,         \* _chatKey and oldKey, equal whenever no handler is running
  messages,        \* the list the ListView shows
  lastMessageKey,  \* _lastMessageKey, the oldest key shown; 0 for "" and null
  sub,             \* _onNoteAddedSubscription
  task,            \* the loads in flight and the subscriptions they turn into
  page,            \* the page requests in flight
  races            \* history: the kinds of overlap that have happened

db     == <<stored, lastSeen>>
widget == <<status, signedIn, chatKey, messages, lastMessageKey, sub>>
vars   == <<stored, lastSeen, chatKeyStream, status, signedIn, chatKey,
            messages, lastMessageKey, sub, task, page, races>>

(***************************************************************************)
(* Firebase push keys are ordered by creation time and unique over all     *)
(* conversations, so a key stands for its message.                         *)
(***************************************************************************)
Keys == 1..MaxKey

RaceKinds == {"switch", "overlap", "handover", "late", "stale"}

Phases == {"free", "asked", "answered", "subscribing", "live"}

Tasks == [phase : Phases, chat : Chats \union {NoKey},
          keys : SUBSET Keys, queue : Seq(Keys)]

Pages == [phase : {"idle", "asked", "answered"}, chat : Chats \union {NoKey},
          end : Keys \union {0}, keys : SUBSET Keys]

FreeTask == [phase |-> "free", chat |-> NoKey, keys |-> {}, queue |-> <<>>]
IdlePage == [phase |-> "idle", chat |-> NoKey, end |-> 0, keys |-> {}]

(***************************************************************************)
(* Query results, as sets of keys, and the list a result is sorted into.   *)
(***************************************************************************)
Newest(S) == {k \in S : \A j \in S : j <= k}

LimitToLast(S, n) == {k \in S : Cardinality({j \in S : j > k}) < n}

EndAt(S, end) == {k \in S : k <= end}

SortedLists(S) ==
  {s \in [1..Cardinality(S) -> S] :
     \A i, j \in 1..Cardinality(S) : i < j => s[i] < s[j]}

Shown == {messages[i] : i \in DOMAIN messages}

Queued(s) == {task[s].queue[i] : i \in DOMAIN task[s].queue}

LoadInFlight == \E s \in Slots : task[s].phase \in {"asked", "answered"}
PageInFlight == \E p \in PageSlots : page[p].phase # "idle"

-----------------------------------------------------------------------------
(***************************************************************************)
(* A widget is created over a stream that may already hold a conversation, *)
(* and over a database other clients are using.                            *)
(***************************************************************************)
Init ==
  /\ stored = [c \in Chats |-> {}]
  /\ lastSeen = [c \in Chats |-> 0]
  /\ chatKeyStream \in Chats \union {NoKey}
  /\ status = "building"
  /\ signedIn = TRUE
  /\ chatKey = NoKey
  /\ messages = <<>>
  /\ lastMessageKey = 0
  /\ sub = NoSub
  /\ task = [s \in Slots |-> FreeTask]
  /\ page = [p \in PageSlots |-> IdlePage]
  /\ races = {}

(***************************************************************************)
(* The server accepts message k into conversation c, from any client.  A   *)
(* key is made when the message is composed, so it may reach the server    *)
(* after younger ones.  A limitToLast(1) child-added listener hears of a   *)
(* message only if it is the newest of its conversation.                   *)
(***************************************************************************)
Arrive(c, k) ==
  /\ \A d \in Chats : k \notin stored[d]
  /\ stored' = [stored EXCEPT ![c] = @ \union {k}]
  /\ task' = [s \in Slots |->
                IF /\ task[s].phase = "live"
                   /\ task[s].chat = c
                   /\ \A j \in stored[c] : j < k
                THEN [task[s] EXCEPT !.queue = Append(@, k)]
                ELSE task[s]]
  /\ races' = races
       \union {r \in {"handover"} :
                 /\ stored[c] # {}
                 /\ \E s \in Slots : /\ task[s].phase \in {"answered", "subscribing"}
                                     /\ task[s].chat = c}
       \union {r \in {"late"} :
                 /\ \E j \in stored[c] : k < j
                 /\ \E s \in Slots : /\ task[s].phase \notin {"free", "asked"}
                                     /\ task[s].chat = c}
  /\ UNCHANGED <<lastSeen, chatKeyStream, widget, page>>

-----------------------------------------------------------------------------
(***************************************************************************)
(* The listener of chatKeyStream: _providerFireBaseFirstTime up to its     *)
(* await.  Cancelling delivers nothing more, so the slot is free at once;  *)
(* the field keeps pointing at the cancelled subscription, and cancelling  *)
(* that again does nothing, which is NoSub.  Without a user, user.id       *)
(* throws after oldKey was assigned and no load is started.                *)
(***************************************************************************)
CancelledNothing == task  \* mutant: cancel() forgotten

Cancelled == [s \in Slots |-> IF s = sub THEN FreeTask ELSE task[s]]

OnChatKey(c) ==
  \/ /\ c = chatKey
     /\ UNCHANGED <<chatKey, sub, task, races>>
  \/ /\ c # chatKey
     /\ chatKey' = c
     /\ sub' = NoSub
     /\ races' = races \union {r \in {"switch"} : LoadInFlight \/ PageInFlight}
     /\ \/ /\ signedIn
           /\ \E s \in Slots :
                /\ Cancelled[s].phase = "free"
                /\ task' = [Cancelled EXCEPT ![s] =
                     [FreeTask EXCEPT !.phase = "asked", !.chat = c]]
        \/ /\ ~signedIn
           /\ task' = Cancelled

\* The post-frame callback of initState: the stream replays its latest value.
PostFrame ==
  /\ status = "building"
  /\ status' = "listening"
  /\ IF chatKeyStream = NoKey
     THEN UNCHANGED <<chatKey, sub, task, races>>
     ELSE OnChatKey(chatKeyStream)
  /\ UNCHANGED <<db, chatKeyStream, signedIn, messages, lastMessageKey, page>>

\* ChatItem.onTap and ProductDetailScreen publish the conversation to open.
\* What is published after dispose concerns the next State object.
Select(c) ==
  /\ status # "disposed"
  /\ chatKeyStream' = c
  /\ IF status = "listening"
     THEN OnChatKey(c)
     ELSE UNCHANGED <<chatKey, sub, task, races>>
  /\ UNCHANGED <<db, status, signedIn, messages, lastMessageKey, page>>

-----------------------------------------------------------------------------
(***************************************************************************)
(* _listenToChatFirstTime: once() is answered, and its continuation runs   *)
(* together with _providerRealTime, which overwrites the subscription.     *)
(***************************************************************************)
AnswerLoad(s) ==
  /\ task[s].phase = "asked"
  /\ task' = [task EXCEPT ![s] = [@ EXCEPT
       !.phase = "answered",
       !.keys = LimitToLast(stored[task[s].chat], FirstLimit)]]
  /\ UNCHANGED <<db, chatKeyStream, widget, page, races>>

ShowFirstUncleared(keys) ==  \* mutant: messages.clear() forgotten
  /\ \E chat \in SortedLists(keys \ Newest(keys)) : messages' = messages \o chat
  /\ lastMessageKey' = IF messages' = <<>> THEN 0 ELSE messages'[1]
  /\ UNCHANGED races

ShowFirstWithNewest(keys) ==  \* mutant: removeLast() forgotten
  /\ messages' \in SortedLists(keys)
  /\ lastMessageKey' = IF messages' = <<>> THEN 0 ELSE messages'[1]
  /\ UNCHANGED races

\* A null answer empties the list and leaves _lastMessageKey as it was.
ShowFirst(keys) ==
  \/ /\ keys # {}
     /\ messages' \in SortedLists(keys \ Newest(keys))
     /\ lastMessageKey' = IF messages' = <<>> THEN 0 ELSE messages'[1]
     /\ UNCHANGED races
  \/ /\ keys = {}
     /\ messages' = <<>>
     /\ UNCHANGED lastMessageKey
     /\ races' = races \union {r \in {"stale"} : lastMessageKey # 0}

CompleteLoadNoListen(s) ==  \* mutant: a null answer starts no subscription
  /\ task[s].phase = "answered"
  /\ ShowFirst(task[s].keys)
  /\ IF task[s].keys = {}
     THEN task' = [task EXCEPT ![s] = FreeTask] /\ UNCHANGED sub
     ELSE task' = [task EXCEPT ![s] = [@ EXCEPT !.phase = "subscribing", !.keys = {}]] /\ sub' = s
  /\ UNCHANGED <<db, chatKeyStream, status, signedIn, chatKey, page>>

\* After dispose, adding to the closed _messageStream throws: no subscription.
CompleteLoad(s) ==
  /\ task[s].phase = "answered"
  /\ \/ /\ status # "disposed"
        /\ ShowFirst(task[s].keys)
        /\ sub' = s
        /\ task' = [task EXCEPT ![s] = [@ EXCEPT !.phase = "subscribing", !.keys = {}]]
     \/ /\ status = "disposed"
        /\ task' = [task EXCEPT ![s] = FreeTask]
        /\ UNCHANGED <<messages, lastMessageKey, sub, races>>
  /\ UNCHANGED <<db, chatKeyStream, status, signedIn, chatKey, page>>

ListenFirst(s) ==  \* mutant: limitToFirst(1)
  /\ task[s].phase = "subscribing"
  /\ \/ /\ stored[task[s].chat] = {}
        /\ task' = [task EXCEPT ![s].phase = "live"]
     \/ \E k \in stored[task[s].chat] :
          /\ \A j \in stored[task[s].chat] : k <= j
          /\ task' = [task EXCEPT ![s] = [@ EXCEPT !.phase = "live", !.queue = <<k>>]]
  /\ UNCHANGED <<db, chatKeyStream, widget, page, races>>

\* The server registers limitToLast(1).onChildAdded and reports the newest child.
Listen(s) ==
  /\ task[s].phase = "subscribing"
  /\ \/ /\ stored[task[s].chat] = {}
        /\ task' = [task EXCEPT ![s].phase = "live"]
     \/ \E k \in Newest(stored[task[s].chat]) :
          task' = [task EXCEPT ![s] = [@ EXCEPT !.phase = "live", !.queue = <<k>>]]
  /\ UNCHANGED <<db, chatKeyStream, widget, page, races>>

DeliverTrimming(s) ==  \* mutant: the list never grows beyond FirstLimit
  /\ task[s].phase = "live"
  /\ task[s].queue # <<>>
  /\ task' = [task EXCEPT ![s].queue = Tail(@)]
  /\ messages' = Append(IF Len(messages) < FirstLimit THEN messages ELSE Tail(messages),
                        Head(task[s].queue))
  /\ UNCHANGED <<db, chatKeyStream, status, signedIn, chatKey,
                 lastMessageKey, sub, page, races>>

DeliverUnmounted(s) ==  \* mutant: a handler that needs no mounted context
  /\ task[s].phase = "live"
  /\ task[s].queue # <<>>
  /\ task' = [task EXCEPT ![s].queue = Tail(@)]
  /\ messages' = Append(messages, Head(task[s].queue))
  /\ lastSeen' = [lastSeen EXCEPT ![chatKey] = Head(task[s].queue)]
  /\ UNCHANGED <<stored, chatKeyStream, status, signedIn, chatKey,
                 lastMessageKey, sub, page, races>>

(***************************************************************************)
(* _listenToRealTimeChat: show the message, then mark it as seen in the    *)
(* conversation _chatKey names.  After dispose the lookup of the provider  *)
(* throws first; without a user, user.id throws after the list has grown.  *)
(***************************************************************************)
Deliver(s) ==
  /\ task[s].phase = "live"
  /\ task[s].queue # <<>>
  /\ task' = [task EXCEPT ![s].queue = Tail(@)]
  /\ messages' = IF status = "disposed" THEN messages
                 ELSE Append(messages, Head(task[s].queue))
  /\ lastSeen' = IF status # "disposed" /\ signedIn
                 THEN [lastSeen EXCEPT ![chatKey] = Head(task[s].queue)]
                 ELSE lastSeen
  /\ UNCHANGED <<stored, chatKeyStream, status, signedIn, chatKey,
                 lastMessageKey, sub, page, races>>

-----------------------------------------------------------------------------
(***************************************************************************)
(* _scrollListener and _listenToPreviousChat.  The query is built from     *)
(* _chatKey and _lastMessageKey when the top edge is reached.              *)
(***************************************************************************)
ScrollTop(p) ==
  /\ status = "listening"
  /\ messages # <<>>
  /\ page[p].phase = "idle"
  /\ page' = [page EXCEPT ![p] = [phase |-> "asked", chat |-> chatKey,
                                  end |-> lastMessageKey, keys |-> {}]]
  /\ races' = races \union {r \in {"overlap"} : LoadInFlight \/ PageInFlight}
  /\ UNCHANGED <<db, chatKeyStream, widget, task>>

AnswerPageFromStart(p) ==  \* mutant: limitToFirst instead of limitToLast
  /\ page[p].phase = "asked"
  /\ page' = [page EXCEPT
       ![p].phase = "answered",
       ![p].keys = {k \in EndAt(stored[page[p].chat], page[p].end) :
          Cardinality(EndAt(stored[page[p].chat], k)) <= PageLimit}]
  /\ UNCHANGED <<db, chatKeyStream, widget, task, races>>

AnswerPage(p) ==
  /\ page[p].phase = "asked"
  /\ page' = [page EXCEPT ![p] = [@ EXCEPT
       !.phase = "answered",
       !.keys = LimitToLast(EndAt(stored[page[p].chat], page[p].end), PageLimit)]]
  /\ UNCHANGED <<db, chatKeyStream, widget, task, races>>

\* The last element is dropped as already shown; chat[0] of what is left throws
\* when nothing is, and so does the cast of a null answer.
CompletePage(p) ==
  LET older == page[p].keys \ Newest(page[p].keys)
  IN  /\ page[p].phase = "answered"
      /\ page' = [page EXCEPT ![p] = IdlePage]
      /\ \/ /\ older = {} \/ status = "disposed"
            /\ UNCHANGED <<messages, lastMessageKey>>
         \/ /\ older # {} /\ status # "disposed"
            /\ \E chat \in SortedLists(older) :
                 /\ lastMessageKey' = chat[1]
                 /\ messages' = chat \o messages
      /\ UNCHANGED <<db, chatKeyStream, status, signedIn, chatKey, sub, task, races>>

-----------------------------------------------------------------------------
\* dispose: the latest subscription and chatkeySubscription are cancelled.  No
\* one can read the list of a disposed State any more, so it is dropped here.
Dispose ==
  /\ status # "disposed"
  /\ status' = "disposed"
  /\ sub' = NoSub
  /\ task' = Cancelled
  /\ messages' = <<>>
  /\ lastMessageKey' = 0
  /\ UNCHANGED <<db, chatKeyStream, signedIn, chatKey, page, races>>

\* AccountTab.logout clears the UserProvider before the routes are replaced.
Logout ==
  /\ signedIn
  /\ signedIn' = FALSE
  /\ UNCHANGED <<db, chatKeyStream, status, chatKey, messages, lastMessageKey,
                 sub, task, page, races>>

Client ==
  \/ PostFrame
  \/ \E c \in Chats : Select(c)
  \/ \E s \in Slots : CompleteLoad(s) \/ Deliver(s)
  \/ \E p \in PageSlots : ScrollTop(p) \/ CompletePage(p)
  \/ Dispose
  \/ Logout

Server ==
  \/ \E c \in Chats, k \in Keys : Arrive(c, k)
  \/ \E s \in Slots : AnswerLoad(s) \/ Listen(s)
  \/ \E p \in PageSlots : AnswerPage(p)

Next == Client \/ Server

Spec == Init /\ [][Next]_vars

(***************************************************************************)
(* Every request is answered, every continuation runs and every event is   *)
(* delivered; nothing is assumed of users and of other clients.            *)
(***************************************************************************)
Fairness ==
  /\ WF_vars(PostFrame)
  /\ \A s \in Slots : /\ WF_vars(AnswerLoad(s))
                      /\ WF_vars(CompleteLoad(s))
                      /\ WF_vars(Listen(s))
                      /\ WF_vars(Deliver(s))

FairSpec == Spec /\ Fairness

-----------------------------------------------------------------------------
TypeOK ==
  /\ stored \in [Chats -> SUBSET Keys]
  /\ lastSeen \in [Chats -> Keys \union {0}]
  /\ chatKeyStream \in Chats \union {NoKey}
  /\ status \in {"building", "listening", "disposed"}
  /\ signedIn \in BOOLEAN
  /\ chatKey \in Chats \union {NoKey}
  /\ messages \in Seq(Keys)
  /\ lastMessageKey \in Keys \union {0}
  /\ sub \in Slots \union {NoSub}
  /\ task \in [Slots -> Tasks]
  /\ page \in [PageSlots -> Pages]
  /\ races \subseteq RaceKinds

(***************************************************************************)
(* Once a conversation's first load has been applied, the window holds     *)
(* messages of that conversation only, unless the user at some time moved  *)
(* to another conversation while a load or a page was still in flight:     *)
(* the unchecked continuations of _providerFireBaseFirstTime and           *)
(* _listenToPreviousChat are the only way in for foreign messages.         *)
(***************************************************************************)
OnlyThisChat ==
  "switch" \notin races /\ sub # NoSub => Shown \subseteq stored[chatKey]

(***************************************************************************)
(* The window is in key order without repetitions: dropping the newest     *)
(* message of the first load exactly balances the subscription's initial   *)
(* event, and dropping the last of a page exactly balances endAt.  Only    *)
(* overlapping requests, or a _lastMessageKey left over from another       *)
(* conversation, can break that.                                           *)
(***************************************************************************)
ShownInOrder ==
  races \intersect {"switch", "overlap", "stale"} = {} /\ sub # NoSub =>
    \A i, j \in DOMAIN messages : i < j => messages[i] < messages[j]

(***************************************************************************)
(* Without any overlap the window misses nothing: with the events on their *)
(* way it holds the newest FirstLimit messages, and everything younger     *)
(* than its oldest message.  A left-over _lastMessageKey is harmless here. *)
(***************************************************************************)
NothingMissing ==
  races \subseteq {"stale"} /\ sub # NoSub =>
    LET coming == IF task[sub].phase = "live" THEN Queued(sub)
                  ELSE Newest(stored[chatKey])
        all    == Shown \union coming
    IN  /\ LimitToLast(stored[chatKey], FirstLimit) \subseteq all
        /\ \A k \in stored[chatKey], j \in all : j < k => k \in all

(***************************************************************************)
(* The seen marker that decides about the unread badge always names a      *)
(* message of its own conversation: _listenToRealTimeChat writes the       *)
(* subscription's key under whatever _chatKey is by then, and cancelling   *)
(* the subscription on every switch is what keeps the two together.        *)
(***************************************************************************)
SeenBelongs ==
  "switch" \notin races =>
    \A c \in Chats : lastSeen[c] \in stored[c] \union {0}

(***************************************************************************)
(* The seen marker never moves back to an older message, even when the     *)
(* conversation is closed and opened again: what was read stays read.      *)
(***************************************************************************)
SeenNeverGoesBack ==
  [][("switch" \notin races) => \A c \in Chats : lastSeen'[c] >= lastSeen[c]]_vars

(***************************************************************************)
(* A widget that was disposed of, or whose user has logged out, never      *)
(* marks anything as seen, even though leaked subscriptions and late loads *)
(* keep calling it.                                                        *)
(***************************************************************************)
NoSeenAfterTheEnd ==
  [][(status = "disposed" \/ ~signedIn) => UNCHANGED lastSeen]_vars

(***************************************************************************)
(* A conversation that stays open is eventually subscribed to, and its     *)
(* newest message is then on screen and marked as seen.                    *)
(***************************************************************************)
CaughtUp ==
  /\ sub # NoSub
  /\ task[sub].phase = "live"
  /\ Newest(stored[chatKey]) \subseteq Shown
  /\ \A k \in Newest(stored[chatKey]) : lastSeen[chatKey] = k

EventuallyCaughtUp ==
  \A c \in Chats :
    (status = "listening" /\ signedIn /\ chatKey = c) ~>
      \/ CaughtUp
      \/ chatKey # c \/ "switch" \in races
      \/ status = "disposed" \/ ~signedIn
=============================================================================
