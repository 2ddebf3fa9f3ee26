-------------------------- MODULE ChatWindowProofs --------------------------
(***************************************************************************)
(* Proofs about ChatWindow, for any set of conversations, any number of    *)
(* messages, and any number of loads, subscriptions and pages in flight.   *)
(***************************************************************************)
EXTENDS ChatWindowRefinement, FiniteSetTheorems, SequenceTheorems,
        WellFoundedInduction, TLAPS

(***************************************************************************)
(* Any set of message keys is finite.                                      *)
(***************************************************************************)
LEMMA KeysFinite ==
  ASSUME NEW S \in SUBSET Keys
  PROVE  /\ Cardinality(S) \in Nat
         /\ Cardinality(S) = 0 <=> S = {}
<1>1. IsFiniteSet(Keys)
  BY FS_Interval, ChatWindowAssumption DEF Keys
<1>2. IsFiniteSet(S)
  BY <1>1, FS_Subset
<1> QED
  BY <1>2, FS_CardinalityType, FS_EmptySet

(***************************************************************************)
(* The list an answer is sorted into is a sequence over the answer, and    *)
(* has a first element unless the answer is empty.                         *)
(***************************************************************************)
LEMMA SortedListsSeq ==
  ASSUME NEW S \in SUBSET Keys, NEW s \in SortedLists(S)
  PROVE  /\ s \in Seq(S)
         /\ s \in Seq(Keys)
         /\ s # <<>> => s[1] \in S
         /\ S # {} => s[1] \in S
<1>1. s \in [1..Cardinality(S) -> S] /\ Cardinality(S) \in Nat
  BY KeysFinite DEF SortedLists
<1>2. s \in Seq(S)
  BY <1>1, IsASeq
<1>3. S # {} => 1 \in 1..Cardinality(S)
  BY <1>1, KeysFinite
<1>4. s # <<>> => S # {}
  BY <1>1, <1>2, KeysFinite
<1> QED
  BY <1>1, <1>2, <1>3, <1>4, SeqMonotonic

\* Every answer of a query is part of what was queried.
LEMMA AnswersAreStored ==
  \A S, n : /\ Newest(S) \subseteq S
            /\ LimitToLast(S, n) \subseteq S
            /\ LimitToLast(EndAt(S, n), PageLimit) \subseteq S
BY DEF Newest, LimitToLast, EndAt

\* A conversation that is being loaded, subscribed to, paged or shown exists.
Opened ==
  /\ \A s \in Slots : task[s].phase # "free" =>
       task[s].chat \in Chats /\ chatKey \in Chats
  /\ \A p \in PageSlots : page[p].phase # "idle" =>
       page[p].chat \in Chats /\ chatKey \in Chats
  /\ messages # <<>> => chatKey \in Chats

TypeInv == TypeOK /\ Opened

LEMMA TypeInit == Init => TypeInv
BY ChatWindowAssumption, EmptySeq
DEF Init, TypeInv, TypeOK, Opened, Tasks, Pages, FreeTask, IdlePage, Phases, RaceKinds

(***************************************************************************)
(* One lemma per group of actions: a step keeps the types.                 *)
(***************************************************************************)
LEMMA TypeOnChatKey ==
  ASSUME TypeInv, NEW c \in Chats, OnChatKey(c)
  PROVE  /\ chatKey' \in Chats
         /\ sub' \in Slots \union {NoSub}
         /\ task' \in [Slots -> Tasks]
         /\ races' \subseteq RaceKinds
         /\ \A s \in Slots : task'[s].phase # "free" => task'[s].chat \in Chats
<1> USE DEF TypeInv, TypeOK, Opened, RaceKinds
<1>1. FreeTask \in Tasks
  BY EmptySeq DEF FreeTask, Tasks, Phases
<1>2. Cancelled \in [Slots -> Tasks]
  BY <1>1 DEF Cancelled
<1>3. \A s \in Slots : Cancelled[s].phase # "free" => Cancelled[s].chat \in Chats
  BY DEF Cancelled, FreeTask
<1>4. [FreeTask EXCEPT !.phase = "asked", !.chat = c] \in Tasks
  BY EmptySeq DEF FreeTask, Tasks, Phases
<1>5. CASE c = chatKey /\ UNCHANGED <<chatKey, sub, task, races>>
  BY <1>5
<1>6. CASE c # chatKey
  <2>1. chatKey' = c /\ sub' = NoSub /\ races' \subseteq RaceKinds
    BY <1>6 DEF OnChatKey
  <2>2. CASE signedIn
    <3>1. PICK s \in Slots :
            task' = [Cancelled EXCEPT ![s] =
                       [FreeTask EXCEPT !.phase = "asked", !.chat = c]]
      BY <1>6, <2>2 DEF OnChatKey
    <3>2. task' \in [Slots -> Tasks]
      BY <3>1, <1>2, <1>4
    <3>3. \A t \in Slots : task'[t].phase # "free" => task'[t].chat \in Chats
      BY <3>1, <1>2, <1>3 DEF FreeTask
    <3> QED
      BY <2>1, <3>2, <3>3
  <2>3. CASE ~signedIn
    BY <2>1, <2>3, <1>2, <1>3, <1>6 DEF OnChatKey
  <2> QED
    BY <2>2, <2>3
<1> QED
  BY <1>5, <1>6 DEF OnChatKey

LEMMA TypeArrive ==
  ASSUME TypeInv, NEW c \in Chats, NEW k \in Keys, Arrive(c, k)
  PROVE  TypeInv'
<1> USE DEF TypeInv, TypeOK, Opened, RaceKinds
<1>1. stored' \in [Chats -> SUBSET Keys]
  BY DEF Arrive
<1>2. ASSUME NEW s \in Slots
      PROVE  task'[s] \in Tasks /\ task'[s].phase = task[s].phase
                                /\ task'[s].chat = task[s].chat
  <2>1. Append(task[s].queue, k) \in Seq(Keys)
    BY AppendProperties DEF Tasks
  <2>2. [task[s] EXCEPT !.queue = Append(@, k)] \in Tasks
    BY <2>1 DEF Tasks
  <2> QED
    BY <2>2 DEF Arrive, Tasks
<1>3. task' \in [Slots -> Tasks]
  BY <1>2 DEF Arrive
<1>4. races' \subseteq RaceKinds
  BY DEF Arrive
<1>5. UNCHANGED <<lastSeen, chatKeyStream, status, signedIn, chatKey, messages,
                  lastMessageKey, sub, page>>
  BY DEF Arrive, widget
<1> QED
  BY <1>1, <1>2, <1>3, <1>4, <1>5

LEMMA QueueUpdate ==
  ASSUME NEW t \in Tasks, NEW q \in Seq(Keys)
  PROVE  /\ [t EXCEPT !.queue = q] \in Tasks
         /\ [t EXCEPT !.queue = q].chat = t.chat
         /\ [t EXCEPT !.queue = q].phase = t.phase
         /\ [t EXCEPT !.queue = q].keys = t.keys
         /\ [t EXCEPT !.queue = q].queue = q
BY DEF Tasks

LEMMA TaskUpdate ==
  ASSUME TypeInv, NEW s \in Slots, NEW r \in Tasks,
         r.phase # "free" => r.chat \in Chats,
         task' = [task EXCEPT ![s] = r]
  PROVE  /\ task' \in [Slots -> Tasks]
         /\ \A t \in Slots : task'[t].phase # "free" => task'[t].chat \in Chats
BY DEF TypeInv, TypeOK, Opened

LEMMA TypeLoad ==
  ASSUME TypeInv, NEW s \in Slots,
         AnswerLoad(s) \/ CompleteLoad(s) \/ Listen(s) \/ Deliver(s)
  PROVE  TypeInv'
<1> USE DEF TypeInv, TypeOK, Opened, RaceKinds
<1>1. CASE AnswerLoad(s)
  <2>1. LimitToLast(stored[task[s].chat], FirstLimit) \in SUBSET Keys
    BY <1>1, AnswersAreStored DEF AnswerLoad
  <2> DEFINE r == [task[s] EXCEPT
                     !.phase = "answered",
                     !.keys = LimitToLast(stored[task[s].chat], FirstLimit)]
  <2>2. r \in Tasks /\ r.chat \in Chats
    BY <1>1, <2>1 DEF AnswerLoad, Tasks, Phases
  <2>3. /\ task' \in [Slots -> Tasks]
        /\ \A t \in Slots : task'[t].phase # "free" => task'[t].chat \in Chats
    BY <1>1, <2>2, TaskUpdate DEF AnswerLoad
  <2>4. chatKey \in Chats
    BY <1>1 DEF AnswerLoad
  <2> QED
    BY <1>1, <2>3, <2>4 DEF AnswerLoad, db, widget
<1>2. CASE CompleteLoad(s)
  <2> DEFINE r == [task[s] EXCEPT !.phase = "subscribing", !.keys = {}]
  <2>0. FreeTask \in Tasks /\ FreeTask.phase = "free"
    BY EmptySeq DEF FreeTask, Tasks, Phases
  <2>1. r \in Tasks /\ r.chat \in Chats /\ sub' \in Slots \union {NoSub}
    <3>1. task[s] \in Tasks /\ task[s].chat \in Chats
      BY <1>2 DEF CompleteLoad
    <3>2. r \in Tasks /\ r.chat = task[s].chat
      BY <3>1 DEF Tasks, Phases
    <3>3. sub' \in Slots \union {NoSub}
      BY <1>2 DEF CompleteLoad
    <3> QED
      BY <3>1, <3>2, <3>3
  <2>2. /\ task' \in [Slots -> Tasks]
        /\ \A t \in Slots : task'[t].phase # "free" => task'[t].chat \in Chats
    <3>1. CASE task' = [task EXCEPT ![s] = r]
      BY <2>1, <3>1, TaskUpdate
    <3>2. CASE task' = [task EXCEPT ![s] = FreeTask]
      BY <2>0, <3>2, TaskUpdate
    <3> QED
      BY <1>2, <3>1, <3>2 DEF CompleteLoad
  <2>3. /\ messages' \in Seq(Keys)
        /\ lastMessageKey' \in Keys \union {0}
        /\ races' \subseteq RaceKinds
    <3>1. CASE status = "disposed"
      BY <1>2, <3>1 DEF CompleteLoad
    <3>2. CASE status # "disposed" /\ task[s].keys = {}
      <4>1. messages' = <<>> /\ UNCHANGED lastMessageKey /\ races' \subseteq RaceKinds
        BY <1>2, <3>2 DEF CompleteLoad, ShowFirst
      <4> QED
        BY <4>1, EmptySeq
    <3>3. CASE status # "disposed" /\ task[s].keys # {}
      <4> DEFINE S == task[s].keys \ Newest(task[s].keys)
      <4>1. S \in SUBSET Keys
        BY DEF Tasks
      <4>2. messages' \in SortedLists(S)
        BY <1>2, <3>3 DEF CompleteLoad, ShowFirst
      <4>3. messages' \in Seq(Keys) /\ (messages' # <<>> => messages'[1] \in Keys)
        BY <4>1, <4>2, SortedListsSeq
      <4> QED
        BY <1>2, <3>3, <4>3 DEF CompleteLoad, ShowFirst
    <3> QED
      BY <3>1, <3>2, <3>3
  <2>4. chatKey \in Chats
    BY <1>2 DEF CompleteLoad
  <2> QED
    BY <1>2, <2>1, <2>2, <2>3, <2>4 DEF CompleteLoad, db
<1>3. CASE Listen(s)
  <2>1. task[s].chat \in Chats
    BY <1>3 DEF Listen
  <2>2. [task[s] EXCEPT !.phase = "live"] \in Tasks
    BY DEF Tasks, Phases
  <2>3. /\ task' \in [Slots -> Tasks]
        /\ \A t \in Slots : task'[t].phase # "free" => task'[t].chat \in Chats
    <3>1. CASE task' = [task EXCEPT ![s].phase = "live"]
      <4> DEFINE r == [task[s] EXCEPT !.phase = "live"]
      <4>1. r.chat \in Chats /\ task' = [task EXCEPT ![s] = r]
        BY <2>1, <3>1 DEF Tasks
      <4> HIDE DEF r
      <4> QED
        BY <2>2, <4>1, TaskUpdate DEF r
    <3>2. ASSUME NEW k \in Newest(stored[task[s].chat]),
                 task' = [task EXCEPT ![s] =
                            [@ EXCEPT !.phase = "live", !.queue = <<k>>]]
          PROVE  /\ task' \in [Slots -> Tasks]
                 /\ \A t \in Slots : task'[t].phase # "free" =>
                                         task'[t].chat \in Chats
      <4> DEFINE r == [task[s] EXCEPT !.phase = "live", !.queue = <<k>>]
      <4>1. k \in Keys
        BY <2>1, AnswersAreStored
      <4>2. <<k>> \in Seq(Keys)
        BY <4>1
      <4>3. r \in Tasks /\ r.chat \in Chats
        BY <2>1, <4>2 DEF Tasks, Phases
      <4> QED
        BY <3>2, <4>3, TaskUpdate
    <3> QED
      BY <1>3, <3>1, <3>2 DEF Listen
  <2>4. chatKey \in Chats
    BY <1>3 DEF Listen
  <2> QED
    BY <1>3, <2>3, <2>4 DEF Listen, db, widget
<1>4. CASE Deliver(s)
  <2>1. /\ Head(task[s].queue) \in Keys
        /\ Tail(task[s].queue) \in Seq(Keys)
    BY <1>4, HeadTailProperties DEF Deliver, Tasks
  <2> DEFINE r == [task[s] EXCEPT !.queue = Tail(@)]
  <2>2. r \in Tasks /\ r.chat \in Chats
    <3>1. task[s] \in Tasks /\ task[s].chat \in Chats
      BY <1>4 DEF Deliver
    <3> QED
      BY <2>1, <3>1, QueueUpdate
  <2>3. /\ task' \in [Slots -> Tasks]
        /\ \A t \in Slots : task'[t].phase # "free" => task'[t].chat \in Chats
    BY <1>4, <2>2, TaskUpdate DEF Deliver
  <2>4. messages' \in Seq(Keys)
    BY <1>4, <2>1, AppendProperties DEF Deliver
  <2>5. lastSeen' \in [Chats -> Keys \union {0}]
    BY <1>4, <2>1 DEF Deliver
  <2>6. chatKey \in Chats
    BY <1>4 DEF Deliver
  <2> QED
    BY <1>4, <2>3, <2>4, <2>5, <2>6 DEF Deliver
<1> QED
  BY <1>1, <1>2, <1>3, <1>4

LEMMA TypePage ==
  ASSUME TypeInv, NEW p \in PageSlots,
         ScrollTop(p) \/ AnswerPage(p) \/ CompletePage(p)
  PROVE  TypeInv'
<1> USE DEF TypeInv, TypeOK, Opened, RaceKinds
<1>1. CASE ScrollTop(p)
  <2>1. page' \in [PageSlots -> Pages] /\ races' \subseteq RaceKinds
    BY <1>1 DEF ScrollTop, Pages
  <2>2. \A q \in PageSlots : page'[q].phase # "idle" => page'[q].chat \in Chats
    BY <1>1 DEF ScrollTop
  <2> QED
    BY <1>1, <2>1, <2>2 DEF ScrollTop, db, widget
<1>2. CASE AnswerPage(p)
  <2>1. LimitToLast(EndAt(stored[page[p].chat], page[p].end), PageLimit)
          \in SUBSET Keys
    BY <1>2, AnswersAreStored DEF AnswerPage
  <2> DEFINE r == [page[p] EXCEPT
                     !.phase = "answered",
                     !.keys = LimitToLast(EndAt(stored[page[p].chat], page[p].end),
                                          PageLimit)]
  <2>0. r \in Pages
    BY <1>2, <2>1 DEF AnswerPage, Pages
  <2>2. page' \in [PageSlots -> Pages]
    BY <1>2, <2>0 DEF AnswerPage
  <2>3. \A q \in PageSlots : page'[q].phase # "idle" => page'[q].chat \in Chats
    BY <1>2 DEF AnswerPage, Pages
  <2> QED
    BY <1>2, <2>2, <2>3 DEF AnswerPage, db, widget
<1>3. CASE CompletePage(p)
  <2> DEFINE S == page[p].keys \ Newest(page[p].keys)
  <2>1. S \in SUBSET Keys
    BY DEF Pages
  <2>2. page' \in [PageSlots -> Pages]
    BY <1>3 DEF CompletePage, Pages, IdlePage
  <2>3. \A q \in PageSlots : page'[q].phase # "idle" => page'[q].chat \in Chats
    BY <1>3 DEF CompletePage, IdlePage
  <2>4. /\ messages' \in Seq(Keys)
        /\ lastMessageKey' \in Keys \union {0}
        /\ messages' # <<>> => chatKey \in Chats
    <3>1. CASE UNCHANGED <<messages, lastMessageKey>>
      BY <3>1
    <3>2. CASE ~UNCHANGED <<messages, lastMessageKey>>
      <4>1. PICK chat \in SortedLists(S) :
              /\ S # {}
              /\ lastMessageKey' = chat[1]
              /\ messages' = chat \o messages
        BY <1>3, <3>2 DEF CompletePage
      <4>2. chat \in Seq(Keys) /\ chat[1] \in Keys
        BY <2>1, <4>1, SortedListsSeq
      <4>3. messages' \in Seq(Keys)
        BY <4>1, <4>2, ConcatProperties
      <4>4. chatKey \in Chats
        BY <1>3 DEF CompletePage
      <4> QED
        BY <4>1, <4>2, <4>3, <4>4
    <3> QED
      BY <3>1, <3>2
  <2> QED
    BY <1>3, <2>2, <2>3, <2>4 DEF CompletePage, db
<1> QED
  BY <1>1, <1>2, <1>3
LEMMA TypeNext == TypeInv /\ [Next]_vars => TypeInv'
<1> SUFFICES ASSUME TypeInv, [Next]_vars
             PROVE  TypeInv'
  OBVIOUS
<1> USE DEF TypeInv
<1>1. CASE PostFrame
  <2>1. CASE chatKeyStream = NoKey
    BY <1>1, <2>1 DEF PostFrame, TypeOK, Opened, db
  <2>2. CASE chatKeyStream # NoKey
    <3>1. chatKeyStream \in Chats /\ OnChatKey(chatKeyStream)
      BY <1>1, <2>2 DEF PostFrame, TypeOK
    <3> QED
      BY <1>1, <3>1, TypeOnChatKey DEF PostFrame, TypeOK, Opened, db
  <2> QED
    BY <2>1, <2>2
<1>2. ASSUME NEW c \in Chats, Select(c)
      PROVE  TypeInv'
  <2>1. CASE status = "listening"
    <3>1. OnChatKey(c)
      BY <1>2, <2>1 DEF Select
    <3> QED
      BY <1>2, <3>1, TypeOnChatKey DEF Select, TypeOK, Opened, db
  <2>2. CASE status # "listening"
    BY <1>2, <2>2 DEF Select, TypeOK, Opened, db
  <2> QED
    BY <2>1, <2>2
<1>3. CASE Dispose
  <2>1. task' \in [Slots -> Tasks]
    BY <1>3, EmptySeq DEF Dispose, Cancelled, FreeTask, Tasks, Phases, TypeOK
  <2>2. \A t \in Slots : task'[t].phase # "free" =>
          task'[t].chat \in Chats /\ chatKey \in Chats
    BY <1>3 DEF Dispose, Cancelled, FreeTask, Opened
  <2>3. messages' = <<>> /\ messages' \in Seq(Keys)
    BY <1>3, EmptySeq DEF Dispose
  <2> QED
    BY <1>3, <2>1, <2>2, <2>3 DEF Dispose, TypeOK, Opened, db
<1>4. CASE Logout
  BY <1>4 DEF Logout, TypeOK, Opened, db
<1>5. CASE UNCHANGED vars
  BY <1>5 DEF vars, TypeOK, Opened
<1> QED
  BY <1>1, <1>2, <1>3, <1>4, <1>5, TypeArrive, TypeLoad, TypePage
  DEF Next, Client, Server

(***************************************************************************)
(* Every variable of the widget and of the database keeps its type.        *)
(***************************************************************************)
THEOREM TypeCorrect == Spec => []TypeOK
<1>1. TypeInv => TypeOK
  BY DEF TypeInv
<1> QED
  BY <1>1, TypeInit, TypeNext, PTL DEF Spec
-----------------------------------------------------------------------------
(***************************************************************************)
(* What travels stays with its conversation: the keys of an answer and of  *)
(* queued events are stored in the conversation they were asked of.        *)
(***************************************************************************)
Contents ==
  /\ \A s \in Slots : task[s].phase # "free" =>
       /\ task[s].keys \subseteq stored[task[s].chat]
       /\ task[s].queue \in Seq(stored[task[s].chat])
  /\ \A p \in PageSlots : page[p].phase # "idle" =>
       page[p].keys \subseteq stored[page[p].chat]

(***************************************************************************)
(* Without a switch during a request, everything in flight belongs to the  *)
(* open conversation, a load excludes every other activity, and the field  *)
(* _onNoteAddedSubscription knows the only subscription.                   *)
(***************************************************************************)
Alone ==
  /\ \A s \in Slots : task[s].phase # "free" => task[s].chat = chatKey
  /\ \A s \in Slots : task[s].phase \in {"subscribing", "live"} => s = sub
  /\ \A s \in Slots : task[s].phase \in {"asked", "answered"} =>
       sub = NoSub /\ \A t \in Slots \ {s} : task[t].phase = "free"
  /\ \A p \in PageSlots : page[p].phase # "idle" => page[p].chat = chatKey

Belonging ==
  /\ sub # NoSub => messages \in Seq(stored[chatKey])
  /\ \A c \in Chats : lastSeen[c] \in stored[c] \union {0}

SwitchInv ==
  /\ TypeInv
  /\ Contents
  /\ "switch" \notin races => Alone /\ Belonging

LEMMA SwitchInit == Init => SwitchInv
BY TypeInit
DEF Init, SwitchInv, Contents, Alone, Belonging, FreeTask, IdlePage

LEMMA SwitchOnChatKey ==
  ASSUME SwitchInv, NEW c \in Chats, OnChatKey(c),
         UNCHANGED <<stored, lastSeen, messages, page>>
  PROVE  Contents' /\ ("switch" \notin races' => Alone' /\ Belonging')
<1> USE DEF SwitchInv
<1>1. CASE c = chatKey /\ UNCHANGED <<chatKey, sub, task, races>>
  BY <1>1 DEF Contents, Alone, Belonging
<1>2. CASE c # chatKey
  <2>1. /\ chatKey' = c
        /\ sub' = NoSub
        /\ "switch" \notin races' =>
             "switch" \notin races /\ ~LoadInFlight /\ ~PageInFlight
    BY <1>2 DEF OnChatKey
  <2>2. \A s \in Slots : Cancelled[s] = task[s] \/ Cancelled[s] = FreeTask
    BY DEF Cancelled
  <2>3. "switch" \notin races' => \A s \in Slots : Cancelled[s].phase = "free"
    <3> SUFFICES ASSUME "switch" \notin races', NEW s \in Slots
                 PROVE  Cancelled[s].phase = "free"
      OBVIOUS
    <3>1. task[s].phase \in {"free", "subscribing", "live"}
      BY <2>1 DEF LoadInFlight, TypeInv, TypeOK, Tasks, Phases
    <3>2. CASE task[s].phase = "free"
      BY <3>2, <2>2 DEF FreeTask
    <3>3. CASE task[s].phase # "free"
      BY <3>1, <3>3, <2>1 DEF Alone, Cancelled, FreeTask
    <3> QED
      BY <3>2, <3>3
  <2>4. "switch" \notin races' => \A p \in PageSlots : page[p].phase = "idle"
    BY <2>1 DEF PageInFlight
  <2>5. "switch" \notin races' => Belonging'
    BY <2>1 DEF Belonging
  <2>6. CASE signedIn
    <3> DEFINE r == [FreeTask EXCEPT !.phase = "asked", !.chat = c]
    <3>1. PICK s \in Slots : task' = [Cancelled EXCEPT ![s] = r]
      BY <1>2, <2>6 DEF OnChatKey
    <3>2. r.phase = "asked" /\ r.chat = c /\ r.keys = {} /\ r.queue = <<>>
      BY DEF FreeTask
    <3>3. \A t \in Slots : task'[t] = IF t = s THEN r ELSE Cancelled[t]
      BY <3>1 DEF Cancelled
    <3> HIDE DEF r
    <3>4. Contents'
      <4> SUFFICES ASSUME NEW t \in Slots, task'[t].phase # "free"
                   PROVE  /\ task'[t].keys \subseteq stored[task'[t].chat]
                          /\ task'[t].queue \in Seq(stored[task'[t].chat])
        BY DEF Contents
      <4>0. <<>> \in Seq(stored[c])
        BY EmptySeq
      <4>1. CASE t = s
        BY <4>0, <4>1, <3>2, <3>3
      <4>2. CASE t # s
        BY <4>2, <3>3, <2>2 DEF Contents, FreeTask
      <4> QED
        BY <4>1, <4>2
    <3>5. "switch" \notin races' => Alone'
      BY <2>1, <2>3, <2>4, <3>2, <3>3 DEF Alone
    <3> QED
      BY <2>5, <3>4, <3>5
  <2>7. CASE ~signedIn
    <3>1. task' = Cancelled
      BY <1>2, <2>7 DEF OnChatKey
    <3>2. Contents'
      BY <3>1, <2>2 DEF Contents, FreeTask
    <3>3. "switch" \notin races' => Alone'
      BY <3>1, <2>1, <2>3, <2>4 DEF Alone
    <3> QED
      BY <2>5, <3>2, <3>3
  <2> QED
    BY <2>6, <2>7
<1> QED
  BY <1>1, <1>2 DEF OnChatKey
LEMMA SwitchArrive ==
  ASSUME SwitchInv, NEW c \in Chats, NEW k \in Keys, Arrive(c, k)
  PROVE  Contents' /\ ("switch" \notin races' => Alone' /\ Belonging')
<1> USE DEF SwitchInv
<1>1. \A d \in Chats : stored[d] \subseteq stored'[d]
  BY DEF Arrive, TypeInv, TypeOK
<1>2. k \in stored'[c]
  BY DEF Arrive, TypeInv, TypeOK
<1>3. ASSUME NEW s \in Slots
      PROVE  /\ task'[s].phase = task[s].phase
             /\ task'[s].chat = task[s].chat
             /\ task'[s].keys = task[s].keys
             /\ \/ task'[s].queue = task[s].queue
                \/ task[s].chat = c /\ task'[s].queue = Append(task[s].queue, k)
  <2>1. task[s] \in Tasks /\ Append(task[s].queue, k) \in Seq(Keys)
    BY AppendProperties DEF TypeInv, TypeOK, Tasks
  <2>2. task'[s] = task[s] \/
          (task[s].chat = c /\ task'[s] = [task[s] EXCEPT !.queue = Append(@, k)])
    BY DEF Arrive
  <2> DEFINE q == Append(task[s].queue, k)
  <2>3. CASE task'[s] = task[s]
    BY <2>3
  <2>4. CASE task[s].chat = c /\ task'[s] = [task[s] EXCEPT !.queue = q]
    <3> HIDE DEF q
    <3>1. q \in Seq(Keys)
      BY <2>1 DEF q
    <3>2. /\ task'[s].phase = task[s].phase
          /\ task'[s].chat = task[s].chat
          /\ task'[s].keys = task[s].keys
          /\ task'[s].queue = q
      BY <2>1, <2>4, <3>1, QueueUpdate
    <3> QED
      BY <2>4, <3>2 DEF q
  <2> QED
    BY <2>2, <2>3, <2>4
<1>4. Contents'
  <2>1. ASSUME NEW s \in Slots, task'[s].phase # "free"
        PROVE  /\ task'[s].keys \subseteq stored'[task'[s].chat]
               /\ task'[s].queue \in Seq(stored'[task'[s].chat])
    <3>1. /\ task[s].chat \in Chats
          /\ task[s].keys \subseteq stored[task[s].chat]
          /\ task[s].queue \in Seq(stored[task[s].chat])
      BY <2>1, <1>3 DEF TypeInv, Opened, Contents
    <3>2. task[s].queue \in Seq(stored'[task[s].chat])
      BY <3>1, <1>1, SeqMonotonic
    <3>3. task[s].chat = c => Append(task[s].queue, k) \in Seq(stored'[c])
      BY <3>2, <1>2, AppendProperties
    <3> QED
      BY <3>1, <3>2, <3>3, <1>1, <1>3
  <2>2. page' = page
    BY DEF Arrive
  <2> QED
    BY <2>1, <2>2, <1>1 DEF Contents, TypeInv, Opened
<1>5. "switch" \notin races' => "switch" \notin races
  BY DEF Arrive
<1>6. "switch" \notin races' => Alone'
  BY <1>3, <1>5 DEF Alone, Arrive, widget
<1>7. "switch" \notin races' => Belonging'
  <2> SUFFICES ASSUME "switch" \notin races
               PROVE  Belonging'
    BY <1>5
  <2>1. sub # NoSub => messages \in Seq(stored'[chatKey])
    <3>1. CASE chatKey \in Chats
      BY <3>1, <1>1, SeqMonotonic DEF Belonging
    <3>2. CASE chatKey \notin Chats
      BY <3>2, EmptySeq DEF TypeInv, Opened
    <3> QED
      BY <3>1, <3>2
  <2> QED
    BY <2>1, <1>1 DEF Belonging, Arrive, widget
<1> QED
  BY <1>4, <1>6, <1>7

LEMMA SwitchLoad ==
  ASSUME SwitchInv, NEW s \in Slots,
         AnswerLoad(s) \/ CompleteLoad(s) \/ Listen(s) \/ Deliver(s)
  PROVE  Contents' /\ ("switch" \notin races' => Alone' /\ Belonging')
<1> USE DEF SwitchInv
<1>0. /\ task \in [Slots -> Tasks] /\ task[s] \in Tasks
      /\ task[s].chat \in Chats /\ task[s].chat # NoKey
      /\ task[s].keys \subseteq stored[task[s].chat]
      /\ task[s].queue \in Seq(stored[task[s].chat])
  BY ChatWindowAssumption
  DEF AnswerLoad, CompleteLoad, Listen, Deliver, TypeInv, TypeOK, Opened, Contents
<1>1. CASE AnswerLoad(s)
  <2> DEFINE a == LimitToLast(stored[task[s].chat], FirstLimit)
             r == [task[s] EXCEPT !.phase = "answered", !.keys = a]
  <2>1. a \subseteq stored[task[s].chat]
    BY AnswersAreStored
  <2> HIDE DEF a
  <2>2. /\ r.phase = "answered" /\ r.chat = task[s].chat
        /\ r.keys = a /\ r.queue = task[s].queue
    BY <1>0 DEF Tasks
  <2>3. task' = [task EXCEPT ![s] = r]
    BY <1>1 DEF AnswerLoad, a
  <2> HIDE DEF r
  <2>4. \A t \in Slots : task'[t] = IF t = s THEN r ELSE task[t]
    BY <2>3, <1>0
  <2>5. task[s].phase = "asked" /\ UNCHANGED <<db, widget, page, races>>
    BY <1>1 DEF AnswerLoad
  <2>6. Contents'
    BY <2>1, <2>2, <2>4, <2>5, <1>0 DEF Contents, db
  <2>7. "switch" \notin races => Alone'
    BY <2>2, <2>4, <2>5 DEF Alone, widget
  <2> QED
    BY <2>5, <2>6, <2>7 DEF Belonging, db, widget
<1>2. CASE CompleteLoad(s)
  <2>1. /\ task[s].phase = "answered"
        /\ UNCHANGED <<stored, lastSeen, chatKey, page>>
        /\ "switch" \notin races' => "switch" \notin races
    BY <1>2 DEF CompleteLoad, ShowFirst, db
  <2>2. CASE status # "disposed"
    <3> DEFINE r == [task[s] EXCEPT !.phase = "subscribing", !.keys = {}]
               S == task[s].keys \ Newest(task[s].keys)
    <3>1. /\ r.phase = "subscribing" /\ r.chat = task[s].chat
          /\ r.keys = {} /\ r.queue = task[s].queue
      BY <1>0 DEF Tasks
    <3>2. task' = [task EXCEPT ![s] = r] /\ sub' = s
      BY <1>2, <2>2 DEF CompleteLoad
    <3> HIDE DEF r
    <3>3. \A t \in Slots : task'[t] = IF t = s THEN r ELSE task[t]
      BY <3>2, <1>0
    <3>4. Contents'
      BY <3>1, <3>3, <2>1, <1>0 DEF Contents
    <3>5. messages' \in Seq(stored[task[s].chat])
      <4>1. CASE task[s].keys = {}
        <5>1. messages' = <<>>
          BY <1>2, <2>2, <4>1 DEF CompleteLoad, ShowFirst
        <5> QED
          BY <5>1, EmptySeq
      <4>2. CASE task[s].keys # {}
        <5>1. S \in SUBSET Keys /\ S \subseteq stored[task[s].chat]
          BY <1>0 DEF Tasks
        <5>2. messages' \in SortedLists(S)
          BY <1>2, <2>2, <4>2 DEF CompleteLoad, ShowFirst
        <5>3. messages' \in Seq(S)
          BY <5>1, <5>2, SortedListsSeq
        <5> QED
          BY <5>1, <5>3, SeqMonotonic
      <4> QED
        BY <4>1, <4>2
    <3>6. "switch" \notin races => Alone'
      BY <2>1, <3>1, <3>2, <3>3 DEF Alone
    <3>7. "switch" \notin races => Belonging'
      BY <2>1, <3>5 DEF Alone, Belonging
    <3> QED
      BY <2>1, <3>4, <3>6, <3>7
  <2>3. CASE status = "disposed"
    <3>1. task' = [task EXCEPT ![s] = FreeTask] /\ UNCHANGED <<messages, sub>>
      BY <1>2, <2>3 DEF CompleteLoad
    <3>2. \A t \in Slots : task'[t] = IF t = s THEN FreeTask ELSE task[t]
      BY <3>1, <1>0
    <3>3. Contents'
      BY <3>2, <2>1 DEF Contents, FreeTask
    <3>4. "switch" \notin races => Alone' /\ Belonging'
      BY <3>1, <3>2, <2>1 DEF Alone, Belonging, FreeTask
    <3> QED
      BY <2>1, <3>3, <3>4
  <2> QED
    BY <2>2, <2>3
<1>3. CASE Listen(s)
  <2>1. /\ task[s].phase = "subscribing"
        /\ UNCHANGED <<stored, lastSeen, chatKey, messages, sub, page, races>>
    BY <1>3 DEF Listen, db, widget
  <2>2. PICK r \in Tasks :
          /\ \A t \in Slots : task'[t] = IF t = s THEN r ELSE task[t]
          /\ r.phase = "live" /\ r.chat = task[s].chat /\ r.keys = task[s].keys
          /\ r.queue \in Seq(stored[task[s].chat])
    <3>1. CASE task' = [task EXCEPT ![s].phase = "live"]
      <4> DEFINE r == [task[s] EXCEPT !.phase = "live"]
      <4>1. /\ r \in Tasks /\ r.phase = "live" /\ r.chat = task[s].chat
            /\ r.keys = task[s].keys /\ r.queue = task[s].queue
        BY <1>0 DEF Tasks, Phases
      <4>2. \A t \in Slots : task'[t] = IF t = s THEN r ELSE task[t]
        BY <3>1, <1>0
      <4> HIDE DEF r
      <4> QED
        BY <4>1, <4>2, <1>0
    <3>2. ASSUME NEW k \in Newest(stored[task[s].chat]),
                 task' = [task EXCEPT ![s] =
                            [@ EXCEPT !.phase = "live", !.queue = <<k>>]]
          PROVE  \E r \in Tasks :
            /\ \A t \in Slots : task'[t] = IF t = s THEN r ELSE task[t]
            /\ r.phase = "live" /\ r.chat = task[s].chat /\ r.keys = task[s].keys
            /\ r.queue \in Seq(stored[task[s].chat])
      <4> DEFINE r == [task[s] EXCEPT !.phase = "live", !.queue = <<k>>]
      <4>1. k \in stored[task[s].chat] /\ k \in Keys
        BY <1>0, AnswersAreStored DEF TypeInv, TypeOK
      <4>2. <<k>> \in Seq(stored[task[s].chat]) /\ <<k>> \in Seq(Keys)
        BY <4>1
      <4>3. /\ r \in Tasks /\ r.phase = "live" /\ r.chat = task[s].chat
            /\ r.keys = task[s].keys /\ r.queue = <<k>>
        BY <1>0, <4>2 DEF Tasks, Phases
      <4>4. \A t \in Slots : task'[t] = IF t = s THEN r ELSE task[t]
        BY <3>2, <1>0
      <4> HIDE DEF r
      <4> QED
        BY <4>2, <4>3, <4>4
    <3> QED
      BY <1>3, <3>1, <3>2 DEF Listen
  <2>3. Contents'
    BY <2>1, <2>2, <1>0 DEF Contents
  <2>4. "switch" \notin races => Alone'
    BY <2>1, <2>2 DEF Alone
  <2> QED
    BY <2>1, <2>3, <2>4 DEF Belonging
<1>4. CASE Deliver(s)
  <2>1. /\ task[s].phase = "live" /\ task[s].queue # <<>>
        /\ UNCHANGED <<stored, chatKey, sub, page, races>>
    BY <1>4 DEF Deliver
  <2> DEFINE q == Tail(task[s].queue)
             k == Head(task[s].queue)
             r == [task[s] EXCEPT !.queue = q]
  <2>2. /\ k \in stored[task[s].chat]
        /\ q \in Seq(stored[task[s].chat])
        /\ q \in Seq(Keys)
    BY <2>1, <1>0, HeadTailProperties DEF Tasks
  <2>3. /\ r.phase = "live" /\ r.chat = task[s].chat
        /\ r.keys = task[s].keys /\ r.queue = q
    BY <2>1, <2>2, <1>0, QueueUpdate
  <2>4. \A t \in Slots : task'[t] = IF t = s THEN r ELSE task[t]
    BY <1>4, <1>0 DEF Deliver
  <2>5. messages' = messages \/ messages' = Append(messages, k)
    BY <1>4 DEF Deliver
  <2>6. lastSeen' = lastSeen \/ lastSeen' = [lastSeen EXCEPT ![chatKey] = k]
    BY <1>4 DEF Deliver
  <2> HIDE DEF r, q, k
  <2>7. Contents'
    BY <2>1, <2>2, <2>3, <2>4, <1>0 DEF Contents
  <2>8. "switch" \notin races => Alone'
    BY <2>1, <2>3, <2>4 DEF Alone
  <2>9. "switch" \notin races => Belonging'
    <3> SUFFICES ASSUME "switch" \notin races
                 PROVE  Belonging'
      OBVIOUS
    <3>1. s = sub /\ sub # NoSub /\ task[s].chat = chatKey
      BY <2>1, ChatWindowAssumption DEF Alone
    <3>2. messages' \in Seq(stored[chatKey])
      <4>1. messages \in Seq(stored[chatKey]) /\ k \in stored[chatKey]
        BY <3>1, <2>2 DEF Belonging
      <4>2. Append(messages, k) \in Seq(stored[chatKey])
        BY <4>1, AppendProperties
      <4> QED
        BY <4>1, <4>2, <2>5
    <3>3. \A c \in Chats : lastSeen'[c] \in stored[c] \union {0}
      BY <3>1, <2>2, <2>6 DEF Belonging, TypeInv, TypeOK
    <3> QED
      BY <3>2, <3>3, <2>1 DEF Belonging
  <2> QED
    BY <2>1, <2>7, <2>8, <2>9
<1> QED
  BY <1>1, <1>2, <1>3, <1>4

LEMMA SwitchPage ==
  ASSUME SwitchInv, NEW p \in PageSlots,
         ScrollTop(p) \/ AnswerPage(p) \/ CompletePage(p)
  PROVE  Contents' /\ ("switch" \notin races' => Alone' /\ Belonging')
<1> USE DEF SwitchInv
<1>0. page \in [PageSlots -> Pages] /\ page[p] \in Pages
  BY DEF TypeInv, TypeOK
<1>1. CASE ScrollTop(p)
  <2>1. /\ UNCHANGED <<stored, lastSeen, chatKey, messages, sub, task>>
        /\ "switch" \notin races' => "switch" \notin races
        /\ \A q \in PageSlots : page'[q] =
             IF q = p THEN [phase |-> "asked", chat |-> chatKey,
                            end |-> lastMessageKey, keys |-> {}]
             ELSE page[q]
    BY <1>0, <1>1 DEF ScrollTop, db, widget
  <2>2. Contents'
    BY <2>1 DEF Contents
  <2>3. "switch" \notin races => Alone' /\ Belonging'
    BY <2>1 DEF Alone, Belonging
  <2> QED
    BY <2>1, <2>2, <2>3
<1>2. CASE AnswerPage(p)
  <2> DEFINE a == LimitToLast(EndAt(stored[page[p].chat], page[p].end), PageLimit)
             r == [page[p] EXCEPT !.phase = "answered", !.keys = a]
  <2>1. a \subseteq stored[page[p].chat]
    BY AnswersAreStored
  <2> HIDE DEF a
  <2>2. r.phase = "answered" /\ r.chat = page[p].chat /\ r.keys = a
    BY <1>0 DEF Pages
  <2>3. page' = [page EXCEPT ![p] = r]
    BY <1>2 DEF AnswerPage, a
  <2> HIDE DEF r
  <2>4. \A q \in PageSlots : page'[q] = IF q = p THEN r ELSE page[q]
    BY <2>3, <1>0
  <2>5. /\ page[p].phase = "asked"
        /\ UNCHANGED <<stored, lastSeen, chatKey, messages, sub, task, races>>
    BY <1>2 DEF AnswerPage, db, widget
  <2>6. Contents'
    BY <2>1, <2>2, <2>4, <2>5 DEF Contents
  <2>7. "switch" \notin races => Alone' /\ Belonging'
    BY <2>2, <2>4, <2>5 DEF Alone, Belonging
  <2> QED
    BY <2>5, <2>6, <2>7
<1>3. CASE CompletePage(p)
  <2> DEFINE S == page[p].keys \ Newest(page[p].keys)
  <2>1. /\ page[p].phase = "answered"
        /\ UNCHANGED <<stored, lastSeen, chatKey, sub, task, races>>
        /\ \A q \in PageSlots : page'[q] = IF q = p THEN IdlePage ELSE page[q]
    BY <1>0, <1>3 DEF CompletePage, db
  <2>2. Contents'
    BY <2>1 DEF Contents, IdlePage
  <2>3. "switch" \notin races => Alone'
    BY <2>1 DEF Alone, IdlePage
  <2>4. ASSUME "switch" \notin races, sub # NoSub
        PROVE  messages' \in Seq(stored[chatKey])
    <3>1. CASE UNCHANGED messages
      BY <2>4, <3>1 DEF Belonging
    <3>2. CASE ~UNCHANGED messages
      <4>1. PICK chat \in SortedLists(S) : messages' = chat \o messages
        BY <1>3, <3>2 DEF CompletePage
      <4>2. S \in SUBSET Keys /\ S \subseteq stored[chatKey]
        BY <1>0, <2>1, <2>4 DEF Pages, Contents, Alone
      <4>3. chat \in Seq(S)
        BY <4>2, SortedListsSeq
      <4>4. chat \in Seq(stored[chatKey])
        BY <4>2, <4>3, SeqMonotonic
      <4> QED
        BY <4>1, <4>4, <2>4, ConcatProperties DEF Belonging
    <3> QED
      BY <3>1, <3>2
  <2> QED
    BY <2>1, <2>2, <2>3, <2>4 DEF Belonging
<1> QED
  BY <1>1, <1>2, <1>3

LEMMA SwitchNext == SwitchInv /\ [Next]_vars => SwitchInv'
<1> SUFFICES ASSUME SwitchInv, [Next]_vars
             PROVE  SwitchInv'
  OBVIOUS
<1>0. TypeInv'
  BY TypeNext DEF SwitchInv
<1> SUFFICES Contents' /\ ("switch" \notin races' => Alone' /\ Belonging')
  BY <1>0 DEF SwitchInv
<1>1. CASE PostFrame
  <2>1. CASE chatKeyStream = NoKey
    BY <1>1, <2>1 DEF PostFrame, SwitchInv, Contents, Alone, Belonging, db
  <2>2. CASE chatKeyStream # NoKey
    <3>1. /\ chatKeyStream \in Chats /\ OnChatKey(chatKeyStream)
          /\ UNCHANGED <<stored, lastSeen, messages, page>>
      BY <1>1, <2>2 DEF PostFrame, SwitchInv, TypeInv, TypeOK, db
    <3> QED
      BY <3>1, SwitchOnChatKey
  <2> QED
    BY <2>1, <2>2
<1>2. ASSUME NEW c \in Chats, Select(c)
      PROVE  Contents' /\ ("switch" \notin races' => Alone' /\ Belonging')
  <2>1. CASE status = "listening"
    BY <1>2, <2>1, SwitchOnChatKey DEF Select, db
  <2>2. CASE status # "listening"
    BY <1>2, <2>2 DEF Select, SwitchInv, Contents, Alone, Belonging, db
  <2> QED
    BY <2>1, <2>2
<1>3. CASE Dispose
  <2>1. \A s \in Slots : task'[s] = IF s = sub THEN FreeTask ELSE task[s]
    BY <1>3 DEF Dispose, Cancelled
  <2>2. sub' = NoSub /\ UNCHANGED <<stored, lastSeen, chatKey, page, races>>
    BY <1>3 DEF Dispose, db
  <2>3. Contents'
    BY <2>1, <2>2 DEF SwitchInv, Contents, FreeTask
  <2>4. "switch" \notin races => Alone' /\ Belonging'
    BY <2>1, <2>2 DEF SwitchInv, Alone, Belonging, FreeTask
  <2> QED
    BY <2>2, <2>3, <2>4
<1>4. CASE Logout
  BY <1>4 DEF Logout, SwitchInv, Contents, Alone, Belonging, db
<1>5. CASE UNCHANGED vars
  BY <1>5 DEF vars, SwitchInv, Contents, Alone, Belonging
<1> QED
  BY <1>1, <1>2, <1>3, <1>4, <1>5, SwitchArrive, SwitchLoad, SwitchPage
  DEF Next, Client, Server

(***************************************************************************)
(* A foreign message can only enter the window through a change of         *)
(* conversation during a load or a page: _providerFireBaseFirstTime's      *)
(* cancel-before-load keeps everything else apart.                         *)
(***************************************************************************)
THEOREM WindowIsolation == Spec => []OnlyThisChat
<1>1. SwitchInv => OnlyThisChat
  <2> SUFFICES ASSUME SwitchInv, "switch" \notin races, sub # NoSub,
                      NEW i \in DOMAIN messages
               PROVE  messages[i] \in stored[chatKey]
    BY DEF OnlyThisChat, Shown
  <2>1. messages \in Seq(stored[chatKey])
    BY DEF SwitchInv, Belonging
  <2> QED
    BY <2>1, LenProperties, ElementOfSeq
<1> QED
  BY <1>1, SwitchInit, SwitchNext, PTL DEF Spec

(***************************************************************************)
(* The seen marker of _listenToRealTimeChat names a message of the         *)
(* conversation it is stored in, unless that kind of race has happened.    *)
(***************************************************************************)
THEOREM SeenMarkerBelongs == Spec => []SeenBelongs
<1>1. SwitchInv => SeenBelongs
  BY DEF SwitchInv, Belonging, SeenBelongs
<1> QED
  BY <1>1, SwitchInit, SwitchNext, PTL DEF Spec

(***************************************************************************)
(* A disposed or signed-out widget never writes the seen marker.           *)
(***************************************************************************)
THEOREM SeenMarkerRests == Spec => NoSeenAfterTheEnd
<1>1. [Next]_vars =>
        [(status = "disposed" \/ ~signedIn) => UNCHANGED lastSeen]_vars
  BY DEF Next, Client, Server, PostFrame, Select, CompleteLoad, Deliver, ScrollTop,
         CompletePage, Dispose, Logout, Arrive, AnswerLoad, Listen, AnswerPage,
         vars, db
<1> QED
  BY <1>1, PTL DEF Spec, NoSeenAfterTheEnd

-----------------------------------------------------------------------------
(***************************************************************************)
(* The order of the window, and that nothing is missing in it.             *)
(***************************************************************************)
Increasing(s) == \A i, j \in DOMAIN s : i < j => s[i] < s[j]

(***************************************************************************)
(* A subscription's events are queued in key order and only while it is    *)
(* live; the field names a subscription that was made and not cancelled,   *)
(* and none after dispose; a page ends where it was asked to end.          *)
(***************************************************************************)
Queues ==
  /\ \A s \in Slots : task[s].phase # "live" => task[s].queue = <<>>
  /\ \A s \in Slots : Increasing(task[s].queue)
  /\ sub # NoSub => task[sub].phase \in {"subscribing", "live"}
  /\ status = "disposed" => sub = NoSub
  /\ \A p \in PageSlots : page[p].phase = "answered" =>
       \A k \in page[p].keys : k <= page[p].end

\* What is still to be delivered is not older than what is marked as seen.
Unseen ==
  \A s \in Slots : task[s].phase = "live" =>
    \A i \in DOMAIN task[s].queue : lastSeen[chatKey] <= task[s].queue[i]

\* One request at a time, and the page was asked for above what is shown now.
OneRequest ==
  /\ LoadInFlight => ~PageInFlight
  /\ \A p, q \in PageSlots : page[p].phase # "idle" /\ page[q].phase # "idle" => p = q
  /\ sub # NoSub => \A p \in PageSlots : page[p].phase # "idle" =>
                      page[p].end = lastMessageKey

(***************************************************************************)
(* The window is in order, starts with _lastMessageKey once that is set,   *)
(* and is older than everything the subscription will still bring.         *)
(***************************************************************************)
Ordered ==
  /\ Increasing(messages)
  /\ lastMessageKey # 0 => messages # <<>> /\ lastMessageKey = messages[1]
  /\ task[sub].phase = "subscribing" =>
       \A i \in DOMAIN messages : \E k \in stored[chatKey] : messages[i] < k
  /\ task[sub].phase = "live" =>
       \A i \in DOMAIN messages, j \in DOMAIN task[sub].queue :
         messages[i] < task[sub].queue[j]

\* What the subscription will still bring, and with it all there is to see.
Coming == IF task[sub].phase = "live" THEN Queued(sub) ELSE Newest(stored[chatKey])
Known  == Shown \union Coming

\* Only a conversation that was empty can have changed since its first load.
LoadIsRecent ==
  \A s \in Slots : task[s].phase = "answered" =>
    \/ task[s].keys = LimitToLast(stored[task[s].chat], FirstLimit)
    \/ task[s].keys = {} /\ \E k \in Keys : stored[task[s].chat] = {k}

(***************************************************************************)
(* Everything younger than something known is known.  If _lastMessageKey   *)
(* is left over from another conversation, this one was empty when it was  *)
(* opened, and then all of it is known.                                    *)
(***************************************************************************)
Gapless ==
  /\ LimitToLast(stored[chatKey], FirstLimit) \subseteq Known
  /\ \A k \in stored[chatKey], j \in Known : j < k => k \in Known
  /\ \/ lastMessageKey = 0
     \/ lastMessageKey \in Shown
     \/ stored[chatKey] \subseteq Known
  /\ \A p \in PageSlots : page[p].phase = "answered" =>
       \/ page[p].end = 0
       \/ stored[chatKey] \subseteq Known
       \/ /\ page[p].end \in Shown
          /\ page[p].keys = LimitToLast(EndAt(stored[chatKey], page[p].end), PageLimit)

Unbroken ==
  /\ Queues
  /\ "switch" \notin races => Unseen
  /\ races \intersect {"switch", "overlap"} = {} => OneRequest
  /\ races \intersect {"switch", "overlap", "stale"} = {} /\ sub # NoSub => Ordered
  /\ races \subseteq {"stale"} => LoadIsRecent
  /\ races \subseteq {"stale"} /\ sub # NoSub => Gapless

WindowInv == SwitchInv /\ Unbroken

-----------------------------------------------------------------------------
\* A set of keys that is not empty has a newest one, and only one.
LEMMA NewestExists ==
  ASSUME NEW S \in SUBSET Keys, S # {}
  PROVE  \E k \in S : Newest(S) = {k}
<1> DEFINE T == {MaxKey - k : k \in S}
           R == OpToRel(<, Nat)
<1>1. \A k \in S : k \in Nat /\ MaxKey - k \in Nat
  BY ChatWindowAssumption DEF Keys
<1>2. T \subseteq Nat /\ T # {}
  BY <1>1
<1>3. PICK x \in T : \A y \in T : ~(<<y, x>> \in R)
  BY <1>2, NatLessThanWellFounded, WFMin, Zenon
<1>4. \A y \in T : ~(y < x)
  BY <1>2, <1>3 DEF OpToRel
<1>5. PICK k \in S : x = MaxKey - k
  OBVIOUS
<1>6. \A j \in S : j <= k
  <2> SUFFICES ASSUME NEW j \in S PROVE j <= k
    OBVIOUS
  <2>1. MaxKey - j \in T
    OBVIOUS
  <2>2. ~(MaxKey - j < MaxKey - k)
    BY <1>4, <1>5, <2>1
  <2>3. QED
    BY <1>1, <2>2, ChatWindowAssumption
<1>7. ASSUME NEW m \in Newest(S) PROVE m = k
  <2>1. m \in S /\ k <= m /\ m <= k
    BY <1>6 DEF Newest
  <2>2. QED
    BY <1>1, <2>1
<1>8. k \in Newest(S)
  BY <1>6 DEF Newest
<1>9. QED
  BY <1>7, <1>8

\* What limitToLast returns: the newest keys, with none left out in between.
LEMMA LastKeys ==
  ASSUME NEW S \in SUBSET Keys, NEW n \in Nat \ {0}
  PROVE  /\ LimitToLast(S, n) \subseteq S
         /\ Newest(S) \subseteq LimitToLast(S, n)
         /\ \A k \in S, j \in LimitToLast(S, n) : j < k => k \in LimitToLast(S, n)
         /\ LimitToLast(S, n) = {} => S = {}
         /\ Newest(LimitToLast(S, n)) = Newest(S)
<1> DEFINE Younger(k) == {j \in S : j > k}
           A == LimitToLast(S, n)
<1>0. \A k \in S : k \in Nat
  BY DEF Keys
<1>1. A = {k \in S : Cardinality(Younger(k)) < n}
  BY DEF LimitToLast
<1>2. \A k : Younger(k) \in SUBSET Keys
  OBVIOUS
<1>3. Newest(S) \subseteq A
  <2> SUFFICES ASSUME NEW k \in Newest(S) PROVE k \in A
    OBVIOUS
  <2>1. k \in S /\ \A j \in S : j <= k
    BY DEF Newest
  <2>2. Younger(k) = {}
    BY <1>0, <2>1
  <2>3. Cardinality(Younger(k)) = 0
    BY <2>2, FS_EmptySet
  <2>4. QED
    BY <1>1, <2>1, <2>3
<1>4. ASSUME NEW k \in S, NEW j \in A, j < k PROVE k \in A
  <2>1. Younger(k) \subseteq Younger(j)
    BY <1>0, <1>1, <1>4
  <2>2. IsFiniteSet(Younger(j))
    <3>1. IsFiniteSet(Keys)
      BY FS_Interval, ChatWindowAssumption DEF Keys
    <3>2. QED
      BY <1>2, <3>1, FS_Subset
  <2>3. /\ Cardinality(Younger(k)) \in Nat /\ Cardinality(Younger(j)) \in Nat
        /\ Cardinality(Younger(k)) <= Cardinality(Younger(j))
    BY <1>2, <2>1, <2>2, FS_Subset, KeysFinite
  <2>4. Cardinality(Younger(j)) < n
    BY <1>1
  <2> HIDE DEF Younger
  <2>5. Cardinality(Younger(k)) < n
    BY <2>3, <2>4
  <2>6. QED
    BY <1>1, <2>5
<1> HIDE DEF A
<1>5. A \subseteq S
  BY <1>1
<1>6. A = {} => S = {}
  BY <1>3, NewestExists
<1>7. Newest(A) = Newest(S)
  <2>1. ASSUME NEW k \in Newest(S) PROVE k \in Newest(A)
    BY <1>3, <1>5 DEF Newest
  <2>2. ASSUME NEW k \in Newest(A) PROVE k \in Newest(S)
    <3>1. k \in A /\ k \in S /\ \A j \in A : j <= k
      BY <1>5 DEF Newest
    <3>2. ASSUME NEW j \in S, ~(j <= k) PROVE FALSE
      <4>1. k < j
        BY <1>0, <3>1, <3>2
      <4>2. j \in A
        BY <1>4, <3>1, <4>1
      <4>3. QED
        BY <3>1, <3>2, <4>2
    <3>3. QED
      BY <3>1, <3>2 DEF Newest
  <2>3. QED
    BY <2>1, <2>2
<1>8. QED
  BY <1>3, <1>4, <1>5, <1>6, <1>7 DEF A

\* A younger key can push older ones out of the last n, never bring one in.
LEMMA LastKeysGrow ==
  ASSUME NEW S \in SUBSET Keys, NEW k \in Keys, NEW n \in Nat \ {0}
  PROVE  LimitToLast(S \union {k}, n) \subseteq LimitToLast(S, n) \union {k}
<1> SUFFICES ASSUME NEW x \in LimitToLast(S \union {k}, n), x # k
             PROVE  x \in LimitToLast(S, n)
  OBVIOUS
<1> DEFINE U == {j \in S \union {k} : j > x}
           V == {j \in S : j > x}
<1>1. x \in S /\ Cardinality(U) < n
  BY DEF LimitToLast
<1>2. V \subseteq U /\ U \in SUBSET Keys /\ V \in SUBSET Keys
  OBVIOUS
<1>3. IsFiniteSet(U)
  <2>1. IsFiniteSet(Keys)
    BY FS_Interval, ChatWindowAssumption DEF Keys
  <2>2. QED
    BY <1>2, <2>1, FS_Subset
<1>4. Cardinality(V) <= Cardinality(U) /\ Cardinality(U) \in Nat /\ Cardinality(V) \in Nat
  BY <1>2, <1>3, FS_Subset, KeysFinite
<1> HIDE DEF U
<1>5. Cardinality(V) < n
  BY <1>1, <1>4
<1>6. QED
  BY <1>1, <1>5 DEF LimitToLast

\* The list a result is sorted into is in order and has all of the result.
LEMMA SortedListsAll ==
  ASSUME NEW S \in SUBSET Keys, NEW s \in SortedLists(S)
  PROVE  /\ Increasing(s)
         /\ DOMAIN s = 1..Len(s) /\ Len(s) \in Nat
         /\ {s[i] : i \in DOMAIN s} = S
         /\ S # {} => 1 \in DOMAIN s
<1>1. /\ s \in [1..Cardinality(S) -> S] /\ Cardinality(S) \in Nat
      /\ \A i, j \in 1..Cardinality(S) : i < j => s[i] < s[j]
  BY KeysFinite DEF SortedLists
<1>2. Increasing(s)
  BY <1>1 DEF Increasing
<1>3. s \in Seq(S)
  BY SortedListsSeq
<1>4. DOMAIN s = 1..Len(s) /\ Len(s) \in Nat
  BY <1>3, LenProperties
<1>5. \A k \in S : k \in Nat
  BY DEF Keys
<1>6. s \in Injection(1..Cardinality(S), S)
  <2>1. ASSUME NEW i \in 1..Cardinality(S), NEW j \in 1..Cardinality(S), s[i] = s[j]
        PROVE  i = j
    <3>1. ~(i < j) /\ ~(j < i)
      BY <1>1, <1>5, <2>1
    <3>2. QED
      BY <1>1, <3>1
  <2>2. QED
    BY <1>1, <2>1 DEF Injection, IsInjective
<1>7. IsFiniteSet(S) /\ Cardinality(1..Cardinality(S)) = Cardinality(S)
  <2>1. IsFiniteSet(Keys)
    BY FS_Interval, ChatWindowAssumption DEF Keys
  <2>2. IsFiniteSet(S)
    BY <2>1, FS_Subset
  <2>3. Cardinality(1..Cardinality(S)) = IF 1 > Cardinality(S) THEN 0 ELSE Cardinality(S) - 1 + 1
    BY <1>1, FS_Interval
  <2>4. QED
    BY <1>1, <2>2, <2>3
<1>8. s \in Surjection(1..Cardinality(S), S)
  BY <1>6, <1>7, FS_Injection
<1>9. {s[i] : i \in DOMAIN s} = S
  BY <1>1, <1>8 DEF Surjection
<1>10. S # {} => 1 \in DOMAIN s
  BY <1>1, KeysFinite
<1>11. QED
  BY <1>2, <1>4, <1>9, <1>10

\* A message is added below, the first event is taken, a page is put on top.
LEMMA AppendOrder ==
  ASSUME NEW S \in SUBSET Int, NEW s \in Seq(S), NEW k \in S
  PROVE  /\ Append(s, k) \in Seq(S)
         /\ Range(Append(s, k)) = Range(s) \union {k}
         /\ s # <<>> => Append(s, k)[1] = s[1]
         /\ \A i \in DOMAIN Append(s, k) : Append(s, k)[i] = k \/
              (i \in DOMAIN s /\ Append(s, k)[i] = s[i])
         /\ Increasing(s) /\ (\A i \in DOMAIN s : s[i] < k) => Increasing(Append(s, k))
<1>1. PICK t \in Seq(S), n \in Nat :
        /\ t = Append(s, k) /\ n = Len(s) /\ DOMAIN s = 1..n /\ DOMAIN t = 1..(n + 1)
        /\ t \in Seq(S) /\ (\A i \in 1..n : t[i] = s[i]) /\ t[n + 1] = k
  <2>1. /\ Append(s, k) \in Seq(S) /\ Len(Append(s, k)) = Len(s) + 1
        /\ \A i \in 1..Len(s) : Append(s, k)[i] = s[i]
        /\ Append(s, k)[Len(s) + 1] = k
    BY AppendProperties
  <2>2. Len(s) \in Nat /\ DOMAIN s = 1..Len(s) /\ DOMAIN Append(s, k) = 1..(Len(s) + 1)
    BY <2>1, LenProperties
  <2>3. QED
    BY <2>1, <2>2
<1>2. \A i \in 1..(n + 1) : i \in 1..n \/ i = n + 1
  OBVIOUS
<1>3. \A i \in 1..n : i \in 1..(n + 1)
  OBVIOUS
<1>4. n + 1 \in 1..(n + 1)
  OBVIOUS
<1>5. Range(t) = Range(s) \union {k}
  BY <1>1, <1>2, <1>3, <1>4 DEF Range
<1>6. \A i \in 1..n : s[i] \in S /\ s[i] \in Int
  BY <1>1, ElementOfSeq
<1>7. ASSUME Increasing(s), \A i \in DOMAIN s : s[i] < k,
             NEW i \in DOMAIN t, NEW j \in DOMAIN t, i < j
      PROVE  t[i] < t[j]
  <2>1. i \in 1..n
    BY <1>1, <1>7
  <2>2. CASE j \in 1..n
    BY <1>1, <1>7, <2>1, <2>2 DEF Increasing
  <2>3. CASE j = n + 1
    BY <1>1, <1>7, <2>1, <2>3
  <2>4. QED
    BY <1>1, <1>2, <2>2, <2>3
<1>8. s # <<>> => t[1] = s[1]
  <2>1. s # <<>> => 1 \in 1..n
    BY <1>1, EmptySeq
  <2>2. QED
    BY <1>1, <2>1
<1>9. \A i \in DOMAIN t : t[i] = k \/ (i \in DOMAIN s /\ t[i] = s[i])
  BY <1>1, <1>2
<1>10. QED
  BY <1>1, <1>5, <1>7, <1>8, <1>9 DEF Increasing

LEMMA TailOrder ==
  ASSUME NEW S \in SUBSET Int, NEW s \in Seq(S), s # <<>>
  PROVE  /\ Tail(s) \in Seq(S) /\ Head(s) \in S
         /\ 1 \in DOMAIN s /\ s[1] = Head(s)
         /\ Range(s) = {Head(s)} \union Range(Tail(s))
         /\ \A i \in DOMAIN Tail(s) : \E j \in DOMAIN s : Tail(s)[i] = s[j]
         /\ Increasing(s) => /\ Increasing(Tail(s))
                             /\ \A i \in DOMAIN Tail(s) : Head(s) < Tail(s)[i]
<1>1. PICK t \in Seq(S), n \in Nat :
        /\ t = Tail(s) /\ n + 1 = Len(s) /\ DOMAIN s = 1..(n + 1) /\ DOMAIN t = 1..n
        /\ t \in Seq(S) /\ \A i \in 1..n : t[i] = s[i + 1]
  <2>1. /\ Tail(s) \in Seq(S) /\ Len(Tail(s)) = Len(s) - 1
        /\ \A i \in 1..Len(Tail(s)) : Tail(s)[i] = s[i + 1]
    BY HeadTailProperties
  <2>2. /\ Len(Tail(s)) \in Nat /\ DOMAIN s = 1..Len(s)
        /\ DOMAIN Tail(s) = 1..Len(Tail(s)) /\ Len(s) \in Nat
    BY <2>1, LenProperties
  <2>3. Len(Tail(s)) + 1 = Len(s)
    BY <2>1, <2>2
  <2>4. QED
    BY <2>1, <2>2, <2>3
<1>2. Head(s) = s[1] /\ Head(s) \in S
  BY HeadTailProperties
<1>3. 1 \in 1..(n + 1) /\ \A i \in 1..n : i + 1 \in 1..(n + 1) /\ 1 < i + 1
  OBVIOUS
<1>4. \A j \in 1..(n + 1) : j = 1 \/ \E i \in 1..n : j = i + 1
  <2> SUFFICES ASSUME NEW j \in 1..(n + 1), j # 1
               PROVE  \E i \in 1..n : j = i + 1
    OBVIOUS
  <2>1. j - 1 \in 1..n /\ j = (j - 1) + 1
    OBVIOUS
  <2>2. QED
    BY <2>1
<1>5. Range(s) = {Head(s)} \union Range(t)
  <2>1. Range(t) = {s[i + 1] : i \in 1..n}
    BY <1>1 DEF Range
  <2>2. Range(s) = {s[j] : j \in 1..(n + 1)}
    BY <1>1 DEF Range
  <2>3. {Head(s)} \union Range(t) \subseteq Range(s)
    BY <1>2, <1>3, <2>1, <2>2
  <2>4. ASSUME NEW j \in 1..(n + 1) PROVE s[j] \in {Head(s)} \union Range(t)
    <3>1. CASE j = 1
      BY <1>2, <3>1
    <3>2. CASE \E i \in 1..n : j = i + 1
      BY <2>1, <3>2
    <3>3. QED
      BY <1>4, <3>1, <3>2
  <2>5. QED
    BY <2>2, <2>3, <2>4
<1>6. Increasing(s) => /\ Increasing(t)
                       /\ \A i \in DOMAIN t : Head(s) < t[i]
  <2> SUFFICES ASSUME Increasing(s)
               PROVE  /\ \A i, j \in 1..n : i < j => t[i] < t[j]
                      /\ \A i \in 1..n : Head(s) < t[i]
    BY <1>1 DEF Increasing
  <2>1. \A i, j \in 1..n : i < j => i + 1 < j + 1
    OBVIOUS
  <2>2. QED
    BY <1>1, <1>2, <1>3, <2>1 DEF Increasing
<1>7. QED
  BY <1>1, <1>2, <1>3, <1>5, <1>6

LEMMA ConcatOrder ==
  ASSUME NEW S \in SUBSET Int, NEW s \in Seq(S), NEW t \in Seq(S)
  PROVE  /\ s \o t \in Seq(S)
         /\ Range(s \o t) = Range(s) \union Range(t)
         /\ s # <<>> => s \o t # <<>> /\ (s \o t)[1] = s[1]
         /\ \A i \in DOMAIN (s \o t) :
              (s \o t)[i] \in Range(s) \/ (s \o t)[i] \in Range(t)
         /\ /\ Increasing(s) /\ Increasing(t)
            /\ \A x \in Range(s), y \in Range(t) : x < y
            => Increasing(s \o t)
<1>1. PICK u \in Seq(S), m \in Nat, n \in Nat :
        /\ u = s \o t /\ m = Len(s) /\ n = Len(t) /\ u \in Seq(S)
        /\ DOMAIN s = 1..m /\ DOMAIN t = 1..n /\ DOMAIN u = 1..(m + n)
        /\ \A i \in 1..(m + n) : u[i] = IF i <= m THEN s[i] ELSE t[i - m]
  <2>1. /\ s \o t \in Seq(S) /\ Len(s \o t) = Len(s) + Len(t)
        /\ \A i \in 1..(Len(s) + Len(t)) :
             (s \o t)[i] = IF i <= Len(s) THEN s[i] ELSE t[i - Len(s)]
    BY ConcatProperties
  <2>2. /\ Len(s) \in Nat /\ Len(t) \in Nat /\ DOMAIN s = 1..Len(s) /\ DOMAIN t = 1..Len(t)
        /\ DOMAIN (s \o t) = 1..(Len(s) + Len(t))
    BY <2>1, LenProperties
  <2>3. QED
    BY <2>1, <2>2
<1>2. Range(u) = Range(s) \union Range(t)
  BY <1>1, RangeConcatenation
<1>3. \A i \in 1..(m + n) : \/ i \in 1..m /\ u[i] = s[i]
                            \/ i - m \in 1..n /\ u[i] = t[i - m] /\ m < i
  BY <1>1
<1>4. s # <<>> => u # <<>> /\ u[1] = s[1]
  <2> SUFFICES ASSUME s # <<>> PROVE u # <<>> /\ u[1] = s[1]
    OBVIOUS
  <2>1. m # 0
    BY <1>1, EmptySeq
  <2>2. 1 \in 1..(m + n) /\ 1 <= m
    BY <2>1
  <2>3. u # <<>>
    BY <1>1, <2>2
  <2>4. QED
    BY <1>1, <2>2, <2>3
<1>5. \A i \in 1..(m + n) : u[i] \in Range(s) \/ u[i] \in Range(t)
  BY <1>1, <1>3 DEF Range
<1>6. ASSUME Increasing(s), Increasing(t), \A x \in Range(s), y \in Range(t) : x < y,
             NEW i \in 1..(m + n), NEW j \in 1..(m + n), i < j
      PROVE  u[i] < u[j]
  <2>1. CASE i \in 1..m /\ u[i] = s[i]
    <3>1. CASE j \in 1..m /\ u[j] = s[j]
      BY <1>1, <1>6, <2>1, <3>1 DEF Increasing
    <3>2. CASE j - m \in 1..n /\ u[j] = t[j - m]
      <4>1. s[i] \in Range(s) /\ t[j - m] \in Range(t)
        BY <1>1, <2>1, <3>2 DEF Range
      <4>2. QED
        BY <1>6, <2>1, <3>2, <4>1
    <3>3. QED
      BY <1>3, <3>1, <3>2
  <2>2. CASE i - m \in 1..n /\ u[i] = t[i - m] /\ m < i
    <3>1. j - m \in 1..n /\ u[j] = t[j - m]
      BY <1>3, <1>6, <2>2
    <3>2. i - m < j - m
      BY <1>6
    <3>3. QED
      BY <1>1, <1>6, <2>2, <3>1, <3>2 DEF Increasing
  <2>3. QED
    BY <1>3, <2>1, <2>2
<1>7. QED
  BY <1>1, <1>2, <1>4, <1>5, <1>6 DEF Increasing

\* The open conversation, its subscription and its window.
LEMMA OpenFacts ==
  ASSUME WindowInv, "switch" \notin races, sub # NoSub
  PROVE  /\ sub \in Slots /\ task[sub].phase \in {"subscribing", "live"}
         /\ task[sub].chat = chatKey /\ chatKey \in Chats
         /\ stored[chatKey] \in SUBSET Keys /\ stored[chatKey] \in SUBSET Int
         /\ messages \in Seq(stored[chatKey])
         /\ task[sub].queue \in Seq(stored[chatKey])
         /\ Shown = Range(messages) /\ Shown \subseteq stored[chatKey]
         /\ Queued(sub) = Range(task[sub].queue) /\ Queued(sub) \subseteq stored[chatKey]
         /\ status # "disposed" /\ ~LoadInFlight
         /\ Known \subseteq stored[chatKey]
<1> USE DEF WindowInv, Unbroken, SwitchInv, Queues
<1>1. sub \in Slots /\ task[sub].phase \in {"subscribing", "live"} /\ status # "disposed"
  BY DEF TypeInv, TypeOK
<1>2. task[sub].chat = chatKey /\ chatKey \in Chats
  BY <1>1 DEF Alone, TypeInv, Opened
<1>3. stored[chatKey] \in SUBSET Keys /\ stored[chatKey] \in SUBSET Int
  BY <1>2 DEF TypeInv, TypeOK, Keys
<1>4. messages \in Seq(stored[chatKey]) /\ task[sub].queue \in Seq(stored[chatKey])
  BY <1>1, <1>2 DEF Belonging, Contents
<1>5. Shown = Range(messages) /\ Queued(sub) = Range(task[sub].queue)
  BY DEF Shown, Queued, Range
<1>6. Shown \subseteq stored[chatKey] /\ Queued(sub) \subseteq stored[chatKey]
  BY <1>4, <1>5, RangeOfSeq
<1>7. ~LoadInFlight
  BY <1>1 DEF Alone, LoadInFlight
<1>8. Known \subseteq stored[chatKey]
  BY <1>6, AnswersAreStored DEF Known, Coming
<1>9. QED
  BY <1>1, <1>2, <1>3, <1>4, <1>5, <1>6, <1>7, <1>8

\* Keys are numbers, and compare like numbers.
LEMMA KeyOrder ==
  /\ \A i \in DOMAIN messages : messages \in Seq(Keys) => messages[i] \in Keys
  /\ \A S \in SUBSET Keys : \A k \in Newest(S) : k \in S /\ \A j \in S \union {0} : j <= k
  /\ \A S \in SUBSET Keys : \A k \in S : k \in Int /\ k > 0
  /\ \A a, b, c \in Int : /\ a < b /\ b <= c => a < c
                          /\ a <= b /\ b < c => a < c
                          /\ a <= b /\ b <= c => a <= c
                          /\ a < b \/ b < a \/ a = b
<1>1. \A i \in DOMAIN messages : messages \in Seq(Keys) => messages[i] \in Keys
  BY LenProperties, ElementOfSeq
<1>2. \A S \in SUBSET Keys : \A k \in Newest(S) : k \in S /\ \A j \in S \union {0} : j <= k
  BY DEF Newest, Keys
<1>3. \A S \in SUBSET Keys : \A k \in S : k \in Int /\ k > 0
  BY DEF Keys
<1>4. QED
  BY <1>1, <1>2, <1>3

\* An answer stays recent while nothing is stored and no load is answered.
LEMMA RecentStill ==
  ASSUME LoadIsRecent, stored' = stored,
         \A s \in Slots : task'[s].phase = "answered" =>
           /\ task[s].phase = "answered"
           /\ task'[s].chat = task[s].chat /\ task'[s].keys = task[s].keys
  PROVE  LoadIsRecent'
<1>1. \A s \in Slots : task'[s].phase = "answered" =>
        \/ task'[s].keys = LimitToLast(stored[task'[s].chat], FirstLimit)
        \/ task'[s].keys = {} /\ \E k \in Keys : stored[task'[s].chat] = {k}
  BY DEF LoadIsRecent
<1>2. \A s \in Slots : LimitToLast(stored[task[s].chat], FirstLimit)'
                         = LimitToLast(stored[task'[s].chat], FirstLimit)
  BY DEF LimitToLast
<1>3. QED
  BY <1>1, <1>2 DEF LoadIsRecent

\* What is known stays without gaps while nothing is stored and nothing gets lost.
LEMMA GaplessStill ==
  ASSUME Gapless, UNCHANGED <<stored, chatKey, lastMessageKey>>,
         Known' = Known, Shown \subseteq Shown',
         \A p \in PageSlots : page'[p].phase = "answered" => page'[p] = page[p]
  PROVE  Gapless'
<1>1. \A p \in PageSlots : page'[p].phase = "answered" =>
        LimitToLast(EndAt(stored[chatKey], page[p].end), PageLimit)'
          = LimitToLast(EndAt(stored[chatKey], page[p].end), PageLimit)
  BY DEF LimitToLast, EndAt
<1>2. LimitToLast(stored[chatKey], FirstLimit)' = LimitToLast(stored[chatKey], FirstLimit)
  BY DEF LimitToLast
<1>3. \A p \in PageSlots : page'[p].phase = "answered" =>
        \/ page'[p].end = 0
        \/ stored[chatKey] \subseteq Known
        \/ /\ page'[p].end \in Shown'
           /\ page'[p].keys = LimitToLast(EndAt(stored[chatKey], page[p].end), PageLimit)
  BY DEF Gapless
<1>4. QED
  BY <1>1, <1>2, <1>3 DEF Gapless

-----------------------------------------------------------------------------
\* The steps that keep what the window shows and what is on its way.
LEMMA UnbrokenStill ==
  ASSUME WindowInv,
         UNCHANGED <<stored, lastSeen, chatKey, messages, lastMessageKey, sub,
                     task, page, races>>,
         status' = "disposed" => status = "disposed"
  PROVE  Unbroken'
<1>1. Queues'
  BY DEF WindowInv, Unbroken, Queues, Increasing
<1>2. ("switch" \notin races => Unseen)'
  BY DEF WindowInv, Unbroken, Unseen
<1>3. (races \intersect {"switch", "overlap"} = {} => OneRequest)'
  BY DEF WindowInv, Unbroken, OneRequest, LoadInFlight, PageInFlight
<1>4. (races \intersect {"switch", "overlap", "stale"} = {} /\ sub # NoSub => Ordered)'
  BY DEF WindowInv, Unbroken, Ordered, Increasing
<1>5. (races \subseteq {"stale"} => LoadIsRecent)'
  BY RecentStill DEF WindowInv, Unbroken
<1>6. Known' = Known /\ Shown' = Shown
  BY DEF Known, Shown, Coming, Queued, Newest
<1>7. (races \subseteq {"stale"} /\ sub # NoSub => Gapless)'
  BY <1>6, GaplessStill DEF WindowInv, Unbroken
<1>8. QED
  BY <1>1, <1>2, <1>3, <1>4, <1>5, <1>7 DEF Unbroken

\* Another conversation: everything of the earlier one has been cancelled.
LEMMA UnbrokenOnChatKey ==
  ASSUME WindowInv, NEW c \in Chats, OnChatKey(c),
         UNCHANGED <<stored, lastSeen, messages, lastMessageKey, page>>,
         status' = "disposed" => status = "disposed"
  PROVE  Unbroken'
<1> USE DEF WindowInv, SwitchInv
<1>1. CASE c = chatKey /\ UNCHANGED <<chatKey, sub, task, races>>
  BY <1>1, UnbrokenStill
<1>2. CASE c # chatKey
  <2>1. /\ sub' = NoSub
        /\ "switch" \notin races' =>
             "switch" \notin races /\ ~LoadInFlight /\ ~PageInFlight
    BY <1>2 DEF OnChatKey
  <2>2. \A s \in Slots : \/ task'[s] = task[s] /\ s # sub
                         \/ task'[s].phase \in {"free", "asked"} /\ task'[s].queue = <<>>
    <3>1. \A s \in Slots : (Cancelled[s] = task[s] /\ s # sub) \/ Cancelled[s] = FreeTask
      BY DEF Cancelled
    <3>2. FreeTask.phase = "free" /\ FreeTask.queue = <<>>
      BY DEF FreeTask
    <3>3. CASE signedIn
      <4> DEFINE r == [FreeTask EXCEPT !.phase = "asked", !.chat = c]
      <4>1. PICK s \in Slots : task' = [Cancelled EXCEPT ![s] = r]
        BY <1>2, <3>3 DEF OnChatKey
      <4>2. r.phase = "asked" /\ r.queue = <<>>
        BY DEF FreeTask
      <4>3. \A t \in Slots : task'[t] = IF t = s THEN r ELSE Cancelled[t]
        BY <4>1 DEF Cancelled
      <4> HIDE DEF r
      <4>4. QED
        BY <3>1, <3>2, <4>2, <4>3
    <3>4. CASE ~signedIn
      <4>1. task' = Cancelled
        BY <1>2, <3>4 DEF OnChatKey
      <4>2. QED
        BY <3>1, <3>2, <4>1
    <3>5. QED
      BY <3>3, <3>4
  <2>3. "switch" \notin races' =>
          \A s \in Slots : task'[s].phase \in {"free", "asked"}
    <3> SUFFICES ASSUME "switch" \notin races', NEW s \in Slots, task'[s] = task[s], s # sub
                 PROVE  task[s].phase \in {"free", "asked"}
      BY <2>2
    <3>1. task[s].phase \in {"free", "subscribing", "live"}
      BY <2>1 DEF LoadInFlight, TypeInv, TypeOK, Tasks, Phases
    <3>2. QED
      BY <2>1, <3>1 DEF Alone
  <2>4. Queues'
    <3>1. Increasing(<<>>)
      BY DEF Increasing
    <3>2. \A s \in Slots : Increasing(task'[s].queue)
      BY <2>2, <3>1 DEF Unbroken, Queues
    <3>3. \A s \in Slots : Increasing(task[s].queue)'
      BY <3>2 DEF Increasing
    <3>4. QED
      BY <2>1, <2>2, <3>3 DEF Unbroken, Queues
  <2>5. ("switch" \notin races => Unseen)'
    BY <2>3 DEF Unseen
  <2>6. (races \intersect {"switch", "overlap"} = {} => OneRequest)'
    BY <2>1 DEF OneRequest, PageInFlight
  <2>7. (races \subseteq {"stale"} => LoadIsRecent)'
    BY <2>3 DEF LoadIsRecent
  <2>8. QED
    BY <2>1, <2>4, <2>5, <2>6, <2>7 DEF Unbroken
<1>3. QED
  BY <1>1, <1>2 DEF OnChatKey

\* Dispose cancels the subscription and drops the list.
LEMMA UnbrokenDispose ==
  ASSUME WindowInv, Dispose
  PROVE  Unbroken'
<1> USE DEF WindowInv, SwitchInv
<1>1. /\ sub' = NoSub /\ UNCHANGED <<stored, lastSeen, chatKey, page, races>>
      /\ \A s \in Slots : task'[s] = task[s] \/ task'[s] = FreeTask
  BY DEF Dispose, Cancelled, db
<1>2. FreeTask.phase = "free" /\ FreeTask.queue = <<>>
  BY DEF FreeTask
<1>3. Queues'
  <2>1. Increasing(<<>>)
    BY DEF Increasing
  <2>2. \A s \in Slots : Increasing(task'[s].queue)
    BY <1>1, <1>2, <2>1 DEF Unbroken, Queues
  <2>3. \A s \in Slots : Increasing(task[s].queue)'
    BY <2>2 DEF Increasing
  <2>4. QED
    BY <1>1, <1>2, <2>3 DEF Unbroken, Queues
<1>4. ("switch" \notin races => Unseen)'
  BY <1>1, <1>2 DEF Unbroken, Unseen
<1>5. (races \intersect {"switch", "overlap"} = {} => OneRequest)'
  BY <1>1, <1>2 DEF Unbroken, OneRequest, LoadInFlight, PageInFlight
<1>6. (races \subseteq {"stale"} => LoadIsRecent)'
  BY <1>1, <1>2, RecentStill DEF Unbroken
<1>7. QED
  BY <1>1, <1>3, <1>4, <1>5, <1>6 DEF Unbroken

\* The answer of a first load is what the conversation ends with at that time.
LEMMA UnbrokenAnswerLoad ==
  ASSUME WindowInv, NEW s \in Slots, AnswerLoad(s)
  PROVE  Unbroken'
<1> USE DEF WindowInv, SwitchInv
<1> DEFINE a == LimitToLast(stored[task[s].chat], FirstLimit)
           r == [task[s] EXCEPT !.phase = "answered", !.keys = a]
<1>1. task \in [Slots -> Tasks] /\ task[s] \in Tasks
  BY DEF TypeInv, TypeOK
<1>2. /\ task[s].phase = "asked"
      /\ UNCHANGED <<stored, lastSeen, status, chatKey, messages, lastMessageKey, sub, page, races>>
  BY DEF AnswerLoad, db, widget
<1>3. task' = [task EXCEPT ![s] = r]
  BY DEF AnswerLoad
<1>4. a = LimitToLast(stored[task[s].chat], FirstLimit)
  OBVIOUS
<1> HIDE DEF a
<1>5. /\ r.phase = "answered" /\ r.chat = task[s].chat
      /\ r.keys = a /\ r.queue = task[s].queue
  BY <1>1 DEF Tasks
<1> HIDE DEF r
<1>6. \A t \in Slots : task'[t] = IF t = s THEN r ELSE task[t]
  BY <1>1, <1>3
<1>7. Queues'
  <2>1. \A t \in Slots : Increasing(task'[t].queue)
    BY <1>5, <1>6 DEF Unbroken, Queues
  <2>2. \A t \in Slots : Increasing(task[t].queue)'
    BY <2>1 DEF Increasing
  <2>3. sub # NoSub => sub \in Slots /\ sub # s
    BY <1>2 DEF Unbroken, Queues, TypeInv, TypeOK
  <2>4. QED
    BY <1>2, <1>5, <1>6, <2>2, <2>3 DEF Unbroken, Queues
<1>8. ("switch" \notin races => Unseen)'
  BY <1>2, <1>5, <1>6 DEF Unbroken, Unseen
<1>9. (races \intersect {"switch", "overlap"} = {} => OneRequest)'
  BY <1>2, <1>5, <1>6 DEF Unbroken, OneRequest, LoadInFlight, PageInFlight
<1>10. "switch" \notin races' => sub' = NoSub
  BY <1>2 DEF Alone
<1>11. (races \subseteq {"stale"} => LoadIsRecent)'
  <2> SUFFICES ASSUME races \subseteq {"stale"}, NEW t \in Slots, task'[t].phase = "answered"
               PROVE  \/ task'[t].keys = LimitToLast(stored[task'[t].chat], FirstLimit)
                      \/ task'[t].keys = {} /\ \E k \in Keys : stored[task'[t].chat] = {k}
    BY <1>2 DEF LoadIsRecent, LimitToLast
  <2>1. QED
    BY <1>4, <1>5, <1>6 DEF Unbroken, LoadIsRecent
<1>12. QED
  BY <1>7, <1>8, <1>9, <1>10, <1>11 DEF Unbroken

\* The subscription starts with the newest message, which the window lacks.
LEMMA UnbrokenListen ==
  ASSUME WindowInv, NEW s \in Slots, Listen(s)
  PROVE  Unbroken'
<1> USE DEF WindowInv, SwitchInv
<1> DEFINE S == stored[task[s].chat]
<1>1. task \in [Slots -> Tasks] /\ task[s] \in Tasks /\ S \in SUBSET Keys
  BY DEF Listen, TypeInv, TypeOK, Opened
<1>2. /\ task[s].phase = "subscribing" /\ task[s].queue = <<>>
      /\ UNCHANGED <<stored, lastSeen, status, chatKey, messages, lastMessageKey, sub, page, races>>
  BY DEF Listen, db, widget, Unbroken, Queues
<1>3. PICK r \in Tasks :
        /\ \A t \in Slots : task'[t] = IF t = s THEN r ELSE task[t]
        /\ r.phase = "live" /\ r.chat = task[s].chat
        /\ \/ S = {} /\ r.queue = <<>>
           \/ \E k \in Newest(S) : r.queue = <<k>>
  <2>1. CASE S = {} /\ task' = [task EXCEPT ![s].phase = "live"]
    <3> DEFINE r == [task[s] EXCEPT !.phase = "live"]
    <3>1. r \in Tasks /\ r.phase = "live" /\ r.chat = task[s].chat /\ r.queue = <<>>
      BY <1>1, <1>2 DEF Tasks, Phases
    <3>2. \A t \in Slots : task'[t] = IF t = s THEN r ELSE task[t]
      BY <1>1, <2>1
    <3> HIDE DEF r
    <3>3. QED
      BY <2>1, <3>1, <3>2
  <2>2. ASSUME NEW k \in Newest(S),
               task' = [task EXCEPT ![s] = [@ EXCEPT !.phase = "live", !.queue = <<k>>]]
        PROVE  \E r \in Tasks :
                 /\ \A t \in Slots : task'[t] = IF t = s THEN r ELSE task[t]
                 /\ r.phase = "live" /\ r.chat = task[s].chat /\ r.queue = <<k>>
    <3> DEFINE r == [task[s] EXCEPT !.phase = "live", !.queue = <<k>>]
    <3>1. k \in Keys /\ <<k>> \in Seq(Keys)
      BY <1>1 DEF Newest
    <3>2. r \in Tasks /\ r.phase = "live" /\ r.chat = task[s].chat /\ r.queue = <<k>>
      BY <1>1, <3>1 DEF Tasks, Phases
    <3>3. \A t \in Slots : task'[t] = IF t = s THEN r ELSE task[t]
      BY <1>1, <2>2
    <3> HIDE DEF r
    <3>4. QED
      BY <3>2, <3>3
  <2> HIDE DEF S
  <2>3. QED
    BY <2>1, <2>2 DEF Listen, S
<1> HIDE DEF S
<1>4. /\ \A i \in DOMAIN r.queue : i = 1 /\ r.queue[i] \in Newest(S)
      /\ {r.queue[i] : i \in DOMAIN r.queue} = Newest(S)
  <2>1. CASE S = {} /\ r.queue = <<>>
    BY <2>1 DEF Newest
  <2>2. ASSUME NEW k \in Newest(S), r.queue = <<k>>
        PROVE  /\ \A i \in DOMAIN r.queue : i = 1 /\ r.queue[i] \in Newest(S)
               /\ {r.queue[i] : i \in DOMAIN r.queue} = Newest(S)
    <3>1. DOMAIN r.queue = {1} /\ r.queue[1] = k
      BY <2>2
    <3>2. Newest(S) = {k}
      BY <1>1, NewestExists DEF Newest
    <3>3. QED
      BY <3>1, <3>2
  <2>3. QED
    BY <1>3, <2>1, <2>2
<1>5. Queues'
  <2>1. Increasing(r.queue)
    BY <1>4 DEF Increasing
  <2>2. \A t \in Slots : Increasing(task'[t].queue)
    BY <1>3, <2>1 DEF Unbroken, Queues
  <2>3. \A t \in Slots : Increasing(task[t].queue)'
    BY <2>2 DEF Increasing
  <2>4. sub # NoSub => sub \in Slots
    BY DEF TypeInv, TypeOK
  <2>5. QED
    BY <1>2, <1>3, <2>3, <2>4 DEF Unbroken, Queues
<1>6. "switch" \notin races => s = sub /\ s # NoSub /\ S = stored[chatKey] /\ chatKey \in Chats
  BY <1>2, ChatWindowAssumption DEF Alone, TypeInv, Opened, S
<1>7. ("switch" \notin races => Unseen)'
  <2> SUFFICES ASSUME "switch" \notin races, NEW t \in Slots, task'[t].phase = "live",
                      NEW i \in DOMAIN task'[t].queue
               PROVE  lastSeen[chatKey] <= task'[t].queue[i]
    BY <1>2 DEF Unseen
  <2>1. CASE t # s
    BY <1>3, <2>1 DEF Unbroken, Unseen
  <2>2. CASE t = s
    <3>1. task'[t].queue[i] \in Newest(S)
      BY <1>3, <1>4, <2>2
    <3>2. lastSeen[chatKey] \in S \union {0}
      BY <1>6 DEF Belonging
    <3>3. QED
      BY <1>1, <3>1, <3>2, KeyOrder
  <2>3. QED
    BY <2>1, <2>2
<1>8. (races \intersect {"switch", "overlap"} = {} => OneRequest)'
  BY <1>2, <1>3 DEF Unbroken, OneRequest, LoadInFlight, PageInFlight
<1>9. (races \intersect {"switch", "overlap", "stale"} = {} /\ sub # NoSub => Ordered)'
  <2> SUFFICES ASSUME races \intersect {"switch", "overlap", "stale"} = {}, sub # NoSub
               PROVE  Ordered'
    BY <1>2
  <2>1. Ordered /\ "switch" \notin races
    BY DEF Unbroken
  <2>2. task'[sub] = r
    BY <1>3, <1>6, <2>1
  <2>3. ASSUME NEW i \in DOMAIN messages, NEW j \in DOMAIN r.queue
        PROVE  messages[i] < r.queue[j]
    <3>1. PICK k \in S : messages[i] < k
      BY <1>2, <1>6, <2>1 DEF Ordered
    <3>2. r.queue[j] \in S /\ k <= r.queue[j]
      BY <1>4 DEF Newest
    <3>3. messages[i] \in Keys
      BY KeyOrder DEF TypeInv, TypeOK
    <3>4. messages[i] \in Int /\ k \in Int /\ r.queue[j] \in Int
      BY <1>1, <3>1, <3>2, <3>3, KeyOrder
    <3>5. QED
      BY <3>1, <3>2, <3>4, KeyOrder
  <2>4. QED
    BY <1>2, <1>3, <2>1, <2>2, <2>3 DEF Ordered, Increasing
<1>10. (races \subseteq {"stale"} => LoadIsRecent)'
  BY <1>2, <1>3, RecentStill DEF Unbroken
<1>11. (races \subseteq {"stale"} /\ sub # NoSub => Gapless)'
  <2> SUFFICES ASSUME races \subseteq {"stale"}, sub # NoSub
               PROVE  Gapless'
    BY <1>2
  <2>1. "switch" \notin races /\ Gapless
    BY DEF Unbroken
  <2>2. task'[sub] = r /\ task[sub].phase = "subscribing"
    BY <1>2, <1>3, <1>6, <2>1
  <2>3. Coming' = Queued(sub)'
    BY <1>2, <1>3, <2>2 DEF Coming
  <2>4. Queued(sub)' = Newest(S)
    BY <1>2, <1>4, <2>2 DEF Queued
  <2>5. Coming = Newest(S)
    BY <1>6, <2>1, <2>2 DEF Coming
  <2>6. Known' = Known /\ Shown' = Shown
    BY <1>2, <2>3, <2>4, <2>5 DEF Known, Shown
  <2>7. QED
    BY <1>2, <2>1, <2>6, GaplessStill
<1>12. QED
  BY <1>5, <1>7, <1>8, <1>9, <1>10, <1>11 DEF Unbroken

\* A page is asked for above the window; a second request at a time is a race.
LEMMA UnbrokenScrollTop ==
  ASSUME WindowInv, NEW p \in PageSlots, ScrollTop(p)
  PROVE  Unbroken'
<1> USE DEF WindowInv, SwitchInv
<1>1. /\ UNCHANGED <<stored, lastSeen, status, chatKey, messages, lastMessageKey, sub, task>>
      /\ races \subseteq races'
      /\ "overlap" \notin races' => ~LoadInFlight /\ ~PageInFlight
  BY DEF ScrollTop, db, widget
<1>2. PICK r : /\ r.phase = "asked" /\ r.end = lastMessageKey
               /\ \A q \in PageSlots : page'[q] = IF q = p THEN r ELSE page[q]
  <2> DEFINE r == [phase |-> "asked", chat |-> chatKey, end |-> lastMessageKey, keys |-> {}]
  <2>1. r.phase = "asked" /\ r.end = lastMessageKey
    OBVIOUS
  <2>2. \A q \in PageSlots : page'[q] = IF q = p THEN r ELSE page[q]
    BY DEF ScrollTop, TypeInv, TypeOK
  <2> HIDE DEF r
  <2>3. QED
    BY <2>1, <2>2
<1>3. Queues'
  BY <1>1, <1>2 DEF Unbroken, Queues, Increasing
<1>4. ("switch" \notin races => Unseen)'
  BY <1>1 DEF Unbroken, Unseen
<1>5. (races \intersect {"switch", "overlap"} = {} => OneRequest)'
  BY <1>1, <1>2 DEF Unbroken, OneRequest, LoadInFlight, PageInFlight
<1>6. (races \intersect {"switch", "overlap", "stale"} = {} /\ sub # NoSub => Ordered)'
  BY <1>1 DEF Unbroken, Ordered, Increasing
<1>7. (races \subseteq {"stale"} => LoadIsRecent)'
  BY <1>1, RecentStill DEF Unbroken
<1>8. Known' = Known /\ Shown' = Shown
  BY <1>1 DEF Known, Shown, Coming, Queued, Newest
<1>9. (races \subseteq {"stale"} /\ sub # NoSub => Gapless)'
  <2> SUFFICES ASSUME races' \subseteq {"stale"}, sub # NoSub
               PROVE  Gapless'
    BY <1>1
  <2>1. Gapless
    BY <1>1 DEF Unbroken
  <2>2. \A q \in PageSlots : page'[q].phase = "answered" => page'[q] = page[q]
    BY <1>2
  <2>3. QED
    BY <1>1, <1>8, <2>1, <2>2, GaplessStill
<1>10. QED
  BY <1>3, <1>4, <1>5, <1>6, <1>7, <1>9 DEF Unbroken

\* The page's answer ends with the message the window starts with.
LEMMA UnbrokenAnswerPage ==
  ASSUME WindowInv, NEW p \in PageSlots, AnswerPage(p)
  PROVE  Unbroken'
<1> USE DEF WindowInv, SwitchInv
<1> DEFINE a == LimitToLast(EndAt(stored[page[p].chat], page[p].end), PageLimit)
           r == [page[p] EXCEPT !.phase = "answered", !.keys = a]
<1>1. page \in [PageSlots -> Pages] /\ page[p] \in Pages
  BY DEF TypeInv, TypeOK
<1>2. /\ page[p].phase = "asked"
      /\ UNCHANGED <<stored, lastSeen, status, chatKey, messages, lastMessageKey, sub, task, races>>
  BY DEF AnswerPage, db, widget
<1>3. page' = [page EXCEPT ![p] = r]
  BY DEF AnswerPage
<1>4. a = LimitToLast(EndAt(stored[page[p].chat], page[p].end), PageLimit)
  OBVIOUS
<1>5. \A k \in a : k <= page[p].end
  BY DEF LimitToLast, EndAt
<1> HIDE DEF a
<1>6. /\ r.phase = "answered" /\ r.chat = page[p].chat
      /\ r.keys = a /\ r.end = page[p].end
  BY <1>1 DEF Pages
<1> HIDE DEF r
<1>7. \A q \in PageSlots : page'[q] = IF q = p THEN r ELSE page[q]
  BY <1>1, <1>3
<1>8. Queues'
  <2>1. \A q \in PageSlots : page'[q].phase = "answered" =>
          \A k \in page'[q].keys : k <= page'[q].end
    BY <1>5, <1>6, <1>7 DEF Unbroken, Queues
  <2>2. QED
    BY <1>2, <2>1 DEF Unbroken, Queues, Increasing
<1>9. ("switch" \notin races => Unseen)'
  BY <1>2 DEF Unbroken, Unseen
<1>10. (races \intersect {"switch", "overlap"} = {} => OneRequest)'
  BY <1>2, <1>6, <1>7 DEF Unbroken, OneRequest, LoadInFlight, PageInFlight
<1>11. (races \intersect {"switch", "overlap", "stale"} = {} /\ sub # NoSub => Ordered)'
  BY <1>2 DEF Unbroken, Ordered, Increasing
<1>12. (races \subseteq {"stale"} => LoadIsRecent)'
  BY <1>2, RecentStill DEF Unbroken
<1>13. Known' = Known /\ Shown' = Shown
  BY <1>2 DEF Known, Shown, Coming, Queued, Newest
<1>14. (races \subseteq {"stale"} /\ sub # NoSub => Gapless)'
  <2> SUFFICES ASSUME races \subseteq {"stale"}, sub # NoSub
               PROVE  Gapless'
    BY <1>2
  <2>1. /\ "switch" \notin races /\ Gapless /\ OneRequest
        /\ page[p].chat = chatKey /\ page[p].end = lastMessageKey
    BY <1>2 DEF Unbroken, OneRequest, Alone
  <2>2. \A q \in PageSlots : page'[q].phase = "answered" =>
          \/ page'[q].end = 0
          \/ stored[chatKey] \subseteq Known
          \/ /\ page'[q].end \in Shown
             /\ page'[q].keys = LimitToLast(EndAt(stored[chatKey], page'[q].end), PageLimit)
    BY <1>4, <1>6, <1>7, <2>1 DEF Gapless
  <2>3. \A q \in PageSlots :
          LimitToLast(EndAt(stored[chatKey], page[q].end), PageLimit)'
            = LimitToLast(EndAt(stored[chatKey], page'[q].end), PageLimit)
    BY <1>2 DEF LimitToLast, EndAt
  <2>4. LimitToLast(stored[chatKey], FirstLimit)' = LimitToLast(stored[chatKey], FirstLimit)
    BY <1>2 DEF LimitToLast
  <2>5. QED
    BY <1>2, <1>13, <2>1, <2>2, <2>3, <2>4 DEF Gapless
<1>15. QED
  BY <1>8, <1>9, <1>10, <1>11, <1>12, <1>14 DEF Unbroken

\* A message arrives: only a live subscription that it is the newest for hears of it.
LEMMA ArriveStep ==
  ASSUME WindowInv, NEW c \in Chats, NEW k \in Keys, Arrive(c, k)
  PROVE  /\ UNCHANGED <<lastSeen, status, chatKey, messages, lastMessageKey, sub, page>>
         /\ races \subseteq races'
         /\ "handover" \notin races' => stored[c] = {} \/ \A s \in Slots :
              task[s].chat = c => task[s].phase \notin {"answered", "subscribing"}
         /\ "late" \notin races' => (\A j \in stored[c] : ~(k < j)) \/ \A s \in Slots :
              task[s].chat = c => task[s].phase \in {"free", "asked"}
         /\ \A d \in Chats : stored[d] \in SUBSET Keys /\ k \notin stored[d]
         /\ \A d \in Chats : stored'[d] = IF d = c THEN stored[d] \union {k} ELSE stored[d]
         /\ \A s \in Slots :
              /\ task'[s].phase = task[s].phase /\ task'[s].chat = task[s].chat
              /\ task'[s].keys = task[s].keys
              /\ \/ task'[s].queue = task[s].queue
                 \/ /\ task'[s].queue = Append(task[s].queue, k)
                    /\ task[s].phase = "live" /\ task[s].chat = c
                    /\ \A j \in stored[c] : j < k
              /\ task[s].phase = "live" /\ task[s].chat = c /\ (\A j \in stored[c] : j < k)
                   => task'[s].queue = Append(task[s].queue, k)
<1> USE DEF WindowInv, SwitchInv
<1>1. /\ UNCHANGED <<lastSeen, status, chatKey, messages, lastMessageKey, sub, page>>
      /\ races \subseteq races' /\ \A d \in Chats : k \notin stored[d]
  BY DEF Arrive, widget
<1>2. \A d \in Chats : /\ stored[d] \in SUBSET Keys
                       /\ stored'[d] = IF d = c THEN stored[d] \union {k} ELSE stored[d]
  BY DEF Arrive, TypeInv, TypeOK
<1>3. ASSUME NEW s \in Slots
      PROVE  /\ task'[s].phase = task[s].phase /\ task'[s].chat = task[s].chat
             /\ task'[s].keys = task[s].keys
             /\ \/ task'[s].queue = task[s].queue
                \/ /\ task'[s].queue = Append(task[s].queue, k)
                   /\ task[s].phase = "live" /\ task[s].chat = c
                   /\ \A j \in stored[c] : j < k
             /\ task[s].phase = "live" /\ task[s].chat = c /\ (\A j \in stored[c] : j < k)
                  => task'[s].queue = Append(task[s].queue, k)
  <2> DEFINE q == Append(task[s].queue, k)
             hears == /\ task[s].phase = "live" /\ task[s].chat = c
                      /\ \A j \in stored[c] : j < k
  <2>1. task[s] \in Tasks /\ q \in Seq(Keys)
    BY AppendProperties DEF TypeInv, TypeOK, Tasks
  <2>2. CASE hears
    <3>1. task'[s] = [task[s] EXCEPT !.queue = q]
      BY <2>2 DEF Arrive
    <3> HIDE DEF q, hears
    <3>2. QED
      BY <2>1, <2>2, <3>1, QueueUpdate DEF hears, q
  <2>3. CASE ~hears
    <3>1. task'[s] = task[s]
      BY <2>3 DEF Arrive
    <3>2. QED
      BY <2>3, <3>1
  <2>4. QED
    BY <2>2, <2>3
<1>4. "handover" \notin races' => stored[c] = {} \/ \A s \in Slots :
        task[s].chat = c => task[s].phase \notin {"answered", "subscribing"}
  BY DEF Arrive
<1>5. "late" \notin races' => (\A j \in stored[c] : ~(k < j)) \/ \A s \in Slots :
        task[s].chat = c => task[s].phase \in {"free", "asked"}
  BY DEF Arrive
<1>6. QED
  BY <1>1, <1>2, <1>3, <1>4, <1>5

LEMMA UnbrokenArrive ==
  ASSUME WindowInv, NEW c \in Chats, NEW k \in Keys, Arrive(c, k)
  PROVE  Unbroken'
<1> USE DEF WindowInv, SwitchInv
<1>0. k \in Int
  BY DEF Keys
<1>1. /\ UNCHANGED <<lastSeen, status, chatKey, messages, lastMessageKey, sub, page>>
      /\ races \subseteq races'
  BY ArriveStep
<1>2. /\ \A d \in Chats : stored[d] \in SUBSET Keys /\ k \notin stored[d]
      /\ \A d \in Chats : stored'[d] = IF d = c THEN stored[d] \union {k} ELSE stored[d]
  <2>1. \A d \in Chats : stored[d] \in SUBSET Keys /\ k \notin stored[d]
    BY ArriveStep
  <2>2. \A d \in Chats : stored'[d] = IF d = c THEN stored[d] \union {k} ELSE stored[d]
    BY DEF Arrive, TypeInv, TypeOK
  <2>3. QED
    BY <2>1, <2>2
<1>3. \A s \in Slots : task'[s].phase = task[s].phase /\ task'[s].chat = task[s].chat
                         /\ task'[s].keys = task[s].keys
  BY ArriveStep
<1>4. \A s \in Slots : \/ task'[s].queue = task[s].queue
                       \/ /\ task'[s].queue = Append(task[s].queue, k)
                          /\ task[s].phase = "live" /\ task[s].chat = c
                          /\ \A j \in stored[c] : j < k
  BY ArriveStep
<1>5. \A s \in Slots : task[s].phase = "live" =>
        /\ stored[task[s].chat] \in SUBSET Int
        /\ task[s].chat \in Chats /\ task[s].queue \in Seq(stored[task[s].chat])
  BY <1>2, KeyOrder DEF TypeInv, Opened, Contents
<1>6. ASSUME NEW s \in Slots, task[s].phase = "live", task[s].chat = c,
             NEW i \in DOMAIN Append(task[s].queue, k)
      PROVE  \/ Append(task[s].queue, k)[i] = k
             \/ i \in DOMAIN task[s].queue /\ Append(task[s].queue, k)[i] = task[s].queue[i]
  <2>1. task[s].queue \in Seq(stored[c] \union {k}) /\ stored[c] \union {k} \in SUBSET Int
    BY <1>0, <1>5, <1>6, SeqMonotonic
  <2>2. QED
    BY <1>6, <2>1, AppendOrder
<1>7. Queues'
  <2>1. ASSUME NEW s \in Slots PROVE Increasing(task'[s].queue)
    <3>1. Increasing(task[s].queue)
      BY DEF Unbroken, Queues
    <3>2. CASE /\ task'[s].queue = Append(task[s].queue, k)
               /\ task[s].phase = "live" /\ task[s].chat = c
               /\ \A j \in stored[c] : j < k
      <4>1. task[s].queue \in Seq(stored[c])
        BY <1>5, <3>2
      <4>2. \A i \in DOMAIN task[s].queue : task[s].queue[i] < k
        BY <3>2, <4>1, LenProperties, ElementOfSeq
      <4>3. task[s].queue \in Seq(stored[c] \union {k}) /\ stored[c] \union {k} \in SUBSET Int
        BY <1>0, <1>5, <3>2, <4>1, SeqMonotonic
      <4>4. Increasing(Append(task[s].queue, k))
        <5> DEFINE q == task[s].queue
                   T == stored[c] \union {k}
        <5>1. q \in Seq(T) /\ T \in SUBSET Int /\ k \in T /\ Increasing(q)
          BY <3>1, <4>3
        <5>2. \A i \in DOMAIN q : q[i] < k
          BY <4>2
        <5> HIDE DEF q, T
        <5>3. Increasing(Append(q, k))
          BY <5>1, <5>2, AppendOrder
        <5>4. QED
          BY <5>3 DEF q
      <4>5. QED
        BY <3>2, <4>4
    <3>3. QED
      BY <1>4, <3>1, <3>2
  <2>2. \A s \in Slots : Increasing(task[s].queue)'
    BY <2>1 DEF Increasing
  <2>3. sub # NoSub => sub \in Slots
    BY DEF TypeInv, TypeOK
  <2>4. QED
    BY <1>1, <1>3, <1>4, <2>2, <2>3 DEF Unbroken, Queues
<1>8. ("switch" \notin races => Unseen)'
  <2> SUFFICES ASSUME "switch" \notin races, NEW s \in Slots, task[s].phase = "live",
                      NEW i \in DOMAIN task'[s].queue
               PROVE  lastSeen[chatKey] <= task'[s].queue[i]
    BY <1>1, <1>3 DEF Unseen
  <2>1. CASE task'[s].queue = task[s].queue
    BY <2>1 DEF Unbroken, Unseen
  <2>2. CASE /\ task'[s].queue = Append(task[s].queue, k) /\ task[s].chat = c
             /\ \A j \in stored[c] : j < k
    <3>1. chatKey = c /\ lastSeen[c] \in stored[c] \union {0}
      BY <2>2 DEF Alone, Belonging
    <3>2. lastSeen[c] <= k
      <4>1. CASE lastSeen[c] = 0
        BY <4>1 DEF Keys
      <4>2. CASE lastSeen[c] \in stored[c]
        <5>1. lastSeen[c] < k /\ lastSeen[c] \in Int
          BY <1>2, <2>2, <4>2, KeyOrder
        <5>2. QED
          BY <1>0, <5>1
      <4>3. QED
        BY <3>1, <4>1, <4>2
    <3>3. QED
      BY <1>6, <2>2, <3>1, <3>2 DEF Unbroken, Unseen
  <2>3. QED
    BY <1>4, <2>1, <2>2
<1>9. (races \intersect {"switch", "overlap"} = {} => OneRequest)'
  BY <1>1, <1>3 DEF Unbroken, OneRequest, LoadInFlight, PageInFlight
<1>10. (races \intersect {"switch", "overlap", "stale"} = {} /\ sub # NoSub => Ordered)'
  <2> SUFFICES ASSUME races \intersect {"switch", "overlap", "stale"} = {}, sub # NoSub
               PROVE  Ordered'
    BY <1>1
  <2>1. Ordered /\ "switch" \notin races
    BY DEF Unbroken
  <2>2. /\ sub \in Slots /\ chatKey \in Chats /\ task[sub].chat = chatKey
        /\ messages \in Seq(stored[chatKey])
    BY <2>1, OpenFacts
  <2>3. ASSUME NEW i \in DOMAIN messages, NEW j \in DOMAIN task'[sub].queue,
               task[sub].phase = "live"
        PROVE  messages[i] < task'[sub].queue[j]
    <3>1. CASE task'[sub].queue = task[sub].queue
      BY <2>1, <2>3, <3>1 DEF Ordered
    <3>2. CASE /\ task'[sub].queue = Append(task[sub].queue, k)
               /\ task[sub].chat = c /\ \A x \in stored[c] : x < k
      <4>1. messages[i] \in stored[c]
        BY <2>2, <3>2, LenProperties, ElementOfSeq
      <4>2. QED
        BY <1>6, <2>1, <2>2, <2>3, <3>2, <4>1 DEF Ordered
    <3>3. QED
      BY <1>4, <2>2, <3>1, <3>2
  <2>4. stored[chatKey] \subseteq stored'[chatKey]
    BY <1>2, <2>2
  <2>5. Increasing(messages)'
    BY <1>1, <2>1 DEF Ordered, Increasing
  <2>6. QED
    BY <1>1, <1>3, <2>1, <2>2, <2>3, <2>4, <2>5 DEF Ordered
<1>11. (races \subseteq {"stale"} => LoadIsRecent)'
  <2> SUFFICES ASSUME races' \subseteq {"stale"}, NEW s \in Slots, task[s].phase = "answered"
               PROVE  \/ task[s].keys = LimitToLast(stored'[task[s].chat], FirstLimit)
                      \/ task[s].keys = {} /\ \E j \in Keys : stored'[task[s].chat] = {j}
    <3>1. \A s \in Slots : LimitToLast(stored[task[s].chat], FirstLimit)'
                             = LimitToLast(stored'[task'[s].chat], FirstLimit)
      BY DEF LimitToLast
    <3>2. QED
      BY <1>3, <3>1 DEF LoadIsRecent
  <2>1. /\ task[s].chat \in Chats
        /\ \/ task[s].keys = LimitToLast(stored[task[s].chat], FirstLimit)
           \/ task[s].keys = {} /\ \E j \in Keys : stored[task[s].chat] = {j}
    BY <1>1 DEF Unbroken, LoadIsRecent, TypeInv, Opened
  <2>2. CASE task[s].chat # c
    BY <1>2, <2>1, <2>2
  <2>3. CASE task[s].chat = c
    <3>1. stored[c] = {}
      BY <2>3 DEF Arrive
    <3>2. task[s].keys = {} /\ stored'[c] = {k}
      BY <1>2, <2>1, <2>3, <3>1, AnswersAreStored
    <3>3. QED
      BY <2>3, <3>2
  <2>4. QED
    BY <2>2, <2>3
<1>12. (races \subseteq {"stale"} /\ sub # NoSub => Gapless)'
  <2> SUFFICES ASSUME races' \subseteq {"stale"}, sub # NoSub
               PROVE  Gapless'
    BY <1>1
  <2> DEFINE S == stored[chatKey]
  <2>1. "switch" \notin races /\ Gapless
    BY <1>1 DEF Unbroken
  <2>2. /\ sub \in Slots /\ chatKey \in Chats /\ task[sub].chat = chatKey
        /\ task[sub].phase \in {"subscribing", "live"}
        /\ Known \subseteq S /\ Shown \subseteq S /\ S \in SUBSET Keys
        /\ task[sub].queue \in Seq(S)
    BY <2>1, OpenFacts
  <2>3. Shown' = Shown
    BY <1>1 DEF Shown
  <2>4. stored'[chatKey] = IF chatKey = c THEN S \union {k} ELSE S
    BY <1>2, <2>2
  <2>5. Coming' = IF task[sub].phase = "live" THEN Queued(sub)' ELSE Newest(stored'[chatKey])
    BY <1>1, <1>3, <2>2 DEF Coming, Newest
  <2>6. /\ LimitToLast(stored[chatKey], FirstLimit)' = LimitToLast(stored'[chatKey], FirstLimit)
        /\ \A p \in PageSlots :
             LimitToLast(EndAt(stored[chatKey], page[p].end), PageLimit)'
               = LimitToLast(EndAt(stored'[chatKey], page[p].end), PageLimit)
    BY <1>1 DEF LimitToLast, EndAt
  <2>7. CASE c # chatKey
    <3>1. Known' = Known
      <4>1. task'[sub].queue = task[sub].queue
        BY <1>4, <2>2, <2>7
      <4>2. Queued(sub)' = Queued(sub)
        BY <1>1, <4>1 DEF Queued
      <4>3. QED
        BY <2>3, <2>4, <2>5, <2>7, <4>2 DEF Known, Coming
    <3>2. QED
      BY <1>1, <2>1, <2>3, <2>4, <2>6, <2>7, <3>1 DEF Gapless
  <2>8. CASE c = chatKey
    <3>1. \A j \in S : j < k
      <4>1. \A j \in S : ~(k < j)
        BY <2>2, <2>8, ArriveStep
      <4>2. k \notin S
        BY <1>2, <2>2
      <4>3. QED
        BY <1>0, <2>2, <4>1, <4>2, KeyOrder
    <3>2. Known' = Known \union {k}
      <4>1. CASE task[sub].phase = "live"
        <5>1. task'[sub].queue = Append(task[sub].queue, k)
          BY <2>2, <2>8, <3>1, <4>1, ArriveStep
        <5>2. task[sub].queue \in Seq(Keys)
          BY <2>2, SeqMonotonic
        <5> Keys \in SUBSET Int
          BY DEF Keys
        <5>3. Range(Append(task[sub].queue, k)) = Range(task[sub].queue) \union {k}
          BY <5>2, AppendOrder
        <5>4. Queued(sub)' = Queued(sub) \union {k}
          BY <1>1, <5>1, <5>3 DEF Queued, Range
        <5>5. QED
          BY <2>3, <2>5, <4>1, <5>4 DEF Known, Coming
      <4>2. CASE task[sub].phase = "subscribing"
        <5>1. S = {}
          BY <1>1, <2>2, <2>8, <4>2, ArriveStep
        <5>2. Newest({k}) = {k}
          BY <1>0 DEF Newest
        <5>3. QED
          BY <2>2, <2>3, <2>4, <2>5, <2>8, <4>2, <5>1, <5>2 DEF Known
      <4>3. QED
        BY <2>2, <4>1, <4>2
    <3>3. LimitToLast(S \union {k}, FirstLimit) \subseteq Known'
      <4>1. LimitToLast(S \union {k}, FirstLimit) \subseteq LimitToLast(S, FirstLimit) \union {k}
        BY <2>2, LastKeysGrow, ChatWindowAssumption
      <4>2. QED
        BY <2>1, <3>2, <4>1 DEF Gapless
    <3>4. ASSUME NEW x \in S \union {k}, NEW j \in Known', j < x
          PROVE  x \in Known'
      <4>1. CASE x = k
        BY <3>2, <4>1
      <4>2. CASE x # k /\ j = k
        <5>1. x < k /\ k < x /\ x \in Int
          BY <2>2, <3>1, <3>4, <4>2, KeyOrder
        <5>2. QED
          BY <1>0, <5>1
      <4>3. CASE x # k /\ j # k
        BY <2>1, <3>2, <3>4, <4>3 DEF Gapless
      <4>4. QED
        BY <4>1, <4>2, <4>3
    <3>5. ASSUME NEW e \in Shown
          PROVE  EndAt(S \union {k}, e) = EndAt(S, e)
      <4>1. e \in Int /\ e < k
        BY <2>2, <3>1, KeyOrder
      <4>2. ~(k <= e)
        BY <1>0, <4>1
      <4>3. QED
        BY <4>2 DEF EndAt
    <3>6. stored'[chatKey] = S \union {k}
      BY <2>4, <2>8
    <3>7. S \subseteq Known => S \union {k} \subseteq Known'
      BY <3>2
    <3>8. lastMessageKey = 0 \/ lastMessageKey \in Shown \/ S \subseteq Known
      BY <2>1 DEF Gapless
    <3>9. \A p \in PageSlots : page[p].phase = "answered" =>
            \/ page[p].end = 0
            \/ S \subseteq Known
            \/ /\ page[p].end \in Shown
               /\ page[p].keys = LimitToLast(EndAt(S \union {k}, page[p].end), PageLimit)
      BY <2>1, <3>5 DEF Gapless
    <3> HIDE DEF S
    <3>10. QED
      BY <1>1, <2>3, <2>6, <3>3, <3>4, <3>6, <3>7, <3>8, <3>9 DEF Gapless
  <2>9. QED
    BY <2>7, <2>8
<1>13. QED
  BY <1>7, <1>8, <1>9, <1>10, <1>11, <1>12 DEF Unbroken

\* What a first load puts on screen: all of its answer but the newest message.
LEMMA ShowFirstStep ==
  ASSUME NEW K \in SUBSET Keys, ShowFirst(K)
  PROVE  /\ races \subseteq races' /\ races' \subseteq races \union {"stale"}
         /\ Shown' = K \ Newest(K)
         /\ Increasing(messages')
         /\ messages' # <<>> /\ K # {} =>
              lastMessageKey' = messages'[1] /\ lastMessageKey' \in Shown'
         /\ messages' = <<>> /\ K # {} => lastMessageKey' = 0
         /\ K = {} /\ "stale" \notin races' => lastMessageKey' = 0
<1>1. races \subseteq races' /\ races' \subseteq races \union {"stale"}
  BY DEF ShowFirst
<1>2. CASE K = {}
  <2>1. messages' = <<>>
    BY <1>2 DEF ShowFirst
  <2>2. Shown' = {} /\ Increasing(messages')
    BY <2>1 DEF Shown, Increasing
  <2>3. "stale" \notin races' => lastMessageKey' = 0
    BY <1>2 DEF ShowFirst
  <2>4. QED
    BY <1>1, <1>2, <2>2, <2>3
<1>3. CASE K # {}
  <2> DEFINE S == K \ Newest(K)
             m == messages'
  <2>1. /\ m \in SortedLists(S) /\ S \in SUBSET Keys
        /\ lastMessageKey' = IF m = <<>> THEN 0 ELSE m[1]
    BY <1>3 DEF ShowFirst
  <2>2. Shown' = {m[i] : i \in DOMAIN m}
    BY DEF Shown
  <2> HIDE DEF S, m
  <2>3. Increasing(m) /\ {m[i] : i \in DOMAIN m} = S
    BY <2>1, SortedListsAll
  <2>4. m # <<>> => 1 \in DOMAIN m
    BY <2>1, SortedListsSeq, EmptySeq, LenProperties
  <2>5. m # <<>> => m[1] \in S
    BY <2>3, <2>4
  <2>6. QED
    BY <1>1, <1>3, <2>1, <2>2, <2>3, <2>5 DEF S, m
<1>4. QED
  BY <1>2, <1>3

\* The first load is applied and the subscription asked for.
LEMMA UnbrokenCompleteLoad ==
  ASSUME WindowInv, NEW s \in Slots, CompleteLoad(s)
  PROVE  Unbroken'
<1> USE DEF WindowInv, SwitchInv
<1>1. task \in [Slots -> Tasks] /\ task[s] \in Tasks /\ task[s].keys \in SUBSET Keys
  BY DEF TypeInv, TypeOK, Tasks
<1>2. /\ task[s].phase = "answered" /\ task[s].queue = <<>>
      /\ UNCHANGED <<stored, lastSeen, status, chatKey, page>>
  BY DEF CompleteLoad, db, Unbroken, Queues
<1>3. CASE status = "disposed"
  <2>1. /\ \A t \in Slots : task'[t] = task[t] \/ task'[t] = FreeTask
        /\ UNCHANGED <<messages, lastMessageKey, sub, races>>
    BY <1>1, <1>3 DEF CompleteLoad
  <2>2. FreeTask.phase = "free" /\ FreeTask.queue = <<>> /\ Increasing(FreeTask.queue)
    BY DEF FreeTask, Increasing
  <2>3. sub' = NoSub
    BY <1>3, <2>1 DEF Unbroken, Queues
  <2>4. Queues'
    <3>1. \A t \in Slots : Increasing(task'[t].queue)
      BY <2>1, <2>2 DEF Unbroken, Queues
    <3>2. \A t \in Slots : Increasing(task[t].queue)'
      BY <3>1 DEF Increasing
    <3>3. QED
      BY <1>2, <2>1, <2>2, <2>3, <3>2 DEF Unbroken, Queues
  <2>5. ("switch" \notin races => Unseen)'
    BY <1>2, <2>1, <2>2 DEF Unbroken, Unseen
  <2>6. (races \intersect {"switch", "overlap"} = {} => OneRequest)'
    BY <1>2, <2>1, <2>2, <2>3 DEF Unbroken, OneRequest, LoadInFlight, PageInFlight
  <2>7. (races \subseteq {"stale"} => LoadIsRecent)'
    BY <1>2, <2>1, <2>2, RecentStill DEF Unbroken
  <2>8. QED
    BY <2>3, <2>4, <2>5, <2>6, <2>7 DEF Unbroken
<1>4. CASE status # "disposed"
  <2> DEFINE K == task[s].keys
             S == stored[chatKey]
             r == [task[s] EXCEPT !.phase = "subscribing", !.keys = {}]
  <2>1. sub' = s /\ ShowFirst(K) /\ K \in SUBSET Keys
    BY <1>1, <1>4 DEF CompleteLoad
  <2>2. r.phase = "subscribing" /\ r.chat = task[s].chat /\ r.queue = <<>>
    BY <1>1, <1>2 DEF Tasks
  <2>3. \A t \in Slots : task'[t] = IF t = s THEN r ELSE task[t]
    BY <1>1, <1>4 DEF CompleteLoad
  <2> HIDE DEF r
  <2>4. /\ races \subseteq races' /\ races' \subseteq races \union {"stale"}
        /\ Shown' = K \ Newest(K) /\ Increasing(messages')
    BY <2>1, ShowFirstStep
  <2>5. "switch" \notin races =>
          task[s].chat = chatKey /\ chatKey \in Chats /\ K \subseteq S /\ S \in SUBSET Keys
    BY <1>2 DEF Alone, Contents, TypeInv, TypeOK, Opened
  <2>6. races \intersect {"switch", "overlap"} = {} => ~PageInFlight
    BY <1>2 DEF Unbroken, OneRequest, LoadInFlight
  <2>7. Queues'
    <3>1. Increasing(<<>>)
      BY DEF Increasing
    <3>2. \A t \in Slots : Increasing(task'[t].queue)
      BY <2>2, <2>3, <3>1 DEF Unbroken, Queues
    <3>3. \A t \in Slots : Increasing(task[t].queue)'
      BY <3>2 DEF Increasing
    <3>4. QED
      BY <1>2, <1>4, <2>1, <2>2, <2>3, <3>3 DEF Unbroken, Queues
  <2>8. ("switch" \notin races => Unseen)'
    BY <1>2, <2>2, <2>3, <2>4 DEF Unbroken, Unseen
  <2>9. (races \intersect {"switch", "overlap"} = {} => OneRequest)'
    BY <1>2, <2>4, <2>6 DEF OneRequest, PageInFlight
  <2>10. (races \intersect {"switch", "overlap", "stale"} = {} /\ sub # NoSub => Ordered)'
    <3> SUFFICES ASSUME races' \intersect {"switch", "overlap", "stale"} = {}
                 PROVE  Ordered'
      OBVIOUS
    <3>1. K = {} => messages' = <<>> /\ lastMessageKey' = 0
      <4>1. K = {} => lastMessageKey' = 0
        BY <2>1, ShowFirstStep
      <4>2. QED
        BY <2>1, <4>1 DEF ShowFirst
    <3>2. lastMessageKey' # 0 => messages' # <<>> /\ lastMessageKey' = messages'[1]
      BY <2>1, <3>1, ShowFirstStep
    <3>3. ASSUME NEW i \in DOMAIN messages' PROVE \E k \in S : messages'[i] < k
      <4>1. messages'[i] \in K \ Newest(K)
        BY <2>4 DEF Shown
      <4>2. PICK m \in K : Newest(K) = {m}
        BY <2>1, <4>1, NewestExists
      <4>3. messages'[i] <= m /\ messages'[i] # m
        <5> HIDE DEF K
        <5>1. m \in Newest(K) /\ messages'[i] \in K
          BY <4>1, <4>2
        <5>2. \A j \in K \union {0} : j <= m
          BY <2>1, <5>1, KeyOrder
        <5>3. QED
          BY <4>1, <4>2, <5>2
      <4>4. messages'[i] \in Int /\ m \in Int
        BY <2>1, <4>1, <4>2, KeyOrder
      <4>5. messages'[i] < m
        BY <4>3, <4>4
      <4>6. m \in S
        BY <2>4, <2>5, <4>2
      <4>7. QED
        BY <4>5, <4>6
    <3>4. Increasing(messages)'
      BY <2>4 DEF Increasing
    <3>5. task'[sub'].phase = "subscribing"
      BY <2>1, <2>2, <2>3
    <3>6. QED
      BY <1>2, <3>2, <3>3, <3>4, <3>5 DEF Ordered
  <2>11. (races \subseteq {"stale"} => LoadIsRecent)'
    BY <1>2, <2>2, <2>3, <2>4, RecentStill DEF Unbroken
  <2>12. (races \subseteq {"stale"} /\ sub # NoSub => Gapless)'
    <3> SUFFICES ASSUME races' \subseteq {"stale"}
                 PROVE  Gapless'
      OBVIOUS
    <3>1. /\ races \subseteq {"stale"} /\ ~PageInFlight
          /\ task[s].chat = chatKey /\ K \subseteq S /\ S \in SUBSET Keys
          /\ \/ K = LimitToLast(S, FirstLimit)
             \/ K = {} /\ \E k \in Keys : S = {k}
      <4>1. races \subseteq {"stale"} /\ LoadIsRecent
        BY <2>4 DEF Unbroken
      <4>2. QED
        BY <1>2, <2>5, <2>6, <4>1 DEF LoadIsRecent
    <3>2. Known' = (K \ Newest(K)) \union Newest(S)
      <4>1. Coming' = Newest(S)
        BY <1>2, <2>1, <2>2, <2>3 DEF Coming, Newest
      <4>2. QED
        BY <2>4, <4>1 DEF Known
    <3>3. \A p \in PageSlots : page'[p].phase = "idle"
      BY <1>2, <3>1 DEF PageInFlight
    <3>4. LimitToLast(stored[chatKey], FirstLimit)' = LimitToLast(S, FirstLimit)
      BY <1>2 DEF LimitToLast
    <3>5. CASE K # {}
      <4>1. K = LimitToLast(S, FirstLimit)
        BY <3>1, <3>5
      <4>2. /\ Newest(K) = Newest(S)
            /\ \A k \in S, j \in K : j < k => k \in K
        <5> HIDE DEF K, S
        <5>1. QED
          BY <3>1, <4>1, LastKeys, ChatWindowAssumption
      <4>3. Known' = K
        BY <3>2, <4>2, AnswersAreStored
      <4>4. lastMessageKey' = 0 \/ lastMessageKey' \in Shown'
        BY <2>1, <3>5, ShowFirstStep
      <4>5. QED
        BY <1>2, <3>3, <3>4, <4>1, <4>2, <4>3, <4>4 DEF Gapless
    <3>6. CASE K = {}
      <4>1. CASE S = {}
        BY <1>2, <3>3, <3>4, <4>1, AnswersAreStored DEF Gapless
      <4>2. CASE \E k \in Keys : S = {k}
        <5>1. PICK k \in Keys : S = {k}
          BY <4>2
        <5>2. S \subseteq Known'
          BY <3>1, <3>2, <5>1, NewestExists
        <5>3. QED
          BY <1>2, <3>3, <3>4, <5>2, AnswersAreStored DEF Gapless
      <4>3. QED
        BY <3>1, <3>6, <4>1, <4>2, LastKeys, ChatWindowAssumption
    <3>7. QED
      BY <3>5, <3>6
  <2>13. QED
    BY <2>7, <2>8, <2>9, <2>10, <2>11, <2>12 DEF Unbroken
<1>5. QED
  BY <1>3, <1>4

\* An event is delivered: without a switch it is one of the open conversation.
LEMMA DeliverStep ==
  ASSUME WindowInv, NEW s \in Slots, Deliver(s)
  PROVE  /\ UNCHANGED <<stored, status, chatKey, lastMessageKey, sub, page, races>>
         /\ task[s].phase = "live" /\ task[s].queue # <<>> /\ task[s].queue \in Seq(Keys)
         /\ \A t \in Slots : /\ task'[t].phase = task[t].phase /\ task'[t].chat = task[t].chat
                             /\ task'[t].keys = task[t].keys
                             /\ task'[t].queue = IF t = s THEN Tail(task[s].queue)
                                                 ELSE task[t].queue
         /\ \/ lastSeen' = lastSeen
            \/ lastSeen' = [lastSeen EXCEPT ![chatKey] = Head(task[s].queue)]
         /\ "switch" \notin races => /\ s = sub /\ s # NoSub /\ chatKey \in Chats
                                     /\ messages' = Append(messages, Head(task[s].queue))
<1> USE DEF WindowInv, SwitchInv
<1> DEFINE q == Tail(task[s].queue)
           r == [task[s] EXCEPT !.queue = q]
<1>1. /\ task \in [Slots -> Tasks] /\ task[s] \in Tasks /\ task[s].queue \in Seq(Keys)
  BY DEF TypeInv, TypeOK, Tasks
<1>2. /\ UNCHANGED <<stored, status, chatKey, lastMessageKey, sub, page, races>>
      /\ task[s].phase = "live" /\ task[s].queue # <<>>
      /\ \/ lastSeen' = lastSeen
         \/ lastSeen' = [lastSeen EXCEPT ![chatKey] = Head(task[s].queue)]
  BY DEF Deliver
<1>3. q \in Seq(Keys)
  BY <1>1, <1>2, HeadTailProperties
<1>4. \A t \in Slots : task'[t] = IF t = s THEN r ELSE task[t]
  BY <1>1 DEF Deliver
<1>5. "switch" \notin races => s = sub /\ s # NoSub /\ status # "disposed" /\ chatKey \in Chats
  BY <1>2, ChatWindowAssumption DEF Alone, Unbroken, Queues, TypeInv, Opened
<1>6. "switch" \notin races => messages' = Append(messages, Head(task[s].queue))
  BY <1>5 DEF Deliver
<1> HIDE DEF q
<1>7. /\ r.phase = task[s].phase /\ r.chat = task[s].chat
      /\ r.keys = task[s].keys /\ r.queue = q
  BY <1>1, <1>3, QueueUpdate
<1> HIDE DEF r
<1>8. \A t \in Slots : /\ task'[t].phase = task[t].phase /\ task'[t].chat = task[t].chat
                       /\ task'[t].keys = task[t].keys
                       /\ task'[t].queue = IF t = s THEN q ELSE task[t].queue
  BY <1>4, <1>7
<1>9. QED
  BY <1>1, <1>2, <1>5, <1>6, <1>8 DEF q

LEMMA UnbrokenDeliver ==
  ASSUME WindowInv, NEW s \in Slots, Deliver(s)
  PROVE  Unbroken'
<1> USE DEF WindowInv, SwitchInv
<1> DEFINE q == task[s].queue
           k == Head(q)
<1>1. /\ UNCHANGED <<stored, status, chatKey, lastMessageKey, sub, page, races>>
      /\ task[s].phase = "live" /\ q # <<>> /\ q \in Seq(Keys)
      /\ lastSeen' = lastSeen \/ lastSeen' = [lastSeen EXCEPT ![chatKey] = k]
  BY DeliverStep
<1>2. \A t \in Slots : /\ task'[t].phase = task[t].phase /\ task'[t].chat = task[t].chat
                       /\ task'[t].keys = task[t].keys
                       /\ task'[t].queue = IF t = s THEN Tail(q) ELSE task[t].queue
  BY DeliverStep
<1>3. "switch" \notin races => /\ s = sub /\ s # NoSub /\ chatKey \in Chats
                               /\ messages' = Append(messages, k)
  BY DeliverStep
<1>4. /\ Tail(q) \in Seq(Keys) /\ k \in Keys
      /\ 1 \in DOMAIN q /\ q[1] = k
      /\ Range(q) = {k} \union Range(Tail(q))
      /\ \A i \in DOMAIN Tail(q) : \E j \in DOMAIN q : Tail(q)[i] = q[j]
      /\ Increasing(Tail(q)) /\ \A i \in DOMAIN Tail(q) : k < Tail(q)[i]
  <2>1. Increasing(q)
    BY DEF Unbroken, Queues
  <2>2. Keys \in SUBSET Int
    BY DEF Keys
  <2> HIDE DEF q
  <2>3. QED
    BY <1>1, <2>1, <2>2, TailOrder
<1> HIDE DEF k
<1>5. Queues'
  <2>1. \A t \in Slots : Increasing(task'[t].queue)
    BY <1>2, <1>4 DEF Unbroken, Queues
  <2>2. \A t \in Slots : Increasing(task[t].queue)'
    BY <2>1 DEF Increasing
  <2>3. sub # NoSub => sub \in Slots
    BY DEF TypeInv, TypeOK
  <2>4. QED
    BY <1>1, <1>2, <2>2, <2>3 DEF Unbroken, Queues
<1>6. ("switch" \notin races => Unseen)'
  <2> SUFFICES ASSUME "switch" \notin races, NEW t \in Slots, task[t].phase = "live",
                      NEW i \in DOMAIN task'[t].queue
               PROVE  lastSeen'[chatKey] <= task'[t].queue[i]
    BY <1>1, <1>2 DEF Unseen
  <2>1. t = s /\ task'[t].queue = Tail(q)
    BY <1>2, <1>3 DEF Alone
  <2>2. PICK x : x = Tail(q)[i]
    OBVIOUS
  <2>3. x \in Keys /\ k < x /\ lastSeen[chatKey] <= x
    <3>1. PICK j \in DOMAIN q : Tail(q)[i] = q[j]
      BY <1>4, <2>1
    <3>2. q[j] \in Keys
      BY <1>1, LenProperties, ElementOfSeq
    <3>3. QED
      BY <1>1, <1>4, <2>1, <2>2, <3>1, <3>2 DEF Unbroken, Unseen
  <2>4. lastSeen'[chatKey] = lastSeen[chatKey] \/ lastSeen'[chatKey] = k
    BY <1>1, <1>3 DEF TypeInv, TypeOK
  <2>5. k <= x
    BY <1>4, <2>3 DEF Keys
  <2>6. QED
    BY <2>1, <2>2, <2>3, <2>4, <2>5
<1>7. (races \intersect {"switch", "overlap"} = {} => OneRequest)'
  BY <1>1, <1>2 DEF Unbroken, OneRequest, LoadInFlight, PageInFlight
<1>8. (races \intersect {"switch", "overlap", "stale"} = {} /\ sub # NoSub => Ordered)'
  <2> SUFFICES ASSUME races \intersect {"switch", "overlap", "stale"} = {}
               PROVE  Ordered'
    BY <1>1
  <2>1. /\ "switch" \notin races /\ s = sub /\ sub # NoSub /\ messages' = Append(messages, k)
        /\ Ordered /\ messages \in Seq(Keys) /\ Keys \in SUBSET Int
    BY <1>3 DEF Unbroken, TypeInv, TypeOK, Keys
  <2>2. \A i \in DOMAIN messages : messages[i] < k /\ messages[i] \in Keys
    BY <1>1, <1>4, <2>1, KeyOrder DEF Ordered
  <2>3. /\ Increasing(messages')
        /\ messages # <<>> => messages'[1] = messages[1]
        /\ \A i \in DOMAIN messages' : messages'[i] = k \/ messages'[i] < k
    BY <1>4, <2>1, <2>2, AppendOrder DEF Ordered
  <2>4. messages' # <<>>
    BY <1>4, <2>1, AppendProperties
  <2>5. ASSUME NEW i \in DOMAIN messages', NEW j \in DOMAIN Tail(q)
        PROVE  messages'[i] < Tail(q)[j]
    <3>1. messages'[i] = k \/ \E m \in DOMAIN messages : messages'[i] = messages[m]
      BY <1>4, <2>1, AppendOrder
    <3>2. PICK x : x = Tail(q)[j]
      OBVIOUS
    <3>3. PICK y : y = messages'[i]
      OBVIOUS
    <3>4. x \in Keys /\ k < x
      BY <1>4, <3>2, LenProperties, ElementOfSeq
    <3>5. y \in Keys /\ (y = k \/ y < k)
      BY <1>4, <2>2, <3>1, <3>3
    <3>6. y < x
      BY <1>4, <3>4, <3>5 DEF Keys
    <3>7. QED
      BY <3>2, <3>3, <3>6
  <2>6. task'[sub].phase = "live" /\ task'[sub].queue = Tail(q)
    BY <1>1, <1>2, <2>1
  <2>7. Increasing(messages)'
    BY <2>3 DEF Increasing
  <2>8. QED
    BY <1>1, <2>1, <2>3, <2>4, <2>5, <2>6, <2>7 DEF Ordered
<1>9. (races \subseteq {"stale"} => LoadIsRecent)'
  BY <1>1, <1>2, RecentStill DEF Unbroken
<1>10. (races \subseteq {"stale"} /\ sub # NoSub => Gapless)'
  <2> SUFFICES ASSUME races \subseteq {"stale"}
               PROVE  Gapless'
    BY <1>1
  <2>1. /\ "switch" \notin races /\ s = sub /\ sub # NoSub /\ messages' = Append(messages, k)
        /\ Gapless /\ messages \in Seq(Keys) /\ Keys \in SUBSET Int
    BY <1>3 DEF Unbroken, TypeInv, TypeOK, Keys
  <2>2. Shown' = Shown \union {k}
    <3>1. Range(Append(messages, k)) = Range(messages) \union {k}
      BY <1>4, <2>1, AppendOrder
    <3>2. QED
      BY <2>1, <3>1 DEF Shown, Range
  <2>3. Coming = {k} \union Range(Tail(q))
    <3>1. Coming = Range(q)
      BY <1>1, <2>1 DEF Coming, Queued, Range
    <3>2. QED
      BY <1>4, <3>1
  <2>4. task'[sub].phase = "live" /\ task'[sub].queue = Tail(q)
    BY <1>1, <1>2, <2>1
  <2>5. Coming' = Range(Tail(q))
    BY <1>1, <2>4 DEF Coming, Queued, Range
  <2>6. Known' = Known
    BY <2>2, <2>3, <2>5 DEF Known
  <2>7. Shown \subseteq Shown'
    BY <2>2
  <2>8. QED
    BY <1>1, <2>1, <2>6, <2>7, GaplessStill
<1>11. QED
  BY <1>5, <1>6, <1>7, <1>8, <1>9, <1>10 DEF Unbroken

\* A page is put on top of the window, without the message they share.
LEMMA CompletePageStep ==
  ASSUME WindowInv, NEW p \in PageSlots, CompletePage(p)
  PROVE  LET older == page[p].keys \ Newest(page[p].keys) IN
         /\ UNCHANGED <<stored, lastSeen, status, chatKey, sub, task, races>>
         /\ page[p].phase = "answered" /\ page[p].keys \in SUBSET Keys
         /\ \A q \in PageSlots : page'[q] = IF q = p THEN IdlePage ELSE page[q]
         /\ \/ UNCHANGED <<messages, lastMessageKey>>
            \/ /\ older # {}
               /\ \E chat \in Seq(older) :
                    /\ Increasing(chat) /\ Range(chat) = older /\ chat # <<>>
                    /\ lastMessageKey' = chat[1] /\ messages' = chat \o messages
<1> USE DEF WindowInv, SwitchInv
<1> DEFINE older == page[p].keys \ Newest(page[p].keys)
<1>1. page \in [PageSlots -> Pages] /\ page[p].keys \in SUBSET Keys
  BY DEF TypeInv, TypeOK, Pages
<1>2. /\ page[p].phase = "answered"
      /\ UNCHANGED <<stored, lastSeen, status, chatKey, sub, task, races>>
      /\ \A q \in PageSlots : page'[q] = IF q = p THEN IdlePage ELSE page[q]
  BY <1>1 DEF CompletePage, db
<1>3. \/ UNCHANGED <<messages, lastMessageKey>>
      \/ /\ older # {}
         /\ \E chat \in SortedLists(older) :
              lastMessageKey' = chat[1] /\ messages' = chat \o messages
  BY DEF CompletePage
<1>4. older \in SUBSET Keys
  BY <1>1
<1> HIDE DEF older
<1>5. ASSUME NEW chat \in SortedLists(older), older # {}
      PROVE  chat \in Seq(older) /\ Increasing(chat) /\ Range(chat) = older /\ chat # <<>>
  <2>1. chat \in Seq(older)
    BY <1>4, SortedListsSeq
  <2>2. /\ Increasing(chat) /\ {chat[i] : i \in DOMAIN chat} = older
        /\ 1 \in DOMAIN chat
    BY <1>4, <1>5, SortedListsAll
  <2>3. QED
    BY <2>1, <2>2 DEF Range
<1>6. QED
  BY <1>1, <1>2, <1>3, <1>5 DEF older

LEMMA UnbrokenCompletePage ==
  ASSUME WindowInv, NEW p \in PageSlots, CompletePage(p)
  PROVE  Unbroken'
<1> USE DEF WindowInv, SwitchInv
<1> DEFINE K == page[p].keys
           older == K \ Newest(K)
           S == stored[chatKey]
<1>1. /\ UNCHANGED <<stored, lastSeen, status, chatKey, sub, task, races>>
      /\ page[p].phase = "answered" /\ K \in SUBSET Keys
      /\ \A q \in PageSlots : page'[q] = IF q = p THEN IdlePage ELSE page[q]
  BY CompletePageStep
<1>2. IdlePage.phase = "idle"
  BY DEF IdlePage
<1>3. Queues'
  BY <1>1, <1>2 DEF Unbroken, Queues, Increasing
<1>4. ("switch" \notin races => Unseen)'
  BY <1>1 DEF Unbroken, Unseen
<1>5. races \intersect {"switch", "overlap"} = {} =>
        \A q \in PageSlots : page'[q].phase = "idle"
  BY <1>1, <1>2 DEF Unbroken, OneRequest
<1>6. (races \intersect {"switch", "overlap"} = {} => OneRequest)'
  BY <1>1, <1>5 DEF OneRequest, PageInFlight
<1>7. (races \subseteq {"stale"} => LoadIsRecent)'
  BY <1>1, RecentStill DEF Unbroken
<1>8. CASE UNCHANGED <<messages, lastMessageKey>>
  <2>1. (races \intersect {"switch", "overlap", "stale"} = {} /\ sub # NoSub => Ordered)'
    BY <1>1, <1>8 DEF Unbroken, Ordered, Increasing
  <2>2. Known' = Known /\ Shown' = Shown
    BY <1>1, <1>8 DEF Known, Shown, Coming, Queued, Newest
  <2>3. (races \subseteq {"stale"} /\ sub # NoSub => Gapless)'
    <3> SUFFICES ASSUME races \subseteq {"stale"}, sub # NoSub
                 PROVE  Gapless'
      BY <1>1
    <3>1. Gapless /\ \A q \in PageSlots : page'[q].phase = "idle"
      BY <1>5 DEF Unbroken
    <3>2. QED
      BY <1>1, <1>8, <2>2, <3>1, GaplessStill
  <2>4. QED
    BY <1>3, <1>4, <1>6, <1>7, <2>1, <2>3 DEF Unbroken
<1>9. ASSUME older # {}, NEW chat \in Seq(older),
             Increasing(chat), Range(chat) = older, chat # <<>>,
             lastMessageKey' = chat[1], messages' = chat \o messages
      PROVE  Unbroken'
  <2>1. /\ messages \in Seq(Keys) /\ chat \in Seq(Keys) /\ Keys \in SUBSET Int
        /\ older \in SUBSET Keys
    <3>1. older \in SUBSET Keys
      BY <1>1
    <3>2. messages \in Seq(Keys) /\ Keys \in SUBSET Int
      BY DEF TypeInv, TypeOK, Keys
    <3> HIDE DEF older
    <3>3. chat \in Seq(Keys)
      BY <1>9, <3>1, SeqMonotonic
    <3>4. QED
      BY <3>1, <3>2, <3>3
  <2> HIDE DEF older
  <2>2. /\ Range(messages') = older \union Range(messages)
        /\ messages' # <<>> /\ messages'[1] = chat[1]
        /\ \A i \in DOMAIN messages' : messages'[i] \in older \/ messages'[i] \in Range(messages)
        /\ Increasing(messages) /\ (\A x \in older, y \in Range(messages) : x < y)
             => Increasing(messages')
    BY <1>9, <2>1, ConcatOrder
  <2>3. PICK m \in K : Newest(K) = {m}
    BY <1>1, <1>9, NewestExists DEF older
  <2>4. /\ m \in Int /\ m > 0 /\ m <= page[p].end
        /\ \A x \in older : x \in K /\ x \in Int /\ x < m
    <3>1. \A x \in K : x \in Int /\ x > 0
      BY <1>1, KeyOrder
    <3>2. \A x \in K : x <= page[p].end
      BY <1>1 DEF Unbroken, Queues
    <3>3. \A x \in K : x <= m
      BY <1>1, <2>3, KeyOrder
    <3>4. QED
      BY <2>3, <3>1, <3>2, <3>3 DEF older
  <2>5. page[p].end \in Int /\ page[p].end # 0
    <3>1. page[p].end \in Int
      BY DEF TypeInv, TypeOK, Pages, Keys
    <3>2. QED
      BY <2>4, <3>1
  <2>6. (races \intersect {"switch", "overlap", "stale"} = {} /\ sub # NoSub => Ordered)'
    <3> SUFFICES ASSUME races \intersect {"switch", "overlap", "stale"} = {}, sub # NoSub
                 PROVE  Ordered'
      BY <1>1
    <3>1. Ordered /\ page[p].end = lastMessageKey
      BY <1>1 DEF Unbroken, OneRequest
    <3>2. messages # <<>> /\ page[p].end = messages[1] /\ 1 \in DOMAIN messages
      BY <2>1, <2>5, <3>1, EmptySeq, LenProperties DEF Ordered
    <3>3. ASSUME NEW x \in older, NEW i \in DOMAIN messages PROVE x < messages[i]
      <4>1. x \in Int /\ x < messages[1] /\ messages[1] \in Int
        BY <2>4, <2>5, <3>2
      <4>2. messages[i] \in Int /\ (i = 1 \/ messages[1] < messages[i])
        <5>1. messages[i] \in Keys /\ i \in Nat /\ i >= 1
          BY <2>1, LenProperties, ElementOfSeq
        <5>2. i = 1 \/ 1 < i
          BY <5>1
        <5>3. QED
          BY <2>1, <3>1, <3>2, <5>1, <5>2 DEF Ordered, Increasing
      <4>3. QED
        BY <4>1, <4>2
    <3>4. Increasing(messages')
      BY <2>2, <3>1, <3>3 DEF Ordered, Range
    <3>5. Increasing(messages)'
      BY <3>4 DEF Increasing
    <3>6. ASSUME NEW i \in DOMAIN messages'
          PROVE  \E j \in DOMAIN messages :
                   messages'[i] = messages[j] \/ messages'[i] \in older
      BY <2>2, <3>2 DEF Range
    <3>7. ASSUME NEW i \in DOMAIN messages', task[sub].phase = "subscribing"
          PROVE  \E k \in S : messages'[i] < k
      <4>1. PICK j \in DOMAIN messages : messages'[i] = messages[j] \/ messages'[i] \in older
        BY <3>6
      <4>2. PICK k \in S : messages[j] < k
        BY <3>1, <3>7 DEF Ordered
      <4>3. CASE messages'[i] \in older
        <5>1. messages'[i] < messages[j] /\ messages'[i] \in Int
          BY <2>4, <3>3, <4>3
        <5>2. k \in Int /\ messages[j] \in Int
          BY <2>1, <4>2, KeyOrder, OpenFacts
        <5>3. QED
          BY <4>2, <5>1, <5>2
      <4>4. QED
        BY <4>1, <4>2, <4>3
    <3>8. ASSUME NEW i \in DOMAIN messages', NEW n \in DOMAIN task[sub].queue,
                 task[sub].phase = "live"
          PROVE  messages'[i] < task[sub].queue[n]
      <4>1. PICK j \in DOMAIN messages : messages'[i] = messages[j] \/ messages'[i] \in older
        BY <3>6
      <4>2. messages[j] < task[sub].queue[n]
        BY <3>1, <3>8 DEF Ordered
      <4>3. CASE messages'[i] \in older
        <5>1. messages'[i] < messages[j] /\ messages'[i] \in Int
          BY <2>4, <3>3, <4>3
        <5>2. PICK k : k = task[sub].queue[n]
          OBVIOUS
        <5>3. k \in S /\ S \in SUBSET Int /\ messages[j] \in Int
          <6>1. task[sub].queue \in Seq(S) /\ S \in SUBSET Int
            BY OpenFacts
          <6>2. k \in S
            BY <3>8, <5>2, <6>1, LenProperties, ElementOfSeq
          <6>3. messages[j] \in Int
            BY <2>1, KeyOrder
          <6>4. QED
            BY <6>1, <6>2, <6>3
        <5>4. messages'[i] < k
          BY <4>2, <5>1, <5>2, <5>3
        <5>5. QED
          BY <5>2, <5>4
      <4>4. QED
        BY <4>1, <4>2, <4>3
    <3>9. QED
      BY <1>1, <1>9, <2>2, <3>5, <3>7, <3>8 DEF Ordered
  <2>7. (races \subseteq {"stale"} /\ sub # NoSub => Gapless)'
    <3> SUFFICES ASSUME races \subseteq {"stale"}, sub # NoSub
                 PROVE  Gapless'
      BY <1>1
    <3>1. /\ Gapless /\ "switch" \notin races
          /\ \A q \in PageSlots : page'[q].phase = "idle"
      BY <1>5 DEF Unbroken
    <3>2. Shown' = older \union Shown /\ Coming' = Coming
      BY <1>1, <2>2 DEF Shown, Range, Coming, Queued, Newest
    <3>3. Known' = older \union Known
      BY <3>2 DEF Known
    <3>4. lastMessageKey' \in Shown'
      <4>1. 1 \in DOMAIN chat
        BY <1>9, EmptySeq, LenProperties
      <4>2. chat[1] \in older
        BY <1>9, <4>1 DEF Range
      <4>3. QED
        BY <1>9, <3>2, <4>2
    <3>5. ASSUME NEW k \in S, NEW j \in Known', j < k PROVE k \in Known'
      <4>1. CASE j \in Known
        BY <3>1, <3>3, <3>5, <4>1 DEF Gapless
      <4>2. CASE S \subseteq Known
        BY <3>3, <4>2
      <4>3. CASE /\ page[p].end \in Shown
                 /\ K = LimitToLast(EndAt(S, page[p].end), PageLimit)
                 /\ j \in older
        <5> DEFINE e == page[p].end
        <5>1. Shown \subseteq S /\ S \in SUBSET Keys
          BY <3>1, OpenFacts
        <5>2. k \in Int /\ e \in Int /\ e \in S /\ EndAt(S, e) \in SUBSET Keys
          BY <2>5, <4>3, <5>1, KeyOrder DEF EndAt
        <5>3. CASE k <= e
          <6>1. k \in EndAt(S, e) /\ j \in K
            BY <2>4, <4>3, <5>3 DEF EndAt
          <6>2. k \in K
            <7> HIDE DEF K, S, e
            <7>1. \A y \in EndAt(S, e), x \in LimitToLast(EndAt(S, e), PageLimit) :
                    x < y => y \in LimitToLast(EndAt(S, e), PageLimit)
              BY <5>2, LastKeys, ChatWindowAssumption
            <7>2. QED
              BY <3>5, <4>3, <6>1, <7>1 DEF e
          <6>3. Newest(K) = Newest(EndAt(S, e))
            <7> HIDE DEF K, S, e
            <7>1. QED
              BY <4>3, <5>2, LastKeys, ChatWindowAssumption DEF e
          <6>4. e \in Newest(EndAt(S, e))
            BY <5>2 DEF Newest, EndAt
          <6>5. k \in older \/ k = e
            BY <2>3, <6>2, <6>3, <6>4 DEF older
          <6>6. QED
            BY <3>3, <4>3, <6>5 DEF Known
        <5>4. CASE ~(k <= e)
          <6>1. e < k
            BY <5>2, <5>4
          <6>2. e \in Known
            BY <4>3 DEF Known
          <6>3. QED
            BY <3>1, <3>3, <6>1, <6>2 DEF Gapless
        <5>5. QED
          BY <5>3, <5>4
      <4>4. QED
        BY <1>1, <2>5, <3>1, <3>3, <3>5, <4>1, <4>2, <4>3 DEF Gapless
    <3>6. LimitToLast(stored[chatKey], FirstLimit)' \subseteq Known'
      <4>1. LimitToLast(S, FirstLimit) \subseteq Known'
        BY <3>1, <3>3 DEF Gapless
      <4>2. QED
        BY <1>1, <4>1 DEF LimitToLast
    <3>7. QED
      BY <1>1, <3>1, <3>4, <3>5, <3>6 DEF Gapless
  <2>8. QED
    BY <1>3, <1>4, <1>6, <1>7, <2>6, <2>7 DEF Unbroken
<1>10. QED
  BY <1>8, <1>9, CompletePageStep

LEMMA WindowInit == Init => WindowInv
<1> SUFFICES ASSUME Init PROVE Unbroken
  BY SwitchInit DEF WindowInv
<1>1. /\ sub = NoSub /\ \A s \in Slots : task[s].phase = "free" /\ task[s].queue = <<>>
      /\ \A p \in PageSlots : page[p].phase = "idle"
  BY DEF Init, FreeTask, IdlePage
<1>2. Increasing(<<>>)
  BY DEF Increasing
<1>3. QED
  BY <1>1, <1>2 DEF Unbroken, Queues, Unseen, OneRequest, LoadInFlight, PageInFlight, LoadIsRecent

LEMMA WindowNext == WindowInv /\ [Next]_vars => WindowInv'
<1> SUFFICES ASSUME WindowInv, [Next]_vars
             PROVE  Unbroken'
  BY SwitchNext DEF WindowInv
<1>1. CASE PostFrame
  <2>1. CASE chatKeyStream = NoKey
    BY <1>1, <2>1, UnbrokenStill DEF PostFrame, db
  <2>2. CASE chatKeyStream # NoKey
    <3>1. /\ chatKeyStream \in Chats /\ OnChatKey(chatKeyStream)
          /\ UNCHANGED <<stored, lastSeen, messages, lastMessageKey, page>>
          /\ status' # "disposed"
      BY <1>1, <2>2 DEF PostFrame, WindowInv, SwitchInv, TypeInv, TypeOK, db
    <3>2. QED
      BY <3>1, UnbrokenOnChatKey
  <2>3. QED
    BY <2>1, <2>2
<1>2. ASSUME NEW c \in Chats, Select(c) PROVE Unbroken'
  <2>1. CASE status = "listening"
    BY <1>2, <2>1, UnbrokenOnChatKey DEF Select, db
  <2>2. CASE status # "listening"
    BY <1>2, <2>2, UnbrokenStill DEF Select, db
  <2>3. QED
    BY <2>1, <2>2
<1>3. CASE Logout
  BY <1>3, UnbrokenStill DEF Logout, db
<1>4. CASE UNCHANGED vars
  BY <1>4, UnbrokenStill DEF vars
<1>5. QED
  BY <1>1, <1>2, <1>3, <1>4, UnbrokenDispose, UnbrokenArrive, UnbrokenAnswerLoad,
     UnbrokenCompleteLoad, UnbrokenListen, UnbrokenDeliver, UnbrokenScrollTop,
     UnbrokenAnswerPage, UnbrokenCompletePage
  DEF Next, Client, Server

(***************************************************************************)
(* Without overlapping requests and without a left-over _lastMessageKey,   *)
(* the list is in key order without repetitions: removeLast() balances the *)
(* subscription's first event and the end of a page, in every run.         *)
(***************************************************************************)
THEOREM WindowInOrder == Spec => []ShownInOrder
<1>1. WindowInv => ShownInOrder
  BY DEF WindowInv, Unbroken, Ordered, Increasing, ShownInOrder
<1> QED
  BY <1>1, WindowInit, WindowNext, PTL DEF Spec

(***************************************************************************)
(* Without any overlap, the list and the events on their way hold the      *)
(* newest FirstLimit messages and everything younger than the oldest one.  *)
(***************************************************************************)
THEOREM WindowMissesNothing == Spec => []NothingMissing
<1>1. WindowInv => NothingMissing
  BY DEF WindowInv, Unbroken, Gapless, Known, Coming, NothingMissing
<1> QED
  BY <1>1, WindowInit, WindowNext, PTL DEF Spec

(***************************************************************************)
(* The seen marker only moves to younger messages, over all reopenings of  *)
(* a conversation: the first event of a new subscription is not older than *)
(* the marker, and the events follow each other in key order.              *)
(***************************************************************************)
THEOREM SeenMarkerAdvances == Spec => SeenNeverGoesBack
<1> DEFINE Advances == \A c \in Chats : lastSeen'[c] >= lastSeen[c]
<1>1. WindowInv /\ [Next]_vars => [("switch" \notin races) => Advances]_vars
  <2> SUFFICES ASSUME WindowInv, Next, "switch" \notin races
               PROVE  Advances
    OBVIOUS
  <2>1. lastSeen \in [Chats -> Keys \union {0}] /\ \A k \in Keys \union {0} : k \in Int
    BY DEF WindowInv, SwitchInv, TypeInv, TypeOK, Keys
  <2>2. CASE UNCHANGED lastSeen
    BY <2>1, <2>2
  <2>3. ASSUME NEW s \in Slots, Deliver(s) PROVE Advances
    <3> DEFINE k == Head(task[s].queue)
    <3>1. /\ task[s].phase = "live" /\ task[s].queue # <<>> /\ task[s].queue \in Seq(Keys)
          /\ chatKey \in Chats
          /\ lastSeen' = lastSeen \/ lastSeen' = [lastSeen EXCEPT ![chatKey] = k]
      BY <2>3, DeliverStep
    <3>2. 1 \in DOMAIN task[s].queue /\ task[s].queue[1] = k /\ k \in Keys
      <4>1. Keys \in SUBSET Int
        BY DEF Keys
      <4>2. QED
        BY <3>1, <4>1, TailOrder
    <3>3. lastSeen[chatKey] <= k
      BY <3>1, <3>2 DEF WindowInv, Unbroken, Unseen
    <3> HIDE DEF k
    <3>4. CASE lastSeen' = [lastSeen EXCEPT ![chatKey] = k]
      <4> SUFFICES ASSUME NEW c \in Chats PROVE lastSeen'[c] >= lastSeen[c]
        OBVIOUS
      <4>1. CASE c = chatKey
        BY <2>1, <3>1, <3>2, <3>3, <3>4, <4>1
      <4>2. CASE c # chatKey
        BY <2>1, <3>4, <4>2
      <4>3. QED
        BY <4>1, <4>2
    <3>5. QED
      BY <2>2, <3>1, <3>4
  <2> HIDE DEF Advances
  <2>4. QED
    BY <2>2, <2>3 DEF Next, Client, Server, PostFrame, Select, CompleteLoad, ScrollTop,
      CompletePage, Dispose, Logout, Arrive, AnswerLoad, Listen, AnswerPage, db
<1> QED
  BY <1>1, WindowInit, WindowNext, PTL DEF Spec, SeenNeverGoesBack

-----------------------------------------------------------------------------
(***************************************************************************)
(* The widget implements ConversationView until its first overlap.         *)
(***************************************************************************)
\* What is on screen is found again in a list that extends it.
LEMMA WindowKept ==
  ASSUME NEW S, NEW u \in Seq(S), NEW v \in Seq(S), NEW m \in Nat,
         m + Len(v) <= Len(u), \A i \in 1..Len(v) : u[m + i] = v[i]
  PROVE  v = SubSeq(u, m + 1, m + Len(v))
<1> DEFINE n == Len(v)
           w == SubSeq(u, m + 1, m + n)
<1>1. n \in Nat /\ Len(u) \in Nat
  BY LenProperties
<1>2. m + n <= Len(u) /\ \A i \in 1..n : u[m + i] = v[i]
  OBVIOUS
<1> HIDE DEF n
<1>3. \A i \in (m + 1)..(m + n) : u[i] \in S
  <2>1. \A i \in (m + 1)..(m + n) : i \in 1..Len(u)
    BY <1>1, <1>2
  <2>2. QED
    BY <2>1, ElementOfSeq
<1>4. m + 1 \in Int /\ m + n \in Int
  BY <1>1
<1>5. /\ w \in Seq(S)
      /\ Len(w) = IF m + 1 <= m + n THEN (m + n) - (m + 1) + 1 ELSE 0
      /\ \A i \in 1..((m + n) - (m + 1) + 1) : w[i] = u[m + 1 + i - 1]
  BY <1>3, <1>4, SubSeqProperties
<1> HIDE DEF w
<1>6. Len(w) = n /\ (m + n) - (m + 1) + 1 = n
  BY <1>1, <1>5
<1>7. \A i \in 1..n : m + 1 + i - 1 = m + i
  BY <1>1
<1>8. \A i \in 1..n : w[i] = v[i]
  BY <1>2, <1>5, <1>6, <1>7
<1>9. v = w
  BY <1>5, <1>6, <1>8, SeqEqual DEF n
<1>10. QED
  BY <1>9 DEF w, n

\* Without an overlap the list is a contiguous piece of the conversation.
LEMMA WindowIsContiguous ==
  WindowInv /\ races = {} /\ sub # NoSub => View!IsWindow(messages, stored[chatKey])
<1> SUFFICES ASSUME WindowInv, races = {}, sub # NoSub
             PROVE  View!IsWindow(messages, stored[chatKey])
  OBVIOUS
<1> DEFINE S == stored[chatKey]
<1>1. Ordered /\ Gapless
  BY DEF WindowInv, Unbroken
<1>2. /\ S \in SUBSET Keys /\ messages \in Seq(S) /\ Shown = Range(messages)
      /\ task[sub].phase \in {"subscribing", "live"}
      /\ Queued(sub) = Range(task[sub].queue) /\ Queued(sub) \subseteq S
  BY OpenFacts
<1>3. \A i \in DOMAIN messages : messages[i] \in S /\ messages[i] \in Int
  BY <1>2, LenProperties, ElementOfSeq, KeyOrder
<1>4. ASSUME NEW x \in Coming, NEW i \in DOMAIN messages PROVE messages[i] < x
  <2>1. CASE task[sub].phase = "live"
    BY <1>1, <1>4, <2>1 DEF Ordered, Coming, Queued
  <2>2. CASE task[sub].phase = "subscribing"
    <3>1. PICK k \in S : messages[i] < k
      BY <1>1, <2>2 DEF Ordered
    <3>2. x \in Newest(S)
      BY <1>4, <2>2 DEF Coming
    <3>3. k <= x /\ k \in Int /\ x \in Int
      BY <1>2, <3>1, <3>2, KeyOrder
    <3>4. QED
      BY <1>3, <3>1, <3>3, KeyOrder
  <2>3. QED
    BY <1>2, <2>1, <2>2
<1>5. ASSUME NEW k \in S, messages # <<>>, messages[1] <= k, k <= messages[Len(messages)]
      PROVE  \E i \in DOMAIN messages : messages[i] = k
  <2>1. 1 \in DOMAIN messages /\ Len(messages) \in DOMAIN messages
    BY <1>2, <1>5, EmptySeq, LenProperties
  <2>2. k \in Int
    BY <1>2, KeyOrder
  <2>3. k = messages[1] \/ messages[1] < k
    BY <1>3, <1>5, <2>1, <2>2
  <2>4. messages[1] \in Known
    BY <2>1 DEF Known, Shown
  <2>5. k \in Known
    BY <1>1, <2>3, <2>4 DEF Gapless
  <2>6. k \notin Coming
    <3> SUFFICES ASSUME k \in Coming PROVE FALSE
      OBVIOUS
    <3>1. messages[Len(messages)] < k
      BY <1>4, <2>1
    <3>2. QED
      BY <1>3, <1>5, <2>1, <2>2, <3>1
  <2>7. k \in Shown
    BY <2>5, <2>6 DEF Known
  <2>8. QED
    BY <2>7 DEF Shown
<1>6. QED
  BY <1>1, <1>3, <1>5 DEF View!IsWindow, Ordered, Increasing

\* A longer list that keeps what was on screen is a step of Grow.
LEMMA GrowStep ==
  ASSUME WindowInv', races' = {}, sub' # NoSub, UNCHANGED <<stored, chatKey>>,
         NEW v \in Seq(Keys), v = IF sub = NoSub THEN <<>> ELSE messages,
         chatKey \in Chats, NEW m \in Nat, messages' \in Seq(Keys),
         Len(v) < Len(messages'), m + Len(v) <= Len(messages'),
         \A i \in 1..Len(v) : messages'[m + i] = v[i]
  PROVE  View!Grow
<1> DEFINE w == messages'
<1>1. View!IsWindow(messages, stored[chatKey])'
  <2>1. (WindowInv /\ races = {} /\ sub # NoSub
           => View!IsWindow(messages, stored[chatKey]))'
    BY WindowIsContiguous, PTL
  <2>2. QED
    BY <2>1
<1>2. View!IsWindow(w, stored[chatKey])
  BY <1>1 DEF View!IsWindow
<1>3. v = SubSeq(w, m + 1, m + Len(v))
  BY WindowKept
<1>4. Len(v) \in Nat /\ Len(w) \in Nat
  BY LenProperties
<1>5. m \in 0..(Len(w) - Len(v)) /\ Len(w) > Len(v)
  BY <1>4
<1>6. (IF sub = NoSub THEN <<>> ELSE messages)' = w
  OBVIOUS
<1> HIDE DEF w
<1>7. QED
  BY <1>2, <1>3, <1>5, <1>6 DEF View!Grow

LEMMA OpenStep ==
  ASSUME NEW c \in Chats, OnChatKey(c), UNCHANGED <<stored, messages>>
  PROVE  View!Next \/ UNCHANGED View!viewVars
<1>1. CASE c = chatKey /\ UNCHANGED <<chatKey, sub, task, races>>
  BY <1>1 DEF View!viewVars
<1>2. CASE c # chatKey
  <2>1. chatKey' = c /\ sub' = NoSub
    BY <1>2 DEF OnChatKey
  <2>2. View!Open(c)
    BY <2>1 DEF View!Open
  <2>3. QED
    BY <2>2 DEF View!Next
<1>3. QED
  BY <1>1, <1>2 DEF OnChatKey

LEMMA GrowingStep ==
  ASSUME WindowInv, WindowInv', races' = {}, races = {},
         \/ \E s \in Slots : CompleteLoad(s) \/ Deliver(s)
         \/ \E p \in PageSlots : CompletePage(p)
  PROVE  View!Next \/ UNCHANGED View!viewVars
<1>1. messages \in Seq(Keys) /\ messages' \in Seq(Keys) /\ <<>> \in Seq(Keys)
  BY EmptySeq DEF WindowInv, SwitchInv, TypeInv, TypeOK
<1>2. Len(<<>>) = 0 /\ Len(messages) \in Nat /\ Len(messages') \in Nat
  BY <1>1, LenProperties, EmptySeq
<1>3. ASSUME NEW s \in Slots, CompleteLoad(s)
      PROVE  View!Next \/ UNCHANGED View!viewVars
  <2>1. CASE status = "disposed"
    BY <1>3, <2>1 DEF CompleteLoad, View!viewVars, db
  <2>2. CASE status # "disposed"
    <3>1. /\ sub' = s /\ s # NoSub /\ sub = NoSub /\ chatKey \in Chats
          /\ UNCHANGED <<stored, chatKey>>
      BY <1>3, <2>2, ChatWindowAssumption
      DEF CompleteLoad, db, WindowInv, SwitchInv, Alone, TypeInv, Opened
    <3>2. CASE messages' = <<>>
      BY <3>1, <3>2 DEF View!viewVars
    <3>3. CASE messages' # <<>>
      <4>1. 0 < Len(messages')
        BY <1>1, <3>3, EmptySeq
      <4>2. <<>> = IF sub = NoSub THEN <<>> ELSE messages
        BY <3>1
      <4>3. /\ Len(<<>>) < Len(messages') /\ 0 + Len(<<>>) <= Len(messages')
            /\ \A i \in 1..Len(<<>>) : messages'[0 + i] = <<>>[i]
        BY <1>2, <4>1
      <4>4. View!Grow
        BY <1>1, <3>1, <4>2, <4>3, GrowStep
      <4>5. QED
        BY <4>4 DEF View!Next
    <3>4. QED
      BY <3>2, <3>3
  <2>3. QED
    BY <2>1, <2>2
<1>4. ASSUME NEW s \in Slots, Deliver(s)
      PROVE  View!Next \/ UNCHANGED View!viewVars
  <2> DEFINE k == Head(task[s].queue)
  <2>1. /\ s = sub /\ sub' = sub /\ sub # NoSub /\ chatKey \in Chats
        /\ UNCHANGED <<stored, chatKey>> /\ messages' = Append(messages, k)
        /\ k \in Keys
    <3>1. task[s].queue # <<>> /\ task[s].queue \in Seq(Keys)
      BY <1>4, DeliverStep
    <3>2. QED
      BY <1>4, <3>1, DeliverStep, HeadTailProperties
  <2> HIDE DEF k
  <2>2. /\ Len(messages') = Len(messages) + 1
        /\ \A i \in 1..Len(messages) : messages'[i] = messages[i]
    BY <1>1, <2>1, AppendProperties
  <2>3. /\ Len(messages) < Len(messages') /\ 0 + Len(messages) <= Len(messages')
        /\ \A i \in 1..Len(messages) : messages'[0 + i] = messages[i]
    BY <1>2, <2>2
  <2>4. View!Grow
    BY <1>1, <2>1, <2>3, GrowStep
  <2>5. QED
    BY <2>4 DEF View!Next
<1>5. ASSUME NEW p \in PageSlots, CompletePage(p)
      PROVE  View!Next \/ UNCHANGED View!viewVars
  <2> DEFINE older == page[p].keys \ Newest(page[p].keys)
  <2>1. /\ UNCHANGED <<stored, chatKey, sub>> /\ page[p].phase = "answered"
        /\ older \in SUBSET Keys
        /\ \/ UNCHANGED messages
           \/ \E chat \in Seq(older) : chat # <<>> /\ messages' = chat \o messages
    BY <1>5, CompletePageStep
  <2> HIDE DEF older
  <2>2. CASE UNCHANGED messages \/ sub = NoSub
    BY <2>1, <2>2 DEF View!viewVars
  <2>3. ASSUME NEW chat \in Seq(older), chat # <<>>, messages' = chat \o messages, sub # NoSub
        PROVE  View!Grow
    <3>1. chat \in Seq(Keys) /\ Len(chat) \in Nat /\ Len(chat) # 0
      BY <2>1, <2>3, SeqMonotonic, EmptySeq, LenProperties
    <3>2. /\ Len(messages') = Len(chat) + Len(messages)
          /\ \A i \in 1..(Len(chat) + Len(messages)) :
               messages'[i] = IF i <= Len(chat) THEN chat[i] ELSE messages[i - Len(chat)]
      BY <1>1, <2>3, <3>1, ConcatProperties
    <3>3. PICK n \in Nat, m \in Nat : n = Len(messages) /\ m = Len(chat)
      BY <1>2, <3>1
    <3>4. \A i \in 1..n : messages'[m + i] = messages[i]
      <4> SUFFICES ASSUME NEW i \in 1..n PROVE messages'[m + i] = messages[i]
        OBVIOUS
      <4>1. m + i \in 1..(m + n) /\ ~(m + i <= m) /\ (m + i) - m = i
        OBVIOUS
      <4>2. QED
        BY <3>2, <3>3, <4>1
    <3>5. n < Len(messages') /\ m + n <= Len(messages')
      BY <3>1, <3>2, <3>3
    <3>6. chatKey \in Chats
      BY <2>1 DEF WindowInv, SwitchInv, TypeInv, Opened
    <3>7. QED
      BY <1>1, <2>1, <2>3, <3>3, <3>4, <3>5, <3>6, GrowStep
  <2>4. QED
    BY <2>1, <2>2, <2>3 DEF View!Next
<1>6. QED
  BY <1>3, <1>4, <1>5

LEMMA ViewStep ==
  ASSUME WindowInv, WindowInv', [Next]_vars, races' = {}
  PROVE  View!Next \/ UNCHANGED View!viewVars
<1>1. races = {}
  BY DEF Next, Client, Server, PostFrame, Select, OnChatKey, CompleteLoad, ShowFirst,
    Deliver, ScrollTop, CompletePage, Dispose, Logout, Arrive, AnswerLoad, Listen,
    AnswerPage, vars
<1>2. ASSUME NEW c \in Chats, NEW k \in Keys, Arrive(c, k) PROVE View!Next
  <2>1. View!Receive(c, k)
    BY <1>2 DEF Arrive, View!Receive, widget
  <2>2. QED
    BY <2>1 DEF View!Next, Keys
<1>3. CASE PostFrame
  <2>1. CASE chatKeyStream = NoKey
    BY <1>3, <2>1 DEF PostFrame, View!viewVars, db
  <2>2. CASE chatKeyStream # NoKey
    <3>1. /\ chatKeyStream \in Chats /\ OnChatKey(chatKeyStream)
          /\ UNCHANGED <<stored, messages>>
      BY <1>3, <2>2 DEF PostFrame, WindowInv, SwitchInv, TypeInv, TypeOK, db
    <3>2. QED
      BY <3>1, OpenStep
  <2>3. QED
    BY <2>1, <2>2
<1>4. ASSUME NEW c \in Chats, Select(c) PROVE View!Next \/ UNCHANGED View!viewVars
  <2>1. CASE status = "listening"
    BY <1>4, <2>1, OpenStep DEF Select, db
  <2>2. CASE status # "listening"
    BY <1>4, <2>2 DEF Select, View!viewVars, db
  <2>3. QED
    BY <2>1, <2>2
<1>5. CASE Dispose
  <2>1. View!Close
    BY <1>5 DEF Dispose, View!Close, db
  <2>2. QED
    BY <2>1 DEF View!Next
<1>6. CASE \/ Logout \/ UNCHANGED vars
           \/ \E s \in Slots : AnswerLoad(s) \/ Listen(s)
           \/ \E p \in PageSlots : ScrollTop(p) \/ AnswerPage(p)
  BY <1>6 DEF Logout, vars, AnswerLoad, Listen, ScrollTop, AnswerPage, db, widget, View!viewVars
<1>7. CASE \/ \E s \in Slots : CompleteLoad(s) \/ Deliver(s)
           \/ \E p \in PageSlots : CompletePage(p)
  BY <1>1, <1>7, GrowingStep
<1>8. QED
  BY <1>2, <1>3, <1>4, <1>5, <1>6, <1>7 DEF Next, Client, Server

(***************************************************************************)
(* Until its first overlap, the ChatWidget implements ConversationView:    *)
(* the first load without its newest message, the limitToLast(1) events    *)
(* and the pages extend one contiguous piece of the open conversation.     *)
(***************************************************************************)
THEOREM WindowImplementsView == Spec => ShowsOneConversation
<1>1. Init => View!Init
  BY DEF Init, View!Init
<1>2. WindowInv /\ WindowInv' /\ [Next]_vars =>
        [races' = {} => View!Next]_(View!viewVars)
  BY ViewStep
<1> QED
  BY <1>1, <1>2, WindowInit, WindowNext, PTL DEF Spec, ShowsOneConversation
=============================================================================
