-------------------------- MODULE ConversationView --------------------------
(***************************************************************************)
(* What a chat window promises: the conversation on screen is a contiguous *)
(* piece of the stored one, in order, and it only ever grows at its two    *)
(* ends until another conversation is opened.                              *)
(***************************************************************************)
EXTENDS Integers, Sequences

CONSTANTS Chats, NoKey, MaxKey

VARIABLES
  stored,  \* the messages of each conversation
  chat,    \* the conversation on screen
  view     \* its messages on screen, top to bottom

viewVars == <<stored, chat, view>>

\* v lists, in order, all of S between its first and its last element.
IsWindow(v, S) ==
  /\ \A i \in DOMAIN v : v[i] \in S
  /\ \A i, j \in DOMAIN v : i < j => v[i] < v[j]
  /\ \A k \in S : v # <<>> /\ v[1] <= k /\ k <= v[Len(v)] =>
       \E i \in DOMAIN v : v[i] = k

Init ==
  /\ stored = [c \in Chats |-> {}]
  /\ chat = NoKey
  /\ view = <<>>

Receive(c, k) ==
  /\ stored' = [stored EXCEPT ![c] = @ \union {k}]
  /\ UNCHANGED <<chat, view>>

Open(c) ==
  /\ chat' = c
  /\ view' = <<>>
  /\ UNCHANGED stored

Close ==
  /\ view' = <<>>
  /\ UNCHANGED <<stored, chat>>

\* Messages are added above or below; those on screen stay, in their order.
Grow ==
  /\ chat \in Chats
  /\ Len(view') > Len(view)
  /\ \E m \in 0..(Len(view') - Len(view)) :
       view = SubSeq(view', m + 1, m + Len(view))
  /\ IsWindow(view', stored[chat])
  /\ UNCHANGED <<stored, chat>>

Next ==
  \/ \E c \in Chats, k \in 1..MaxKey : Receive(c, k)
  \/ \E c \in Chats : Open(c)
  \/ Close
  \/ Grow

Spec == Init /\ [][Next]_viewVars
=============================================================================
