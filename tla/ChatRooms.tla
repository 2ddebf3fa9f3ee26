----------------------------- MODULE ChatRooms ------------------------------
(***************************************************************************)
(* The conversations several clients share in the Firebase database, and   *)
(* the unread badges computed from them.                                   *)
(*                                                                         *)
(* A message is sent with three separate writes (chat_widget.dart,         *)
(* _sendToRealTimeChat and the ends of openGallery, openCamera and         *)
(* stopRecorder): the message itself, the summary lastMessage of its       *)
(* conversation, and lastTimeStamp.  A conversation carries a badge for a  *)
(* user iff lastMessage.key differs from the user's lastSeen marker, which *)
(* is written by the open window and by a tap on the conversation's tile.  *)
(* A Firebase client sends its writes one after the other and the server   *)
(* interleaves those of different clients; a client that dies loses the    *)
(* writes it had not sent yet.                                             *)
(*                                                                         *)
(* The window of ChatWindow is reduced here to what it does to this state: *)
(* the conversation it is subscribed to, and its events still to come.     *)
(***************************************************************************)
EXTENDS Integers, Sequences, FiniteSets

CONSTANTS
  Users,
  Chats,
  NoKey,     \* no conversation
  Faulty,    \* bound: the clients that may die
  Uploaders, \* bound: the clients that send pictures and recordings
  MaxKey,    \* bound: messages sent
  MaxOutbox  \* bound: writes a client has not sent yet

ASSUME ChatRoomsAssumption ==
  /\ NoKey \notin Chats
  /\ Faulty \subseteq Users /\ Uploaders \subseteq Users
  /\ MaxKey \in Nat
  /\ MaxOutbox \in Nat

VARIABLES
  stored,         \* chats/<chat>/messages
  lastMessage,    \* chats/<chat>/lastMessage/key, 0 if there is none
  lastTimeStamp,  \* chats/<chat>/lastTimeStamp, as the key it was taken with
  lastSeen,       \* chats/<chat>/users/<user>/lastSeen
  nextKey,        \* the next push key: keys are ordered by creation time
  outbox,         \* the writes each client has issued and not sent
  open,           \* the conversation each client's window is subscribed to
  events,         \* child-added events on their way to that window
  upload,         \* the conversation a picture or a recording is uploaded for
  tiles,          \* LastChatProduct's last snapshot: lastMessage of each chat
  torn,           \* history: chats whose last sends overlapped or were cut off
  backdated       \* history: user, chat pairs with an outdated tap as last mark

server == <<stored, lastMessage, lastTimeStamp, lastSeen>>
vars == <<stored, lastMessage, lastTimeStamp, lastSeen, nextKey, outbox, open,
          events, upload, tiles, torn, backdated>>

Keys   == 1..MaxKey
Fields == {"message", "lastMessage", "lastTimeStamp", "lastSeen"}
Writes == [field : Fields, chat : Chats, key : Keys]

Write(f, c, k) == [field |-> f, chat |-> c, key |-> k]

Newest(S) == {k \in S : \A j \in S : j <= k}

Issued(u, f, c) ==
  {i \in DOMAIN outbox[u] : outbox[u][i].field = f /\ outbox[u][i].chat = c}

\* The writes of other clients that change the messages or the summary of c.
OthersSending(u, c) ==
  \E v \in Users \ {u}, f \in Fields \ {"lastSeen"} : Issued(v, f, c) # {}

\* A client sees its own writes at once.
Local(u, f, c, base) ==
  LET own == Issued(u, f, c)
  IN  IF own = {} THEN base
      ELSE outbox[u][CHOOSE i \in own : \A j \in own : j <= i].key

Known(u, c) ==
  stored[c] \union {outbox[u][i].key : i \in Issued(u, "message", c)}

Badge(u, c) == lastMessage[c] # 0 /\ lastMessage[c] # lastSeen[c][u]

-----------------------------------------------------------------------------
Init ==
  /\ stored = [c \in Chats |-> {}]
  /\ lastMessage = [c \in Chats |-> 0]
  /\ lastTimeStamp = [c \in Chats |-> 0]
  /\ lastSeen = [c \in Chats |-> [u \in Users |-> 0]]
  /\ nextKey = 1
  /\ outbox = [u \in Users |-> <<>>]
  /\ open = [u \in Users |-> NoKey]
  /\ events = [u \in Users |-> <<>>]
  /\ upload = [u \in Users |-> NoKey]
  /\ tiles = [u \in Users |-> [c \in Chats |-> 0]]
  /\ torn = {}
  /\ backdated = {}

(***************************************************************************)
(* The three writes of a send, under a fresh key.  The sender's own        *)
(* subscription reports the message at once.  Sending while another        *)
(* client's send to the same conversation is under way tears the summary;  *)
(* any other send repairs it.                                              *)
(***************************************************************************)
SummaryFirst(c, k) ==  \* mutant: lastMessage before the message
  <<Write("lastMessage", c, k), Write("message", c, k),
    Write("lastTimeStamp", c, k)>>

NoSummary(c, k) ==  \* mutant: lastMessage not updated
  <<Write("message", c, k), Write("lastTimeStamp", c, k)>>

SendWrites(c, k) ==
  <<Write("message", c, k), Write("lastMessage", c, k),
    Write("lastTimeStamp", c, k)>>

Send(u, c) ==
  /\ nextKey \in Keys
  /\ Len(outbox[u]) + 3 <= MaxOutbox
  /\ outbox' = [outbox EXCEPT ![u] = @ \o SendWrites(c, nextKey)]
  /\ events' = IF open[u] = c
               THEN [events EXCEPT ![u] = Append(@, nextKey)]
               ELSE events
  /\ nextKey' = nextKey + 1
  /\ torn' = IF OthersSending(u, c) THEN torn \union {c} ELSE torn \ {c}

\* The send button writes to oldKey.
SendText(u) ==
  /\ open[u] # NoKey
  /\ Send(u, open[u])
  /\ UNCHANGED <<server, open, upload, tiles, backdated>>

\* openGallery, openCamera and stopRecorder remember _chatKey and upload a file.
\* (One that no bounded send could follow is not started.)
StartUpload(u) ==
  /\ u \in Uploaders
  /\ nextKey \in Keys
  /\ open[u] # NoKey
  /\ upload[u] = NoKey
  /\ upload' = [upload EXCEPT ![u] = open[u]]
  /\ UNCHANGED <<server, nextKey, outbox, open, events, tiles, torn, backdated>>

\* The answer "success" is followed by a send to the remembered conversation.
FinishUpload(u) ==
  /\ upload[u] # NoKey
  /\ Send(u, upload[u])
  /\ upload' = [upload EXCEPT ![u] = NoKey]
  /\ UNCHANGED <<server, open, tiles, backdated>>

\* No picture picked, uploadFileService throws, or null.message does.
FailUpload(u) ==
  /\ upload[u] # NoKey
  /\ upload' = [upload EXCEPT ![u] = NoKey]
  /\ UNCHANGED <<server, nextKey, outbox, open, events, tiles, torn, backdated>>

-----------------------------------------------------------------------------
(***************************************************************************)
(* The server applies the oldest write of a client.  Windows of the other  *)
(* clients on that conversation hear of a message newer than all they know.*)
(***************************************************************************)
Apply(u) ==
  /\ outbox[u] # <<>>
  /\ outbox' = [outbox EXCEPT ![u] = Tail(@)]
  /\ LET w == Head(outbox[u])
         c == w.chat
     IN  /\ stored' = IF w.field # "message" THEN stored
                      ELSE [stored EXCEPT ![c] = @ \union {w.key}]
         /\ lastMessage' = IF w.field # "lastMessage" THEN lastMessage
                           ELSE [lastMessage EXCEPT ![c] = w.key]
         /\ lastTimeStamp' = IF w.field # "lastTimeStamp" THEN lastTimeStamp
                             ELSE [lastTimeStamp EXCEPT ![c] = w.key]
         /\ lastSeen' = IF w.field # "lastSeen" THEN lastSeen
                        ELSE [lastSeen EXCEPT ![c][u] = w.key]
         /\ events' = [v \in Users |->
              IF /\ w.field = "message" /\ v # u /\ open[v] = c
                 /\ \A j \in Known(v, c) : j < w.key
              THEN Append(events[v], w.key)
              ELSE events[v]]
  /\ UNCHANGED <<nextKey, open, upload, tiles, torn, backdated>>

\* A client process dies.  Its unsent writes are gone; what it had stored of a
\* message without its summary stays.
Crash(u) ==
  /\ u \in Faulty
  /\ outbox' = [outbox EXCEPT ![u] = <<>>]
  /\ open' = [open EXCEPT ![u] = NoKey]
  /\ events' = [events EXCEPT ![u] = <<>>]
  /\ upload' = [upload EXCEPT ![u] = NoKey]
  /\ tiles' = [tiles EXCEPT ![u] = [c \in Chats |-> 0]]
  /\ torn' = torn \union {c \in Chats :
       Issued(u, "lastMessage", c) \union Issued(u, "lastTimeStamp", c) # {}}
  /\ UNCHANGED <<server, nextKey, backdated>>

-----------------------------------------------------------------------------
HearUnmarked(u) ==  \* mutant: the message is shown and not marked as seen
  /\ events[u] # <<>>
  /\ Len(outbox[u]) < MaxOutbox
  /\ events' = [events EXCEPT ![u] = Tail(@)]
  /\ UNCHANGED <<server, nextKey, outbox, open, upload, tiles, torn, backdated>>

\* _listenToRealTimeChat marks the message as seen in the open conversation.
Hear(u) ==
  /\ events[u] # <<>>
  /\ Len(outbox[u]) < MaxOutbox
  /\ events' = [events EXCEPT ![u] = Tail(@)]
  /\ outbox' = [outbox EXCEPT ![u] =
                  Append(@, Write("lastSeen", open[u], Head(events[u])))]
  /\ backdated' = backdated \ {<<u, open[u]>>}
  /\ UNCHANGED <<server, nextKey, open, upload, tiles, torn>>

\* LastChatProduct's onValue listener receives the conversations anew.
Refresh(u) ==
  /\ tiles' = [tiles EXCEPT ![u] =
       [c \in Chats |-> Local(u, "lastMessage", c, lastMessage[c])]]
  /\ UNCHANGED <<server, nextKey, outbox, open, events, upload, torn, backdated>>

(***************************************************************************)
(* ChatItem.onTap: publish the conversation, then mark the lastMessage of  *)
(* the tile, which may be outdated, as seen; without one, .key throws.  A  *)
(* conversation that is not open yet is opened (see ChatWindow) and its    *)
(* newest message reported; one that is already open is left as it is.     *)
(***************************************************************************)
TapUnopened(u, c) ==  \* mutant: the window does not report the newest message
  /\ Len(outbox[u]) < MaxOutbox
  /\ open' = [open EXCEPT ![u] = c]
  /\ events' = IF open[u] = c THEN events ELSE [events EXCEPT ![u] = <<>>]
  /\ outbox' = IF tiles[u][c] = 0 THEN outbox
               ELSE [outbox EXCEPT ![u] = Append(@, Write("lastSeen", c, tiles[u][c]))]
  /\ UNCHANGED <<server, nextKey, upload, tiles, torn, backdated>>

Tap(u, c) ==
  /\ Len(outbox[u]) < MaxOutbox
  /\ open' = [open EXCEPT ![u] = c]
  /\ \/ /\ open[u] # c /\ Known(u, c) # {}
        /\ \E k \in Newest(Known(u, c)) : events' = [events EXCEPT ![u] = <<k>>]
     \/ /\ open[u] # c /\ Known(u, c) = {}
        /\ events' = [events EXCEPT ![u] = <<>>]
     \/ /\ open[u] = c
        /\ UNCHANGED events
  /\ outbox' = IF tiles[u][c] = 0 THEN outbox
               ELSE [outbox EXCEPT ![u] = Append(@, Write("lastSeen", c, tiles[u][c]))]
  /\ backdated' =
       IF tiles[u][c] # 0 /\ events'[u] = <<>> /\ tiles[u][c] \notin Newest(Known(u, c))
       THEN backdated \union {<<u, c>>}
       ELSE backdated \ {<<u, c>>}
  /\ UNCHANGED <<server, nextKey, upload, tiles, torn>>

\* The window is disposed of; the pending writes are still sent.
Close(u) ==
  /\ open[u] # NoKey
  /\ open' = [open EXCEPT ![u] = NoKey]
  /\ events' = [events EXCEPT ![u] = <<>>]
  /\ UNCHANGED <<server, nextKey, outbox, upload, tiles, torn, backdated>>

Client(u) ==
  \/ SendText(u) \/ StartUpload(u) \/ FinishUpload(u) \/ FailUpload(u)
  \/ Hear(u) \/ Refresh(u) \/ Close(u)
  \/ \E c \in Chats : Tap(u, c)

Next == \E u \in Users : Client(u) \/ Apply(u) \/ Crash(u)

Spec == Init /\ [][Next]_vars

(***************************************************************************)
(* A live client gets its writes through and its events delivered: the     *)
(* database client retries until it has sent, and Dart's event loop runs   *)
(* every pending listener.  Hear is strongly fair because only the bound   *)
(* on the outbox ever disables it while an event is pending.               *)
(***************************************************************************)
FairSpec == Spec /\ \A u \in Users : WF_vars(Apply(u)) /\ SF_vars(Hear(u))

-----------------------------------------------------------------------------
TypeOK ==
  /\ stored \in [Chats -> SUBSET Keys]
  /\ lastMessage \in [Chats -> Keys \union {0}]
  /\ lastTimeStamp \in [Chats -> Keys \union {0}]
  /\ lastSeen \in [Chats -> [Users -> Keys \union {0}]]
  /\ nextKey \in 1..(MaxKey + 1)
  /\ outbox \in [Users -> Seq(Writes)]
  /\ open \in [Users -> Chats \union {NoKey}]
  /\ events \in [Users -> Seq(Keys)]
  /\ upload \in [Users -> Chats \union {NoKey}]
  /\ tiles \in [Users -> [Chats -> Keys \union {0}]]
  /\ torn \subseteq Chats
  /\ backdated \subseteq Users \X Chats

(***************************************************************************)
(* Everything the server says about a conversation refers to a message it  *)
(* has: the message is written before its summary, and a seen marker is    *)
(* only ever written for a message that was received, sent earlier by the  *)
(* same client, or named by the summary - whatever is interleaved or lost. *)
(***************************************************************************)
NoDanglingKeys ==
  \A c \in Chats :
    /\ lastMessage[c] \in stored[c] \union {0}
    /\ lastTimeStamp[c] \in stored[c] \union {0}
    /\ \A u \in Users : lastSeen[c][u] \in stored[c] \union {0}

Settled(c) == \A u \in Users, f \in Fields : Issued(u, f, c) = {}

(***************************************************************************)
(* When nothing is on its way to a conversation, its summary and its place *)
(* in the list are those of its newest message, unless the latest sends to *)
(* it overlapped or were cut off by a crash.                               *)
(***************************************************************************)
SummaryIsNewest ==
  \A c \in Chats : Settled(c) /\ c \notin torn /\ stored[c] # {} =>
    {lastMessage[c]} = Newest(stored[c]) /\ lastTimeStamp[c] = lastMessage[c]

(***************************************************************************)
(* A conversation that is open and at rest carries no badge: opening it,   *)
(* and every message that comes in while it is open, marks the newest      *)
(* message as seen.  Only a torn summary, or a tap on an outdated tile of  *)
(* the conversation that is already open, leave a badge on what was read.  *)
(***************************************************************************)
OpenMeansRead ==
  \A u \in Users, c \in Chats :
    /\ Settled(c) /\ open[u] = c /\ events[u] = <<>>
    /\ c \notin torn /\ <<u, c>> \notin backdated
    => ~Badge(u, c)

(***************************************************************************)
(* The badge of a conversation that stays open goes away, with the same    *)
(* two exceptions: no order of writes and events leaves it standing.       *)
(***************************************************************************)
EventuallyRead ==
  \A u \in Users, c \in Chats :
    open[u] = c ~> \/ open[u] # c
                   \/ c \in torn \/ <<u, c>> \in backdated
                   \/ ~Badge(u, c)
=============================================================================
