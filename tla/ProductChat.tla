---------------------------- MODULE ProductChat -----------------------------
(***************************************************************************)
(* ProductDetailScreen and the conversation about its product.             *)
(*                                                                         *)
(* A product page asks the backend whether the user already has a          *)
(* conversation about the product and publishes its key, or null, on       *)
(* ChatProvider.chatKeyStream; "Create chat" publishes the key of a new    *)
(* one.  The stream is one for the whole app and the pages are stacked (a  *)
(* related product opens above), so every ChatWidget of every page follows *)
(* every publication.                                                      *)
(*                                                                         *)
(* There is one conversation per user and product, so a product stands for *)
(* the key of its conversation.  What a window does with its key is        *)
(* ChatWindow's subject; quantity, date and favourite are left out.        *)
(***************************************************************************)
EXTENDS Integers, Sequences

CONSTANTS
  Products,
  Null,       \* the key null, published for a product without conversation
  NoKey,      \* nothing published yet, or nothing received
  MaxPages,   \* bound: pages on top of each other
  MaxCreates  \* bound: "Create chat" requests of a page at once

ASSUME ProductChatAssumption ==
  /\ Null \notin Products /\ NoKey \notin Products \union {Null}
  /\ MaxPages \in Nat /\ MaxCreates \in Nat

VARIABLES
  chats,          \* the products the backend has a conversation about
  orphans,        \* products with a create request whose page is gone
  signedIn,       \* UserProvider.user # null
  chatKeyStream,  \* latest value of ChatProvider.chatKeyStream
  pages           \* the product pages, the one on screen last

vars == <<chats, orphans, signedIn, chatKeyStream, pages>>

Keys == Products \union {Null, NoKey}

Pages ==
  [product     : Products,
   detail      : {"asked", "here", "failed"},  \* getProductDetailClient
   lookup      : {"off", "asked", "found", "missing"},  \* getChatProductDetail
   creates     : 0..MaxCreates,  \* createChatProduct: requests on their way
   created     : 0..MaxCreates,  \* and answers on their way back
   isChatted   : BOOLEAN,
   showLoading : BOOLEAN,
   window      : Keys,      \* _chatKey of the page's ChatWidget
   listening   : BOOLEAN,   \* the ChatWidget has subscribed to the stream
   failed      : BOOLEAN,   \* history: a request of the page failed
   calm        : BOOLEAN]   \* history: no other request could interfere

Waiting(pg) == pg.lookup # "off" \/ pg.creates + pg.created > 0

Top == Len(pages)

\* chatKeyStream.add(k): every window that listens takes the key over.
Publish(ps, k) ==
  /\ chatKeyStream' = k
  /\ pages' = [i \in DOMAIN ps |->
                 IF ps[i].listening THEN [ps[i] EXCEPT !.window = k] ELSE ps[i]]

-----------------------------------------------------------------------------
Init ==
  /\ chats \in SUBSET Products
  /\ orphans = {}
  /\ signedIn \in BOOLEAN
  /\ chatKeyStream \in chats \union {Null, NoKey}
  /\ pages = <<>>

(***************************************************************************)
(* initState.  Without a user the look-up is not made: user.token throws.  *)
(* A page that is opened above another one is going to publish for both.   *)
(***************************************************************************)
Open(p) ==
  /\ Top < MaxPages
  /\ pages' = Append(
       [i \in DOMAIN pages |-> [pages[i] EXCEPT !.calm = FALSE]],
       [product |-> p, detail |-> "asked",
        lookup |-> IF signedIn THEN "asked" ELSE "off",
        creates |-> 0, created |-> 0, isChatted |-> FALSE, showLoading |-> FALSE,
        window |-> NoKey, listening |-> FALSE, failed |-> FALSE,
        calm |-> \A i \in DOMAIN pages : ~Waiting(pages[i])])
  /\ UNCHANGED <<chats, orphans, signedIn, chatKeyStream>>

\* Until productDetail is set, and for ever if it cannot be read, the page is a
\* spinner without window and button.
DetailAnswer(i) ==
  /\ pages[i].detail = "asked"
  /\ \/ pages' = [pages EXCEPT ![i].detail = "here"]
     \/ pages' = [pages EXCEPT ![i].detail = "failed", ![i].failed = TRUE]
  /\ UNCHANGED <<chats, orphans, signedIn, chatKeyStream>>

\* The backend answers getChatProductDetail; 401 counts as no conversation.
AnswerLookup(i) ==
  /\ pages[i].lookup = "asked"
  /\ \/ /\ pages[i].product \in chats
        /\ pages' = [pages EXCEPT ![i].lookup = "found"]
     \/ /\ pages[i].product \notin chats
        /\ pages' = [pages EXCEPT ![i].lookup = "missing"]
     \/ pages' = [pages EXCEPT ![i].lookup = "missing", ![i].failed = TRUE]
     \/ pages' = [pages EXCEPT ![i].lookup = "off", ![i].failed = TRUE]
  /\ UNCHANGED <<chats, orphans, signedIn, chatKeyStream>>

LookedUpAnyway(i) ==  \* mutant: the null check of the answer's data dropped
  /\ pages[i].lookup \in {"found", "missing"}
  /\ Publish([pages EXCEPT ![i].lookup = "off", ![i].isChatted = TRUE],
             pages[i].product)
  /\ UNCHANGED <<chats, orphans, signedIn>>

LookedUpUnchatted(i) ==  \* mutant: isChatted is not set
  /\ \/ /\ pages[i].lookup = "found"
        /\ Publish([pages EXCEPT ![i].lookup = "off"], pages[i].product)
     \/ /\ pages[i].lookup = "missing"
        /\ Publish([pages EXCEPT ![i].lookup = "off"], Null)
  /\ UNCHANGED <<chats, orphans, signedIn>>

\* The rest of initState's callback.
LookedUp(i) ==
  /\ \/ /\ pages[i].lookup = "found"
        /\ Publish([pages EXCEPT ![i].lookup = "off", ![i].isChatted = TRUE],
                   pages[i].product)
     \/ /\ pages[i].lookup = "missing"
        /\ Publish([pages EXCEPT ![i].lookup = "off"], Null)
  /\ UNCHANGED <<chats, orphans, signedIn>>

\* The ChatWidget appears with isChatted, subscribes after its first frame and
\* is given the latest key.
Mount(i) ==
  /\ pages[i].detail = "here" /\ pages[i].isChatted /\ ~pages[i].listening
  /\ pages' = [pages EXCEPT ![i].listening = TRUE, ![i].window = chatKeyStream]
  /\ UNCHANGED <<chats, orphans, signedIn, chatKeyStream>>

-----------------------------------------------------------------------------
(***************************************************************************)
(* _createChat.  Without a user the login screen opens, from which the     *)
(* user may come back signed in.  The button is not disabled while a       *)
(* request is on its way, nor before the look-up has been answered.        *)
(***************************************************************************)
CreateChat ==
  /\ Top > 0 /\ signedIn
  /\ pages[Top].detail = "here" /\ ~pages[Top].isChatted
  /\ pages[Top].creates + pages[Top].created < MaxCreates
  /\ pages' = [pages EXCEPT
       ![Top].showLoading = TRUE,
       ![Top].creates = @ + 1,
       ![Top].calm = @ /\ pages[Top].lookup = "off"]
  /\ UNCHANGED <<chats, orphans, signedIn, chatKeyStream>>

SignIn ==
  /\ Top > 0 /\ ~signedIn
  /\ signedIn' = TRUE
  /\ UNCHANGED <<chats, orphans, chatKeyStream, pages>>

\* createChatProduct: the backend makes the conversation, or finds it.
AnswerCreate(i) ==
  /\ pages[i].creates > 0
  /\ chats' = chats \union {pages[i].product}
  /\ pages' = [pages EXCEPT ![i].creates = @ - 1, ![i].created = @ + 1]
  /\ UNCHANGED <<orphans, signedIn, chatKeyStream>>

\* 401 gives null, everything else throws: either way showLoading stays.
FailCreate(i) ==
  /\ pages[i].creates > 0
  /\ pages' = [pages EXCEPT ![i].creates = @ - 1, ![i].failed = TRUE]
  /\ UNCHANGED <<chats, orphans, signedIn, chatKeyStream>>

CreatedUnpublished(i) ==  \* mutant: the key is not published
  /\ pages[i].created > 0
  /\ pages' = [pages EXCEPT ![i].created = @ - 1, ![i].showLoading = FALSE,
                            ![i].isChatted = TRUE]
  /\ UNCHANGED <<chats, orphans, signedIn, chatKeyStream>>

Created(i) ==
  /\ pages[i].created > 0
  /\ Publish([pages EXCEPT ![i].created = @ - 1, ![i].showLoading = FALSE,
                           ![i].isChatted = TRUE], pages[i].product)
  /\ UNCHANGED <<chats, orphans, signedIn>>

-----------------------------------------------------------------------------
\* The page on top is left.  The answers it waits for find no State, but its
\* create requests are carried out.
Back ==
  /\ Top > 0
  /\ pages' = SubSeq(pages, 1, Top - 1)
  /\ orphans' = orphans \union {p \in {pages[Top].product} : pages[Top].creates > 0}
  /\ UNCHANGED <<chats, signedIn, chatKeyStream>>

\* The backend carries out, or refuses, the request of a page that is gone.
OrphanCreate(p) ==
  /\ p \in orphans
  /\ orphans' = orphans \ {p}
  /\ chats' \in {chats, chats \union {p}}
  /\ UNCHANGED <<signedIn, chatKeyStream, pages>>

\* Between product pages a conversation is opened from MessageScreen.
OpenMessage(p) ==
  /\ Top = 0 /\ signedIn /\ p \in chats
  /\ chatKeyStream' = p
  /\ UNCHANGED <<chats, orphans, signedIn, pages>>

Answers(i) ==
  \/ DetailAnswer(i) \/ AnswerLookup(i) \/ LookedUp(i) \/ Mount(i)
  \/ AnswerCreate(i) \/ FailCreate(i) \/ Created(i)

Next ==
  \/ \E p \in Products : Open(p) \/ OrphanCreate(p) \/ OpenMessage(p)
  \/ \E i \in DOMAIN pages : Answers(i)
  \/ CreateChat \/ SignIn \/ Back

Spec == Init /\ [][Next]_vars

(***************************************************************************)
(* Requests are answered, well or not, and continuations and frames run.   *)
(***************************************************************************)
FairSpec ==
  Spec /\ \A i \in 1..MaxPages : WF_vars(i \in DOMAIN pages /\ Answers(i))

-----------------------------------------------------------------------------
TypeOK ==
  /\ chats \subseteq Products
  /\ orphans \subseteq Products
  /\ signedIn \in BOOLEAN
  /\ chatKeyStream \in Keys
  /\ pages \in Seq(Pages)

(***************************************************************************)
(* The window on a product page is on that product's conversation - what   *)
(* is typed there goes to it - unless another product page was opened      *)
(* above, the page was opened above one that still waited for answers, or  *)
(* "Create chat" was pressed before the look-up had been answered.  Pages  *)
(* already left, other screens and repeated requests cannot move it.       *)
(***************************************************************************)
OwnConversation ==
  \A i \in DOMAIN pages : pages[i].calm /\ pages[i].listening
    => pages[i].window = pages[i].product

(***************************************************************************)
(* No key reaches a window before the backend has its conversation,        *)
(* however creation, look-ups and the user's leaving interleave.           *)
(***************************************************************************)
KeysExist ==
  /\ chatKeyStream \in chats \union {Null, NoKey}
  /\ \A i \in DOMAIN pages : pages[i].window \in chats \union {Null, NoKey}

(***************************************************************************)
(* A conversation that exists is on screen in the end: a page that asks    *)
(* for it gets its window, unless a request fails, another page interferes *)
(* (see OwnConversation), or the page is left.                             *)
(***************************************************************************)
Seeks ==
  Top = 1 /\ pages[1].lookup = "asked" /\ pages[1].product \in chats

ConversationAppears ==
  Seeks ~> \/ Top = 0
           \/ ~pages[1].calm \/ pages[1].failed
           \/ pages[1].listening /\ pages[1].window = pages[1].product
=============================================================================
