------------------------ MODULE ChatWindowRefinement ------------------------
(***************************************************************************)
(* As long as no two of its requests overlap, the ChatWidget implements    *)
(* ConversationView.  While a conversation is being loaded, the list still *)
(* holds what was shown before; the promise starts when the load has been  *)
(* applied, that is, when there is a subscription.                         *)
(***************************************************************************)
EXTENDS ChatWindow

View == INSTANCE ConversationView
          WITH chat <- chatKey,
               view <- IF sub = NoSub THEN <<>> ELSE messages

(***************************************************************************)
(* Up to its first overlap, every behaviour of the widget is one of        *)
(* ConversationView (`races' only ever grows):                             *)
(* the two-step opening (first load without its newest message, then the   *)
(* limitToLast(1) subscription) and the pages of _listenToPreviousChat     *)
(* extend one gapless window.                                              *)
(***************************************************************************)
ShowsOneConversation ==
  View!Init /\ [][races' = {} => View!Next]_(View!viewVars)
=============================================================================
