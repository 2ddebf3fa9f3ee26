---------------------------- MODULE MCChatWindow ----------------------------
(* Small instances of ChatWindow. *)
EXTENDS ChatWindowRefinement, TLC

\* Conversations, slots and page slots are interchangeable in safety runs.
Symmetry ==
  Permutations(Chats) \union Permutations(Slots) \union Permutations(PageSlots)

\* The paging run ends with the window or the session; what is left of either
\* is checked without pages.
BeforeTheEnd == signedIn /\ status # "disposed"
=============================================================================
