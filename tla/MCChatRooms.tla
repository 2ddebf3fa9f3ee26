---------------------------- MODULE MCChatRooms -----------------------------
(* Small instances of ChatRooms. *)
EXTENDS ChatRooms, TLC

Symmetry == Permutations(Users) \union Permutations(Chats)
=============================================================================
