-------------------------- MODULE MCChatIndicator ---------------------------
(* Small instances of ChatIndicator. *)
EXTENDS ChatIndicator
=============================================================================
