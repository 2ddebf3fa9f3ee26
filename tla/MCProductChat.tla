--------------------------- MODULE MCProductChat ----------------------------
(* A small instance of ProductChat. *)
EXTENDS ProductChat
=============================================================================
