---------------------------- MODULE MCFavourites ----------------------------
(* Small instances of Favourites. *)
EXTENDS Favourites
=============================================================================
