------------------------- MODULE SessionRefinement --------------------------
(* Session shows the rest of the app one user at a time. *)
EXTENDS Session

Users == INSTANCE SignedIn WITH page <- (screen # "splash")

(***************************************************************************)
(* However the answers of the splash, login and sign-up screens and of     *)
(* logout interleave, UserProvider changes as SignedIn says: nobody is     *)
(* replaced by another user without a logout in between.                   *)
(***************************************************************************)
OneUserAtATime == Users!Spec
=============================================================================
