------------------------------ MODULE SignedIn ------------------------------
(***************************************************************************)
(* What the rest of the app may rely on about UserProvider: the user is    *)
(* settled once when the main page first appears, and from then on somebody*)
(* signs in only when nobody is signed in, and leaves only by logging out  *)
(* or with the process.  Session implements this; ChatIndicator is         *)
(* written against it.                                                     *)
(***************************************************************************)
CONSTANTS Accounts, None

VARIABLES user, page

vars == <<user, page>>

Init == user = None /\ page = FALSE

Start(u) == ~page /\ page' = TRUE /\ user' = u

SignIn(u) == page /\ user = None /\ user' = u /\ UNCHANGED page

Logout == page /\ user # None /\ user' = None /\ UNCHANGED page

Restart == page' = FALSE /\ user' = None

Next ==
  \/ \E u \in Accounts \union {None} : Start(u)
  \/ \E u \in Accounts : SignIn(u)
  \/ Logout \/ Restart

Spec == Init /\ [][Next]_vars
=============================================================================
