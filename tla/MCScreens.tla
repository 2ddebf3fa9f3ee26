------------------------------ MODULE MCScreens ------------------------------
(* A small instance of each screen. *)
EXTENDS Screens

\* The choices of a screen that is not looked at are made once.
MCInit ==
  /\ Init
  /\ screen # "list" => kind = "product"
  /\ screen # "recorder" => openChat = CHOOSE c \in RecChats : TRUE

MCSpec == MCInit /\ [][Next]_vars /\ Fairness
=============================================================================
