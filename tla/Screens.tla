------------------------------- MODULE Screens -------------------------------
(***************************************************************************)
(* The screens and widgets that keep their own State and share none of it: *)
(* the lists of products, the home page, the list of categories, the       *)
(* request for a code, the recorder, the profile's form and the language.  *)
(* As no step of one reads or changes another's variables, it is enough to *)
(* look at each by itself: a behaviour is one of the screen chosen at its  *)
(* start.                                                                  *)
(***************************************************************************)
EXTENDS PagedList, HomeTab, CategoryScreen, PhoneCode, Recorder, EditProfile,
        Preferences

VARIABLE screen  \* the screen this behaviour is about

vars == <<screen, listVars, homeVars, catVars, codeVars, recVars, profVars,
          prefVars>>

ScreenNames == {"list", "home", "category", "code", "recorder", "profile",
                "preferences"}

Init ==
  /\ screen \in ScreenNames
  /\ ListInit /\ HomeInit /\ CatInit /\ CodeInit /\ RecInit /\ ProfInit
  /\ PrefInit

Next ==
  /\ UNCHANGED screen
  /\ \/ /\ screen = "list" /\ ListNext
        /\ UNCHANGED <<homeVars, catVars, codeVars, recVars, profVars, prefVars>>
     \/ /\ screen = "home" /\ HomeNext
        /\ UNCHANGED <<listVars, catVars, codeVars, recVars, profVars, prefVars>>
     \/ /\ screen = "category" /\ CatNext
        /\ UNCHANGED <<listVars, homeVars, codeVars, recVars, profVars, prefVars>>
     \/ /\ screen = "code" /\ CodeNext
        /\ UNCHANGED <<listVars, homeVars, catVars, recVars, profVars, prefVars>>
     \/ /\ screen = "recorder" /\ RecNext
        /\ UNCHANGED <<listVars, homeVars, catVars, codeVars, profVars, prefVars>>
     \/ /\ screen = "profile" /\ ProfNext
        /\ UNCHANGED <<listVars, homeVars, catVars, codeVars, recVars, prefVars>>
     \/ /\ screen = "preferences" /\ PrefNext
        /\ UNCHANGED <<listVars, homeVars, catVars, codeVars, recVars, profVars>>

\* HomeFairness, CatFairness and ProfFairness, each for its screen.
Fairness ==
  /\ WF_homeVars(screen = "home" /\ HomeLoadEnds)
  /\ WF_homeVars(screen = "home" /\ HomeFrame)
  /\ WF_catVars(screen = "category" /\ CatLoadEnds)
  /\ WF_catVars(screen = "category" /\ Build)
  /\ WF_profVars(screen = "profile" /\ APostEnds)

Spec == Init /\ [][Next]_vars /\ Fairness

-----------------------------------------------------------------------------
TypeOK ==
  /\ screen \in ScreenNames
  /\ ListTypeOK /\ HomeTypeOK /\ CatTypeOK /\ CodeTypeOK /\ RecTypeOK
  /\ ProfTypeOK /\ PrefTypeOK

(***************************************************************************)
(* No screen waits for ever without a reason: HomeAppears,                 *)
(* CategoriesAppear and SaveEnds.                                          *)
(***************************************************************************)
Waits ==
  \/ screen = "home" /\ HomeWaits
  \/ screen = "category" /\ CatWaits
  \/ screen = "profile" /\ ProfWaits

WaitingEnds == Waits ~> ~Waits
=============================================================================
