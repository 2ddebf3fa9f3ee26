--------------------------- MODULE CategoryScreen ---------------------------
(***************************************************************************)
(* CategoryScreen: the names of the categories, one page at a time.  The   *)
(* list is asked for by initState and, as long as it is null, again by     *)
(* every build; scrolling to its end asks for the next page, which         *)
(* replaces it.  Only the answer to a build's request calls setState: the  *)
(* others are seen with whatever build comes next.                         *)
(*                                                                         *)
(* A list is represented by its page number; pages past the last are empty *)
(* and shown as EmptyData, which cannot be scrolled.                       *)
(***************************************************************************)
EXTENDS Integers

CONSTANTS
  LastCatPage,  \* the last page that is not empty
  MaxAsked      \* bound: requests made

ASSUME CategoryScreenAssumption == LastCatPage \in Nat /\ MaxAsked \in Nat \ {0}

VARIABLES
  catMounted,  \* the screen is there
  catPage,     \* _CategoryScreenState.page
  cats,        \* the page held as _CategoryScreenState.categories, 0 if null
  catView,     \* the page the last build has shown, 0 for the spinner
  buildDue,    \* something asked for a build that has not run yet
  asked,       \* requests made so far
  catLoads,    \* requests on their way
  newest,      \* history: the youngest request answered
  catFailed,   \* history: requests that failed, by number and maker
  catCrossed   \* history: an answer came after that to a younger request

catVars == <<catMounted, catPage, cats, catView, buildDue, asked, catLoads,
             newest, catFailed, catCrossed>>

Makers == {"initState", "build", "scroll"}
Requests == [nr : 1..MaxAsked, page : 1..MaxAsked, by : Makers]

Ask(p, m) == [nr |-> asked + 1, page |-> p, by |-> m]

-----------------------------------------------------------------------------
\* initState, with the first build still to come.
CatInit ==
  /\ catMounted = TRUE
  /\ catPage = 1
  /\ cats = 0
  /\ catView = 0
  /\ buildDue = TRUE
  /\ asked = 1
  /\ catLoads = {[nr |-> 1, page |-> 1, by |-> "initState"]}
  /\ newest = 0
  /\ catFailed = {}
  /\ catCrossed = FALSE

\* build shows the list, or asks for it and shows the spinner.
Build ==
  /\ catMounted /\ buildDue
  /\ buildDue' = FALSE
  /\ catView' = cats
  /\ \/ /\ cats # 0
        /\ UNCHANGED <<asked, catLoads>>
     \/ /\ cats = 0 /\ asked < MaxAsked
        /\ asked' = asked + 1
        /\ catLoads' = catLoads \union {Ask(catPage, "build")}
  /\ UNCHANGED <<catMounted, catPage, cats, newest, catFailed, catCrossed>>

\* The language or the currency changes, on which the screen depends.
LanguageChanges ==
  /\ catMounted
  /\ cats # 0 \/ asked < MaxAsked
  /\ buildDue' = TRUE
  /\ UNCHANGED <<catMounted, catPage, cats, catView, asked, catLoads, newest,
                 catFailed, catCrossed>>

CatEndReachedTwice ==  \* mutant: the page asked for is one behind
  /\ catMounted /\ catView \in 1..LastCatPage /\ asked < MaxAsked
  /\ catPage' = catPage + 1
  /\ buildDue' = TRUE
  /\ asked' = asked + 1
  /\ catLoads' = catLoads \union {Ask(catPage, "scroll")}
  /\ UNCHANGED <<catMounted, cats, catView, newest, catFailed, catCrossed>>

\* _scrollListener.
CatEndReached ==
  /\ catMounted /\ catView \in 1..LastCatPage /\ asked < MaxAsked
  /\ catPage' = catPage + 1
  /\ buildDue' = TRUE
  /\ asked' = asked + 1
  /\ catLoads' = catLoads \union {Ask(catPage + 1, "scroll")}
  /\ UNCHANGED <<catMounted, cats, catView, newest, catFailed, catCrossed>>

CatAnswerSilent(r) ==  \* mutant: no setState for any answer
  /\ r \in catLoads
  /\ catLoads' = catLoads \ {r}
  /\ cats' = r.page
  /\ newest' = IF r.nr > newest THEN r.nr ELSE newest
  /\ catCrossed' = (r.nr < newest)
  /\ UNCHANGED <<catMounted, catPage, catView, buildDue, asked, catFailed>>

\* An answer replaces the list.  Without the screen only a build's request
\* notices, in setState.
CatAnswer(r) ==
  /\ r \in catLoads
  /\ catLoads' = catLoads \ {r}
  /\ \/ /\ catMounted
        /\ cats' = r.page
        /\ buildDue' = (buildDue \/ r.by = "build")
        /\ newest' = IF r.nr > newest THEN r.nr ELSE newest
        /\ catCrossed' = (r.nr < newest)
     \/ /\ ~catMounted
        /\ UNCHANGED <<cats, buildDue, newest, catCrossed>>
  /\ UNCHANGED <<catMounted, catPage, catView, asked, catFailed>>

\* Handled for the scroll's request only, by printing the error.
CatFail(r) ==
  /\ r \in catLoads
  /\ catLoads' = catLoads \ {r}
  /\ catFailed' = catFailed \union {r}
  /\ UNCHANGED <<catMounted, catPage, cats, catView, buildDue, asked, newest,
                 catCrossed>>

CatDispose ==
  /\ catMounted
  /\ catMounted' = FALSE
  /\ UNCHANGED <<catPage, cats, catView, buildDue, asked, catLoads, newest,
                 catFailed, catCrossed>>

CatNext ==
  \/ Build \/ LanguageChanges \/ CatEndReached \/ CatDispose
  \/ \E r \in catLoads : CatAnswer(r) \/ CatFail(r)

CatSpec == CatInit /\ [][CatNext]_catVars

CatLoadEnds == \E r \in catLoads : CatAnswer(r) \/ CatFail(r)

\* Requests end, well or not, and builds that are due run.
CatFairness == WF_catVars(Build) /\ WF_catVars(CatLoadEnds)

-----------------------------------------------------------------------------
CatTypeOK ==
  /\ catMounted \in BOOLEAN
  /\ catPage \in 1..MaxAsked
  /\ cats \in 0..MaxAsked
  /\ catView \in 0..MaxAsked
  /\ buildDue \in BOOLEAN
  /\ asked \in 1..MaxAsked
  /\ catLoads \subseteq Requests
  /\ newest \in 0..MaxAsked
  /\ catFailed \subseteq Requests
  /\ catCrossed \in BOOLEAN

(***************************************************************************)
(* When no request is under way, the screen holds the page it scrolled to, *)
(* although initState and several builds may have asked for the first one  *)
(* and answers replace each other - unless the youngest request failed, or *)
(* the last answer was one to a request older than another answer's.       *)
(***************************************************************************)
HoldsItsPage ==
  (catMounted /\ catLoads = {} /\ ~catCrossed)
  => cats = catPage \/ \E r \in catFailed : r.nr = asked

(***************************************************************************)
(* The spinner goes away unless the request of a build failed: the answer  *)
(* to that of initState alone would not make the screen build again.       *)
(***************************************************************************)
CatWaits ==
  catMounted /\ catView = 0 /\ ~\E r \in catFailed : r.by = "build"

CategoriesAppear == CatWaits ~> ~CatWaits
=============================================================================
