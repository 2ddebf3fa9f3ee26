------------------------------- MODULE HomeTab -------------------------------
(***************************************************************************)
(* Home: the categories of the shop, loaded once and again by pulling the  *)
(* list down, and below each category's name a row with its products.      *)
(*                                                                         *)
(* setState only asks for a frame; what is on the screen changes when the  *)
(* frame is built.  A row (ProductListWidget) asks for the products of its *)
(* category when its State is created, and at the end of its list for      *)
(* those of the category its widget stands for by then.  Rows carry no     *)
(* keys, so a rebuilt list keeps the States it has, by position.           *)
(*                                                                         *)
(* Of a row only whose products it shows is kept; its pages are those of   *)
(* PagedList.  Connectivity notices change none of this.                   *)
(***************************************************************************)
EXTENDS Integers, Sequences

CONSTANTS
  Category,  \* the categories there may be
  NoList     \* the value null

\* The lists the backend may answer with: at most two categories.
Lists == {<<>>} \union {<<c>> : c \in Category}
           \union {l \in Category \X Category : l[1] # l[2]}

ASSUME HomeTabAssumption == NoList \notin Lists /\ NoList \notin Category

VARIABLES
  homeMounted,  \* the page is there
  categories,   \* _HomeState.categories
  homeLoad,     \* the request under way: "none", "first" or "refresh"
  frameDue,     \* setState was called and no frame built since
  onScreen,     \* what the last frame has built: "spinner" or "list"
  rows,         \* the rows of that list
  homeFailed,   \* history: a request for the categories failed
  outrun        \* history: rows outlived a refresh answered before a frame

homeVars == <<homeMounted, categories, homeLoad, frameDue, onScreen, rows,
              homeFailed, outrun>>

\* A row: the category its widget is of, those its requests under way are for
\* (the first one, and later pages), and those whose products it shows.
Rows == [id : Category, first : Category \union {NoList},
         more : SUBSET Category, shown : SUBSET Category]

NewRow(c) == [id |-> c, first |-> c, more |-> {}, shown |-> {}]

-----------------------------------------------------------------------------
\* initState, and its callback after the first frame.
HomeInit ==
  /\ homeMounted = TRUE
  /\ categories = NoList
  /\ homeLoad = "first"
  /\ frameDue = FALSE
  /\ onScreen = "spinner"
  /\ rows = <<>>
  /\ homeFailed = FALSE
  /\ outrun = FALSE

RefreshKeeping ==  \* mutant: the old categories stay while the new ones load
  /\ homeMounted /\ onScreen = "list" /\ homeLoad = "none"
  /\ homeLoad' = "refresh"
  /\ frameDue' = TRUE
  /\ UNCHANGED <<homeMounted, categories, onScreen, rows, homeFailed, outrun>>

\* _refresh up to its request; only a list can be pulled down, and the
\* indicator takes one pull at a time.
Refresh ==
  /\ homeMounted /\ onScreen = "list" /\ homeLoad = "none"
  /\ categories' = NoList
  /\ homeLoad' = "refresh"
  /\ frameDue' = TRUE
  /\ UNCHANGED <<homeMounted, onScreen, rows, homeFailed, outrun>>

\* The categories arrive.  Without the page the first load fails on the closed
\* stream, a refresh in setState.
HomeAnswer(l) ==
  /\ homeLoad # "none"
  /\ homeLoad' = "none"
  /\ \/ /\ homeMounted
        /\ categories' = l
        /\ frameDue' = TRUE
        /\ outrun' = (outrun \/ (homeLoad = "refresh" /\ frameDue))
     \/ /\ ~homeMounted
        /\ UNCHANGED <<categories, frameDue, outrun>>
  /\ UNCHANGED <<homeMounted, onScreen, rows, homeFailed>>

\* The first load prints the error, a refresh does not handle it.
HomeFail ==
  /\ homeLoad # "none"
  /\ homeLoad' = "none"
  /\ homeFailed' = TRUE
  /\ UNCHANGED <<homeMounted, categories, frameDue, onScreen, rows, outrun>>

\* build: the spinner has no rows; a list keeps those it has.
HomeFrame ==
  /\ homeMounted /\ frameDue
  /\ frameDue' = FALSE
  /\ \/ /\ categories = NoList
        /\ onScreen' = "spinner"
        /\ rows' = <<>>
        /\ outrun' = FALSE
     \/ /\ categories # NoList
        /\ onScreen' = "list"
        /\ rows' = [i \in DOMAIN categories |->
                      IF i \in DOMAIN rows
                      THEN [rows[i] EXCEPT !.id = categories[i]]
                      ELSE NewRow(categories[i])]
        /\ UNCHANGED outrun
  /\ UNCHANGED <<homeMounted, categories, homeLoad, homeFailed>>

\* initState's request of a row is answered.
RowLoaded(i) ==
  /\ rows[i].first # NoList
  /\ rows' = [rows EXCEPT ![i].first = NoList, ![i].shown = {rows[i].first}]
  /\ UNCHANGED <<homeMounted, categories, homeLoad, frameDue, onScreen,
                 homeFailed, outrun>>

\* _scrollListener of a row.
RowEndReached(i) ==
  /\ rows[i].shown # {}
  /\ rows' = [rows EXCEPT ![i].more = @ \union {rows[i].id}]
  /\ UNCHANGED <<homeMounted, categories, homeLoad, frameDue, onScreen,
                 homeFailed, outrun>>

RowMore(i, c) ==
  /\ c \in rows[i].more
  /\ rows' = [rows EXCEPT ![i].more = @ \ {c}, ![i].shown = @ \union {c}]
  /\ UNCHANGED <<homeMounted, categories, homeLoad, frameDue, onScreen,
                 homeFailed, outrun>>

\* A request of a row fails; the error is printed.
RowFail(i) ==
  /\ \/ rows[i].first # NoList /\ rows' = [rows EXCEPT ![i].first = NoList]
     \/ \E c \in rows[i].more : rows' = [rows EXCEPT ![i].more = @ \ {c}]
  /\ UNCHANGED <<homeMounted, categories, homeLoad, frameDue, onScreen,
                 homeFailed, outrun>>

\* Logout replaces the page.
HomeDispose ==
  /\ homeMounted
  /\ homeMounted' = FALSE
  /\ rows' = <<>>
  /\ UNCHANGED <<categories, homeLoad, frameDue, onScreen, homeFailed, outrun>>

HomeNext ==
  \/ Refresh \/ HomeFail \/ HomeFrame \/ HomeDispose
  \/ \E l \in Lists : HomeAnswer(l)
  \/ \E i \in DOMAIN rows :
       \/ RowLoaded(i) \/ RowEndReached(i) \/ RowFail(i)
       \/ \E c \in rows[i].more : RowMore(i, c)

HomeSpec == HomeInit /\ [][HomeNext]_homeVars

HomeLoadEnds == HomeFail \/ \E l \in Lists : HomeAnswer(l)

\* Requests end, well or not, and frames are built.
HomeFairness == WF_homeVars(HomeLoadEnds) /\ WF_homeVars(HomeFrame)

-----------------------------------------------------------------------------
HomeTypeOK ==
  /\ homeMounted \in BOOLEAN
  /\ categories \in Lists \union {NoList}
  /\ homeLoad \in {"none", "first", "refresh"}
  /\ frameDue \in BOOLEAN
  /\ onScreen \in {"spinner", "list"}
  /\ rows \in Seq(Rows)
  /\ homeFailed \in BOOLEAN
  /\ outrun \in BOOLEAN

(***************************************************************************)
(* Below the name of a category there are products of no other one.  That  *)
(* rests on _refresh clearing the list first: the frame with the spinner   *)
(* disposes the old rows.  The exception is an answer that comes before    *)
(* this frame, after which rows show the products of what stood there.     *)
(***************************************************************************)
RowShowsItsCategory ==
  \A i \in DOMAIN rows : rows[i].shown \subseteq {rows[i].id} \/ outrun

(***************************************************************************)
(* The home page's spinner goes away unless a request has failed: then     *)
(* there is no list left to pull down, and it stays for good.              *)
(***************************************************************************)
HomeWaits == homeMounted /\ onScreen = "spinner" /\ ~homeFailed

HomeAppears == HomeWaits ~> ~HomeWaits
=============================================================================
