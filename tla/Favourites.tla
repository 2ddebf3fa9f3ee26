----------------------------- MODULE Favourites -----------------------------
(***************************************************************************)
(* FavoriteScreen: the list of favourites, loaded page by page while the   *)
(* user scrolls, and the removal of single rows, for which the backend is  *)
(* asked first.  A removal remembers the row's position when its dialog    *)
(* was opened and uses it when the answer comes.                           *)
(*                                                                         *)
(* Favourites are numbered in the order the backend lists them.  _refresh  *)
(* only feeds a stream nobody listens to and changes nothing.              *)
(***************************************************************************)
EXTENDS Integers, Sequences, FiniteSets, SequencesExt

CONSTANTS
  Limit,      \* favourites on a page
  Total,      \* bound: favourites at first
  MaxPage,    \* bound: pages asked for
  MaxDeletes  \* bound: removals under way

ASSUME FavouritesAssumption ==
  /\ Limit \in Nat \ {0}
  /\ MaxPage \in Nat \ {0}
  /\ Total \in Nat /\ MaxDeletes \in Nat

VARIABLES
  server,      \* the favourites of the user, as the backend lists them
  favourites,  \* _FavoriteScreenState.favourites, empty while it is null
  page,        \* _FavoriteScreenState.page
  loads,       \* page requests on their way, and their answers on the way back
  dialog,      \* the row whose removal is to be confirmed, none or one
  deletes,     \* removals on their way, and their answers on the way back
  lost,        \* history: a page was asked for and never shown
  shifted,     \* history: a page was read after a removal had moved it
  overtaken,   \* history: ... and after a later page had been read
  crossed      \* history: a position was used after the list had changed

histories == <<lost, shifted, overtaken, crossed>>
vars == <<server, favourites, page, loads, dialog, deletes, lost, shifted,
          overtaken, crossed>>

All    == 1..Total
Loads  == [page : 1..MaxPage, answered : BOOLEAN, data : Seq(All)]
Rows   == [index : Nat \ {0}, id : All, moved : BOOLEAN, deleted : BOOLEAN]

Request(p) == [page |-> p, answered |-> FALSE, data |-> <<>>]

-----------------------------------------------------------------------------
Init ==
  /\ server = [i \in All |-> i]
  /\ favourites = <<>>
  /\ page = 1
  /\ loads = {Request(1)}
  /\ dialog = {}
  /\ deletes = {}
  /\ lost = FALSE
  /\ shifted = FALSE
  /\ overtaken = FALSE
  /\ crossed = FALSE

(***************************************************************************)
(* getFavouriteClient.  The backend reads a page of its list as it is then.*)
(***************************************************************************)
PageOf(p) ==
  LET last == p * Limit
  IN  SubSeq(server, last - Limit + 1, IF last < Len(server) THEN last ELSE Len(server))

\* Removals have moved page p; a page after p was read before.
Shifts(p) == p > 1 /\ Len(server) < Total

Overtakes(p) == Shifts(p) /\ \E q \in (p + 1)..page : Request(q) \notin loads

Answer(l) ==
  /\ l \in loads /\ ~l.answered
  /\ loads' = (loads \ {l}) \union {[l EXCEPT !.answered = TRUE, !.data = PageOf(l.page)]}
  /\ shifted' = (shifted \/ Shifts(l.page))
  /\ overtaken' = (overtaken \/ Overtakes(l.page))
  /\ UNCHANGED <<server, favourites, page, dialog, deletes, lost, crossed>>

\* The first page becomes the list, a further one is added to it.
LoadedReplacing(l) ==  \* mutant: a further page replaces the list
  /\ l \in loads /\ l.answered
  /\ loads' = loads \ {l}
  /\ favourites' = l.data
  /\ UNCHANGED <<server, page, dialog, deletes, histories>>

Loaded(l) ==
  /\ l \in loads /\ l.answered
  /\ loads' = loads \ {l}
  /\ favourites' = favourites \o l.data
  /\ UNCHANGED <<server, page, dialog, deletes, histories>>

\* catchError shows a message; page stays where it is.  The timeout only shows
\* a message and leaves the request alone.
LoadFailed(l) ==
  /\ l \in loads /\ ~l.answered
  /\ loads' = loads \ {l}
  /\ lost' = TRUE
  /\ UNCHANGED <<server, favourites, page, dialog, deletes, shifted, overtaken, crossed>>

\* _scrollListener at the end of the list, whether or not an earlier page is
\* still on its way.
ScrollSamePage ==  \* mutant: the page number is not increased
  /\ favourites # <<>> /\ dialog = {}
  /\ page < MaxPage
  /\ loads' = loads \union {Request(page)}
  /\ UNCHANGED <<server, favourites, page, dialog, deletes, histories>>

Scroll ==
  /\ favourites # <<>> /\ dialog = {}
  /\ page < MaxPage
  /\ loads' = loads \union {Request(page + 1)}
  /\ page' = page + 1
  /\ UNCHANGED <<server, favourites, dialog, deletes, histories>>

-----------------------------------------------------------------------------
\* openAlertBox for a row of the list on screen.
OpenAlertBox(i) ==
  /\ dialog = {}
  /\ dialog' = {[index |-> i, id |-> favourites[i], moved |-> FALSE, deleted |-> FALSE]}
  /\ UNCHANGED <<server, favourites, page, loads, deletes, histories>>

Cancel ==
  /\ dialog # {}
  /\ dialog' = {}
  /\ UNCHANGED <<server, favourites, page, loads, deletes, histories>>

\* The remove button asks the backend and closes the dialog.
Confirm ==
  /\ dialog # {}
  /\ Cardinality(deletes) < MaxDeletes
  /\ deletes' = deletes \union dialog
  /\ dialog' = {}
  /\ UNCHANGED <<server, favourites, page, loads, histories>>

\* The backend removes the favourite and answers "success".
Delete(r) ==
  /\ r \in deletes /\ ~r.deleted
  /\ \E i \in DOMAIN server : server[i] = r.id /\ server' = RemoveAt(server, i)
  /\ deletes' = (deletes \ {r}) \union {[r EXCEPT !.deleted = TRUE]}
  /\ UNCHANGED <<favourites, page, loads, dialog, histories>>

\* It refuses (the favourite is gone) or the request fails: nothing happens.
DeleteFailed(r) ==
  /\ r \in deletes /\ ~r.deleted
  /\ deletes' = deletes \ {r}
  /\ UNCHANGED <<server, favourites, page, loads, dialog, histories>>

(***************************************************************************)
(* The answer "success": the row at the remembered position goes; removeAt *)
(* throws if there is none.  Positions the dialog and other removals       *)
(* remember may from now on be those of other rows.                        *)
(***************************************************************************)
RemovedNext(s, i) ==  \* mutant: off by one
  IF i + 1 \in DOMAIN s THEN RemoveAt(s, i + 1) ELSE s

Removed(s, i) == IF i \in DOMAIN s THEN RemoveAt(s, i) ELSE s

Moved(S) == {[r EXCEPT !.moved = TRUE] : r \in S}

Deleted(r) ==
  /\ r \in deletes /\ r.deleted
  /\ favourites' = Removed(favourites, r.index)
  /\ deletes' = Moved(deletes \ {r})
  /\ dialog' = Moved(dialog)
  /\ crossed' = (crossed \/ r.moved)
  /\ UNCHANGED <<server, page, loads, lost, shifted, overtaken>>

Next ==
  \/ \E l \in loads : Answer(l) \/ Loaded(l) \/ LoadFailed(l)
  \/ Scroll
  \/ \E i \in DOMAIN favourites : OpenAlertBox(i)
  \/ Cancel \/ Confirm
  \/ \E r \in deletes : Delete(r) \/ DeleteFailed(r) \/ Deleted(r)

Spec == Init /\ [][Next]_vars

-----------------------------------------------------------------------------
TypeOK ==
  /\ server \in Seq(All)
  /\ favourites \in Seq(All)
  /\ page \in 1..MaxPage
  /\ loads \subseteq Loads
  /\ dialog \subseteq Rows
  /\ deletes \subseteq Rows
  /\ lost \in BOOLEAN /\ shifted \in BOOLEAN
  /\ overtaken \in BOOLEAN /\ crossed \in BOOLEAN

\* Favourites the backend has removed and the screen has not heard of yet.
Unheard == {r.id : r \in {d \in deletes : d.deleted}}

(***************************************************************************)
(* No favourite is listed twice, whatever is removed between two pages and *)
(* in whatever order they arrive, unless the backend read them in the      *)
(* wrong order with a removal in between.                                  *)
(***************************************************************************)
NoRowTwice ==
  ~overtaken => \A i, j \in DOMAIN favourites : favourites[i] = favourites[j] => i = j

(***************************************************************************)
(* The screen lists only favourites the user still has, once the answers   *)
(* of the backend are in: the row that goes is the row that was removed,   *)
(* unless two removals overlapped or a row was there twice.                *)
(***************************************************************************)
RowsExist ==
  ~crossed /\ ~overtaken => Range(favourites) \subseteq Range(server) \union Unheard

(***************************************************************************)
(* The screen lists every favourite of the pages it asked for, unless a    *)
(* page failed, two removals overlapped, or a page was read after a        *)
(* removal, which moves the first row of that page to the page before.     *)
(***************************************************************************)
NothingSkipped ==
  loads = {} /\ Unheard = {} /\ ~lost /\ ~shifted /\ ~crossed
    => Range(favourites) = {i \in Range(server) : i <= page * Limit}
=============================================================================
