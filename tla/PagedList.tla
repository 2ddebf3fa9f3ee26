------------------------------ MODULE PagedList ------------------------------
(***************************************************************************)
(* The lists of products that grow while the user scrolls:                 *)
(* ProductListWidget ("product"), RelatedProductListWidget ("related") and *)
(* MoreCategoryScreen ("more").  Reaching the end advances the page number *)
(* and asks for that page, whether or not other pages are still on their   *)
(* way and whether or not there are more products.  Answers are appended   *)
(* as they come; a page that fails is not asked for again.                 *)
(*                                                                         *)
(* Products are numbered in the backend's order, which does not change     *)
(* while a list is open.  The 10 s limit on the first page of "more" only  *)
(* raises an error nobody handles: the answer is applied all the same.     *)
(***************************************************************************)
EXTENDS Integers, Sequences

CONSTANTS
  Limit,   \* products on a page
  Total,   \* products in the category
  MaxPage  \* bound: pages asked for

ASSUME PagedListAssumption ==
  Limit \in Nat \ {0} /\ Total \in Nat /\ MaxPage \in Nat \ {0}

VARIABLES
  kind,         \* which of the three lists it is
  listMounted,  \* the widget is there
  page,         \* State.page
  products,     \* State.productCategories, empty while it is null
  loaded,       \* productCategories is not null
  pages,        \* pages asked for and not answered
  visible,      \* State._visible: there seems to be more to scroll to
  failedPages,  \* history: pages whose request failed
  pagesCrossed  \* history: a page was answered before an earlier one

listVars == <<kind, listMounted, page, products, loaded, pages, visible,
              failedPages, pagesCrossed>>

Kinds == {"product", "related", "more"}
Pages == 1..MaxPage

\* The backend's answer for page p: empty past the last page.
FirstOf(p) == (p - 1) * Limit + 1
LastOf(p)  == IF p * Limit < Total THEN p * Limit ELSE Total
PageRows(p) == SubSeq([n \in 1..Total |-> n], FirstOf(p), LastOf(p))

-----------------------------------------------------------------------------
\* initState asks for the first page.
ListInit ==
  /\ kind \in Kinds
  /\ listMounted = TRUE
  /\ page = 1
  /\ products = <<>>
  /\ loaded = FALSE
  /\ pages = {1}
  /\ visible = (kind # "product")
  /\ failedPages = {}
  /\ pagesCrossed = FALSE

EndReachedLate ==  \* mutant: the page is asked for before the number advances
  /\ listMounted /\ products # <<>> /\ page < MaxPage
  /\ page' = page + 1
  /\ pages' = pages \union {page}
  /\ UNCHANGED <<kind, listMounted, products, loaded, visible, failedPages,
                 pagesCrossed>>

\* _scrollListener at the end of a list that is there to be scrolled.
EndReached ==
  /\ listMounted /\ products # <<>> /\ page < MaxPage
  /\ page' = page + 1
  /\ pages' = pages \union {page + 1}
  /\ UNCHANGED <<kind, listMounted, products, loaded, visible, failedPages,
                 pagesCrossed>>

\* _visible once page p has been answered; the first page shows the arrow of
\* "product", an empty later page hides it in both lists that have one.
VisibleInverted(p) ==  \* mutant: a page with products hides the arrow
  IF p = 1 THEN visible \/ kind = "product"
  ELSE visible /\ (kind = "more" \/ PageRows(p) = <<>>)

VisibleAfter(p) ==
  IF p = 1 THEN visible \/ kind = "product"
  ELSE visible /\ (kind = "more" \/ PageRows(p) # <<>>)

(***************************************************************************)
(* The continuation of a page request.  Without its widget it throws, in a *)
(* closed stream or in setState, and the error is printed.                 *)
(***************************************************************************)
ListAnswer(p) ==
  /\ p \in pages
  /\ pages' = pages \ {p}
  /\ \/ /\ listMounted
        /\ products' = products \o PageRows(p)
        /\ loaded' = TRUE
        /\ visible' = VisibleAfter(p)
        /\ pagesCrossed' = (pagesCrossed \/ \E q \in pages : q < p)
     \/ /\ ~listMounted
        /\ UNCHANGED <<products, loaded, visible, pagesCrossed>>
  /\ UNCHANGED <<kind, listMounted, page, failedPages>>

\* The request fails or its body is no list: the error is printed.
ListFail(p) ==
  /\ p \in pages
  /\ pages' = pages \ {p}
  /\ failedPages' = failedPages \union {p}
  /\ UNCHANGED <<kind, listMounted, page, products, loaded, visible, pagesCrossed>>

ListDispose ==
  /\ listMounted
  /\ listMounted' = FALSE
  /\ UNCHANGED <<kind, page, products, loaded, pages, visible, failedPages,
                 pagesCrossed>>

ListNext ==
  \/ EndReached \/ ListDispose
  \/ \E p \in pages : ListAnswer(p) \/ ListFail(p)

ListSpec == ListInit /\ [][ListNext]_listVars

-----------------------------------------------------------------------------
ListTypeOK ==
  /\ kind \in Kinds
  /\ listMounted \in BOOLEAN
  /\ page \in Pages
  /\ products \in Seq(1..Total)
  /\ loaded \in BOOLEAN
  /\ pages \subseteq Pages
  /\ visible \in BOOLEAN
  /\ failedPages \subseteq Pages
  /\ pagesCrossed \in BOOLEAN

Products(S) == {n \in 1..Total : \E p \in S : FirstOf(p) <= n /\ n <= LastOf(p)}

(***************************************************************************)
(* When no page is on its way, the list shows the products of all pages    *)
(* asked for, each once, but for pages that failed; and in the backend's   *)
(* order unless the answers of two pages crossed.  Scrolling on while      *)
(* pages are under way, and past the end, neither repeats nor skips any.   *)
(***************************************************************************)
PagesOnce ==
  (listMounted /\ loaded /\ pages = {})
  => /\ {products[i] : i \in DOMAIN products} = Products((1..page) \ failedPages)
     /\ \A i, j \in DOMAIN products :
          i < j => IF pagesCrossed THEN products[i] # products[j]
                                   ELSE products[i] < products[j]

(***************************************************************************)
(* Once the arrow of a loaded list has gone there is nothing left to       *)
(* scroll for: every product is shown, on its way or on a page that failed.*)
(***************************************************************************)
ArrowTells ==
  (listMounted /\ loaded /\ ~visible)
  => 1..Total = {products[i] : i \in DOMAIN products}
                  \union Products(pages \union failedPages)
=============================================================================
