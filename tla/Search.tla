------------------------------- MODULE Search -------------------------------
(***************************************************************************)
(* SearchScreen: every change of the text field restarts a one-second      *)
(* debounce, whose end asks the backend for the text it holds.  Requests   *)
(* are neither cancelled nor numbered, so their answers may come in any    *)
(* order and during later typing; a request that fails is not handled.     *)
(*                                                                         *)
(* Texts are numbered in the order they were typed.  An empty text and the *)
(* clear button change none of this state, nor do the connectivity notices.*)
(***************************************************************************)
EXTENDS Integers, FiniteSets

CONSTANTS
  MaxTyped,    \* bound: changes of the text field
  MaxRequests  \* bound: requests in flight

ASSUME SearchAssumption == MaxTyped \in Nat /\ MaxRequests \in Nat

VARIABLES
  mounted,      \* the screen is there
  typed,        \* the number of the latest text, 0 before there is any
  debounce,     \* the text the running debounce holds, 0 if none runs
  requests,     \* texts asked for and not answered
  answers,      \* answers whose continuation has not run
  isSearching,  \* _SearchState.isSearching: a spinner in place of the results
  isSwitch,     \* _SearchState.isSwitch: results as suggestions or as products
  results,      \* the text the latest value of streamController is of, or 0
  failed,       \* history: texts whose request failed
  reordered     \* history: an answer was shown before that to an older text

histories == <<failed, reordered>>
vars == <<mounted, typed, debounce, requests, answers, isSearching, isSwitch,
          results, failed, reordered>>

Texts == 1..MaxTyped

Pending == requests \union answers

-----------------------------------------------------------------------------
Init ==
  /\ mounted = TRUE
  /\ typed = 0
  /\ debounce = 0
  /\ requests = {}
  /\ answers = {}
  /\ isSearching = FALSE
  /\ isSwitch = TRUE
  /\ results = 0
  /\ failed = {}
  /\ reordered = FALSE

OnChangedHeld ==  \* mutant: a running debounce is not restarted
  /\ mounted /\ typed < MaxTyped
  /\ typed' = typed + 1
  /\ isSearching' = TRUE
  /\ isSwitch' = TRUE
  /\ debounce' = IF debounce = 0 THEN typed + 1 ELSE debounce
  /\ UNCHANGED <<mounted, requests, answers, results, histories>>

\* onChanged with a text that is not empty.
OnChanged ==
  /\ mounted /\ typed < MaxTyped
  /\ typed' = typed + 1
  /\ isSearching' = TRUE
  /\ isSwitch' = TRUE
  /\ debounce' = typed + 1
  /\ UNCHANGED <<mounted, requests, answers, results, histories>>

\* onSubmitted lists the results that are there; it asks for nothing.
OnSubmitted ==
  /\ mounted
  /\ isSwitch' = FALSE
  /\ UNCHANGED <<mounted, typed, debounce, requests, answers, isSearching,
                 results, histories>>

DebounceEndsOnce ==  \* mutant: a listener for the first pause only
  /\ debounce # 0 /\ results = 0
  /\ Cardinality(Pending) < MaxRequests
  /\ requests' = requests \union {debounce}
  /\ debounce' = 0
  /\ UNCHANGED <<mounted, typed, answers, isSearching, isSwitch, results, histories>>

\* A second without a change, and getSearch up to its answer.
DebounceEnds ==
  /\ debounce # 0
  /\ Cardinality(Pending) < MaxRequests
  /\ requests' = requests \union {debounce}
  /\ debounce' = 0
  /\ UNCHANGED <<mounted, typed, answers, isSearching, isSwitch, results, histories>>

Answer(q) ==
  /\ q \in requests
  /\ requests' = requests \ {q}
  /\ answers' = answers \union {q}
  /\ UNCHANGED <<mounted, typed, debounce, isSearching, isSwitch, results, histories>>

\* The request fails, or its body is no list of products; nobody catches that.
Fail(q) ==
  /\ q \in requests
  /\ requests' = requests \ {q}
  /\ failed' = failed \union {q}
  /\ UNCHANGED <<mounted, typed, debounce, answers, isSearching, isSwitch,
                 results, reordered>>

\* The continuation of getSearch: the spinner goes and the results are replaced,
\* whatever was typed since.  Without its screen, setState throws first.
ShowFirst(q) ==  \* mutant: results are shown only once
  /\ q \in answers
  /\ answers' = answers \ {q}
  /\ isSearching' = FALSE
  /\ results' = IF results = 0 THEN q ELSE results
  /\ UNCHANGED <<mounted, typed, debounce, requests, isSwitch, histories>>

Show(q) ==
  /\ q \in answers
  /\ answers' = answers \ {q}
  /\ \/ /\ mounted
        /\ isSearching' = FALSE
        /\ results' = q
        /\ reordered' = \/ \E r \in Pending : r < q
                        \/ reordered /\ q # typed
     \/ /\ ~mounted
        /\ UNCHANGED <<isSearching, results, reordered>>
  /\ UNCHANGED <<mounted, typed, debounce, requests, isSwitch, failed>>

\* dispose closes searchOnChange, which makes the debounce emit what it holds:
\* the backend is asked once more, for nobody.
Dispose ==
  /\ mounted
  /\ mounted' = FALSE
  /\ debounce' = 0
  /\ requests' = requests \union ({debounce} \ {0})
  /\ UNCHANGED <<typed, answers, isSearching, isSwitch, results, histories>>

\* What build puts below the text field.
Body ==
  IF isSearching THEN "spinner"
  ELSE IF results = 0 THEN "nothing"
  ELSE IF isSwitch THEN "suggestions" ELSE "products"

Next ==
  \/ OnChanged \/ OnSubmitted \/ DebounceEnds \/ Dispose
  \/ \E q \in requests : Answer(q) \/ Fail(q)
  \/ \E q \in answers : Show(q)

Spec == Init /\ [][Next]_vars

\* Timers fire, requests end well or not, continuations run.
FairSpec ==
  /\ Spec
  /\ WF_vars(DebounceEnds)
  /\ \A q \in Texts : WF_vars(Answer(q) \/ Fail(q)) /\ WF_vars(Show(q))

-----------------------------------------------------------------------------
TypeOK ==
  /\ mounted \in BOOLEAN
  /\ typed \in 0..MaxTyped
  /\ debounce \in 0..MaxTyped
  /\ requests \subseteq Texts
  /\ answers \subseteq Texts
  /\ isSearching \in BOOLEAN
  /\ isSwitch \in BOOLEAN
  /\ results \in 0..MaxTyped
  /\ failed \subseteq Texts
  /\ reordered \in BOOLEAN

(***************************************************************************)
(* When the typing has paused and every request has ended, the screen      *)
(* shows the products of the latest text: not a spinner, and not those of  *)
(* an earlier text - unless that very request failed, or an answer arrived *)
(* before the answer to an older text, which then replaced it.             *)
(***************************************************************************)
RestShowsLatest ==
  (mounted /\ debounce = 0 /\ Pending = {} /\ typed \notin failed /\ ~reordered)
  => results = typed /\ Body # "spinner"

(***************************************************************************)
(* The spinner always waits for something: for the debounce of the latest  *)
(* text, for a request, or in vain for the latest request, which failed.   *)
(***************************************************************************)
SpinnerWaits ==
  isSearching => debounce = typed \/ typed \in Pending \union failed \/ ~mounted

(***************************************************************************)
(* The spinner goes away, unless the latest request failed.                *)
(***************************************************************************)
SpinnerEnds == Body = "spinner" ~> (Body # "spinner" \/ typed \in failed \/ ~mounted)
=============================================================================
