--------------------------- MODULE SearchProofs -----------------------------
(***************************************************************************)
(* RestShowsLatest and SpinnerWaits for any number of texts and requests.  *)
(*                                                                         *)
(* The property is about screens at rest, so it is not inductive.          *)
(* Accounted says where the latest text is while the screen is not at      *)
(* rest: held by the debounce, asked for, failed, overtaken, or shown with *)
(* nothing left that could replace it.                                     *)
(***************************************************************************)
EXTENDS Search, TLAPS

\* Nothing is younger than the latest text, and only that is debounced.
Numbered ==
  /\ debounce \in {0, typed}
  /\ results <= typed
  /\ \A q \in Pending : q <= typed
  /\ isSearching => typed > 0

Accounted ==
  mounted => \/ debounce = typed
             \/ typed \in Pending \union failed
             \/ reordered
             \/ Pending = {} /\ results = typed

SearchInv == TypeOK /\ Numbered /\ Accounted /\ SpinnerWaits

LEMMA SearchInit == Init => SearchInv
<1> SUFFICES ASSUME Init PROVE SearchInv
  OBVIOUS
<1>1. TypeOK
  <2>1. 0 \in 0..MaxTyped
    BY SearchAssumption
  <2>2. QED
    BY <2>1, Zenon DEF Init, TypeOK
<1>2. Numbered /\ Accounted /\ SpinnerWaits
  BY DEF Init, Numbered, Accounted, SpinnerWaits, Pending
<1>3. QED
  BY <1>1, <1>2 DEF SearchInv

\* A late answer changes nothing of a screen that is gone.
LEMMA ShowUnmounted ==
  ASSUME NEW q, Show(q), ~mounted
  PROVE  UNCHANGED <<mounted, typed, debounce, isSearching, results>>
BY DEF Show

LEMMA SearchStep == SearchInv /\ [Next]_vars => SearchInv'
<1> SUFFICES ASSUME SearchInv, [Next]_vars PROVE SearchInv'
  OBVIOUS
<1> USE SearchAssumption
    DEF SearchInv, TypeOK, Numbered, Accounted, SpinnerWaits, Pending, Texts, histories
<1>1. CASE OnChanged
  BY <1>1 DEF OnChanged
<1>2. CASE OnSubmitted
  BY <1>2 DEF OnSubmitted
<1>3. CASE DebounceEnds
  <2>1. TypeOK' /\ Numbered'
    BY <1>3 DEF DebounceEnds
  <2>2. Accounted' /\ SpinnerWaits'
    BY <1>3 DEF DebounceEnds
  <2>3. QED
    BY <2>1, <2>2
<1>4. CASE Dispose
  <2>1. ({debounce} \ {0}) \subseteq Texts
    OBVIOUS
  <2>2. TypeOK'
    <3>1. 0 \in 0..MaxTyped
      OBVIOUS
    <3>2. QED
      BY <1>4, <2>1, <3>1, Zenon DEF Dispose
  <2>3. Numbered'
    BY <1>4, <2>1 DEF Dispose
  <2>4. Accounted' /\ SpinnerWaits'
    BY <1>4 DEF Dispose
  <2>5. QED
    BY <2>2, <2>3, <2>4
<1>5. ASSUME NEW q \in requests, Answer(q) PROVE SearchInv'
  BY <1>5 DEF Answer
<1>6. ASSUME NEW q \in requests, Fail(q) PROVE SearchInv'
  BY <1>6 DEF Fail
<1>7. ASSUME NEW q \in answers, Show(q) PROVE SearchInv'
  <2>1. TypeOK'
    <3>1. q \in Texts /\ q \in 0..MaxTyped
      OBVIOUS
    <3>2. reordered' \in BOOLEAN /\ isSearching' \in BOOLEAN
      BY <1>7, Zenon DEF Show
    <3>3. results' \in 0..MaxTyped /\ answers' \subseteq Texts
      BY <1>7, <3>1 DEF Show
    <3>4. QED
      BY <1>7, <3>2, <3>3, Zenon DEF Show
  <2>2. Numbered' /\ SpinnerWaits'
    <3>1. CASE mounted
      BY <1>7, <3>1 DEF Show
    <3>2. CASE ~mounted
      <4>1. UNCHANGED <<mounted, typed, debounce, isSearching, results>>
        BY <1>7, <3>2, ShowUnmounted
      <4>2. Pending' \subseteq Pending
        BY <1>7 DEF Show
      <4>3. ~mounted' /\ (isSearching' => isSearching)
        BY <3>2, <4>1, Zenon
      <4>4. typed' = typed /\ debounce' = debounce /\ results' = results
        BY <4>1
      <4>5. QED
        BY <4>2, <4>3, <4>4
    <3>3. QED
      BY <3>1, <3>2
  <2>3. Accounted'
    BY <1>7 DEF Show
  <2>4. QED
    BY <2>1, <2>2, <2>3
<1>8. CASE UNCHANGED vars
  BY <1>8 DEF vars
<1>9. QED
  BY <1>1, <1>2, <1>3, <1>4, <1>5, <1>6, <1>7, <1>8 DEF Next

LEMMA SearchCorrect == Spec => []SearchInv
BY SearchInit, SearchStep, PTL DEF Spec

(***************************************************************************)
(* However fast the user types and in whatever order the backend answers,  *)
(* the screen at rest shows the latest text's products.                    *)
(***************************************************************************)
THEOREM RestIsLatest == Spec => []RestShowsLatest
<1>1. SearchInv => RestShowsLatest
  BY DEF SearchInv, TypeOK, Numbered, Accounted, SpinnerWaits, RestShowsLatest, Body
<1>2. QED
  BY <1>1, SearchCorrect, PTL

(***************************************************************************)
(* The spinner of the search screen never waits for nothing.               *)
(***************************************************************************)
THEOREM SpinnerIsOwned == Spec => []SpinnerWaits
<1>1. SearchInv => SpinnerWaits
  BY DEF SearchInv
<1>2. QED
  BY <1>1, SearchCorrect, PTL
=============================================================================
