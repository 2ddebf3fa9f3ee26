-------------------------- MODULE FavouritesProofs --------------------------
(***************************************************************************)
(* Proofs about Favourites, for any number of favourites, any page size,   *)
(* any number of pages and any number of removals under way.               *)
(*                                                                         *)
(* The argument is about positions.  A removal only moves favourites       *)
(* towards the front of the backend's list, so a favourite that was read   *)
(* on one page can only turn up again on an earlier one, and that one must *)
(* then be read later: a page is overtaken.                                *)
(***************************************************************************)
EXTENDS Favourites, SequenceTheorems, TLAPS

\* What is on screen or in an answer on its way to it.
Listed == Range(favourites) \union UNION {Range(l.data) : l \in loads}

\* The backend has not read page p yet.
Unread(p) == p > page \/ Request(p) \in loads

NoRepeat(s) == \A i, j \in DOMAIN s : s[i] = s[j] => i = j

-----------------------------------------------------------------------------
\* Every page is asked for once, and an answer is not there before it is given.
Asked ==
  /\ \A l \in loads : ~l.answered => l.data = <<>>
  /\ \A l \in loads : l.page <= page
  /\ \A l, m \in loads : l.page = m.page => l = m

\* Until the first page is read there is nothing to scroll or to remove.
FirstPage ==
  Request(1) \in loads =>
    page = 1 /\ favourites = <<>> /\ dialog = {} /\ deletes = {} /\ Len(server) = Total

\* The backend's list keeps its order, and is the original one if no row is gone.
ServerSorted ==
  /\ \A i, j \in DOMAIN server : i < j => server[i] < server[j]
  /\ Len(server) <= Total
  /\ Len(server) = Total => \A i \in DOMAIN server : server[i] = i

(***************************************************************************)
(* A listed favourite at position i was read on a page that reached that   *)
(* far: every page still unread starts after i, unless a later page was    *)
(* read before it.  With the original list that favourite is on no unread  *)
(* page.                                                                   *)
(***************************************************************************)
Positions ==
  \A p \in 1..MaxPage, i \in DOMAIN server :
    Unread(p) /\ server[i] \in Listed =>
      \/ i <= (p - 1) * Limit
      \/ \E q \in (p + 1)..page : Request(q) \notin loads

Unmoved ==
  Len(server) = Total =>
    \A p \in 1..MaxPage, i \in DOMAIN server :
      Unread(p) /\ server[i] \in Listed => i <= (p - 1) * Limit \/ p * Limit < i

\* The list and the answers on their way have no row in common.
Disjoint ==
  /\ \A l \in loads : NoRepeat(l.data)
  /\ ~overtaken =>
       /\ NoRepeat(favourites)
       /\ \A l \in loads : Range(l.data) \intersect Range(favourites) = {}
       /\ \A l, m \in loads : l # m => Range(l.data) \intersect Range(m.data) = {}

-----------------------------------------------------------------------------
\* A position is right until a row is taken out of the list.
RowsHeld ==
  \A r \in dialog \union deletes :
    ~r.moved => r.index \in DOMAIN favourites /\ favourites[r.index] = r.id

\* Whose removal the backend has confirmed is not in its list.
Gone ==
  /\ \A r \in dialog : ~r.deleted
  /\ \A r \in deletes : r.deleted => r.id \notin Range(server)

Existing == ~crossed /\ ~overtaken => Listed \subseteq Range(server) \union Unheard

-----------------------------------------------------------------------------
Within ==
  /\ overtaken => shifted
  /\ ~shifted => \A x \in Listed : x <= page * Limit

Complete ==
  ~lost /\ ~shifted /\ ~crossed =>
    \A p \in 1..page : Request(p) \notin loads =>
      \A x \in Range(server) : (p - 1) * Limit < x /\ x <= p * Limit => x \in Listed

FavInv ==
  /\ TypeOK
  /\ Asked
  /\ FirstPage
  /\ ServerSorted
  /\ Positions
  /\ Unmoved
  /\ Disjoint
  /\ RowsHeld
  /\ Gone
  /\ Existing
  /\ Within
  /\ Complete

-----------------------------------------------------------------------------
\* Page p ends before page q starts.
LEMMA PagesApart ==
  ASSUME NEW p \in Nat, NEW q \in Nat, p < q
  PROVE  /\ p * Limit \in Nat /\ (q - 1) * Limit \in Nat
         /\ p * Limit <= (q - 1) * Limit
         /\ (q - 1) * Limit + Limit = q * Limit
         /\ p * Limit <= q * Limit
<1>1. PICK d \in Nat : q - 1 = p + d
  <2>1. q - 1 - p \in Nat /\ q - 1 = p + (q - 1 - p)
    OBVIOUS
  <2>2. QED
    BY <2>1
<1>2. Limit \in Nat
  BY FavouritesAssumption
<1>3. d * Limit \in Nat /\ p * Limit \in Nat
  BY <1>2
<1>4. (p + d) * Limit = p * Limit + d * Limit
  BY <1>2
<1>5. (q - 1) * Limit + Limit = q * Limit
  BY <1>2
<1>6. (q - 1) * Limit = p * Limit + d * Limit
  BY <1>1, <1>4
<1>7. QED
  BY <1>2, <1>3, <1>5, <1>6

LEMMA PageSpan ==
  ASSUME NEW p \in Nat \ {0}
  PROVE  /\ (p - 1) * Limit \in Nat
         /\ p * Limit \in Nat
         /\ (p - 1) * Limit + Limit = p * Limit
         /\ (p - 1) * Limit = p * Limit - Limit
BY FavouritesAssumption

\* Every number is on a page.
LEMMA OnSomePage ==
  ASSUME NEW x \in Nat \ {0}, NEW n \in Nat, x <= n * Limit
  PROVE  \E p \in 1..n : (p - 1) * Limit < x /\ x <= p * Limit
<1> DEFINE d == (x - 1) \div Limit
           m == (x - 1) % Limit
<1>1. Limit \in Nat /\ Limit > 0 /\ x - 1 \in Nat
  BY FavouritesAssumption
<1>2. d \in Nat /\ m \in 0..(Limit - 1) /\ x - 1 = Limit * d + m
  BY <1>1
<1> HIDE DEF d, m
<1>3. d * Limit \in Nat /\ d * Limit = Limit * d /\ (d + 1) * Limit = d * Limit + Limit
  BY <1>1, <1>2
<1>4. d * Limit < x /\ x <= (d + 1) * Limit
  BY <1>1, <1>2, <1>3
<1>5. d < n
  <2> SUFFICES ASSUME ~(d < n) PROVE FALSE
    OBVIOUS
  <2>1. n * Limit <= d * Limit
    <3>1. PICK e \in Nat : d = n + e
      <4>1. d - n \in Nat /\ d = n + (d - n)
        BY <1>2
      <4>2. QED
        BY <4>1
    <3>2. (n + e) * Limit = n * Limit + e * Limit /\ e * Limit \in Nat /\ n * Limit \in Nat
      BY <1>1
    <3>3. QED
      BY <3>1, <3>2
  <2>2. n * Limit \in Nat
    BY <1>1
  <2>3. QED
    BY <1>3, <1>4, <2>1, <2>2
<1>6. d + 1 \in 1..n /\ (d + 1) - 1 = d
  BY <1>2, <1>5
<1>7. QED
  BY <1>4, <1>6

\* The elements of a sequence without the one at position i.
LEMMA RemoveAtElements ==
  ASSUME NEW S, NEW s \in Seq(S), NEW i \in DOMAIN s
  PROVE  LET t == RemoveAt(s, i)
         IN  /\ t \in Seq(S)
             /\ Len(t) = Len(s) - 1
             /\ DOMAIN t = 1..(Len(s) - 1)
             /\ \A j \in 1..(Len(s) - 1) : t[j] = IF j < i THEN s[j] ELSE s[j + 1]
<1>0. Len(s) \in Nat /\ DOMAIN s = 1..Len(s) /\ \A j \in 1..Len(s) : s[j] \in S
  BY LenProperties, ElementOfSeq
<1> DEFINE a == SubSeq(s, 1, i - 1)
           b == SubSeq(s, i + 1, Len(s))
<1>1. /\ a \in Seq(S) /\ Len(a) = i - 1
      /\ \A j \in 1..(i - 1) : a[j] = s[j]
  <2>1. \A j \in 1..(i - 1) : s[j] \in S
    BY <1>0
  <2>2. QED
    BY <1>0, <2>1, SubSeqProperties
<1>2. /\ b \in Seq(S) /\ Len(b) = Len(s) - i
      /\ \A j \in 1..(Len(s) - i) : b[j] = s[i + j]
  <2>1. \A j \in (i + 1)..Len(s) : s[j] \in S
    BY <1>0
  <2>2. /\ b \in Seq(S)
        /\ Len(b) = IF i + 1 <= Len(s) THEN Len(s) - (i + 1) + 1 ELSE 0
        /\ \A j \in 1..(Len(s) - (i + 1) + 1) : b[j] = s[(i + 1) + j - 1]
    BY <1>0, <2>1, SubSeqProperties
  <2>3. /\ i \in 1..Len(s) /\ Len(s) - (i + 1) + 1 = Len(s) - i
        /\ i + 1 <= Len(s) \/ Len(s) - i = 0
        /\ \A j \in 1..(Len(s) - i) : (i + 1) + j - 1 = i + j
    BY <1>0
  <2> HIDE DEF b
  <2>4. Len(b) = Len(s) - i
    BY <1>0, <2>2, <2>3
  <2>5. ASSUME NEW j \in 1..(Len(s) - i)
        PROVE  b[j] = s[i + j]
    BY <2>2, <2>3
  <2>6. QED
    BY <2>2, <2>4, <2>5
<1> HIDE DEF a, b
<1>3. /\ a \o b \in Seq(S) /\ Len(a \o b) = Len(s) - 1
      /\ \A j \in 1..(Len(s) - 1) : (a \o b)[j] = IF j < i THEN s[j] ELSE s[j + 1]
  <2>1. /\ a \o b \in Seq(S) /\ Len(a \o b) = Len(a) + Len(b)
        /\ \A j \in 1..(Len(a) + Len(b)) :
             (a \o b)[j] = IF j <= Len(a) THEN a[j] ELSE b[j - Len(a)]
    BY <1>1, <1>2, ConcatProperties
  <2>2. Len(a) + Len(b) = Len(s) - 1
    BY <1>0, <1>1, <1>2
  <2>3. ASSUME NEW j \in 1..(Len(s) - 1)
        PROVE  (a \o b)[j] = IF j < i THEN s[j] ELSE s[j + 1]
    <3>1. CASE j < i
      BY <1>0, <1>1, <2>1, <2>2, <3>1
    <3>2. CASE ~(j < i)
      <4>1. j - Len(a) \in 1..(Len(s) - i) /\ i + (j - Len(a)) = j + 1
        BY <1>0, <1>1, <3>2
      <4>2. (a \o b)[j] = b[j - Len(a)]
        BY <1>0, <1>1, <2>1, <2>2, <3>2
      <4>3. QED
        BY <1>2, <3>2, <4>1, <4>2
    <3>3. QED
      BY <3>1, <3>2
  <2>4. QED
    BY <2>1, <2>2, <2>3
<1>4. RemoveAt(s, i) = a \o b
  BY DEF RemoveAt, a, b
<1>5. DOMAIN (a \o b) = 1..(Len(s) - 1)
  BY <1>3, LenProperties
<1>6. QED
  BY <1>3, <1>4, <1>5

\* The part of a sequence between two positions.
LEMMA PartElements ==
  ASSUME NEW S, NEW s \in Seq(S), NEW a \in Nat, NEW z \in Nat,
         NEW n, n = IF z < Len(s) THEN z ELSE Len(s),
         NEW d, d = SubSeq(s, a + 1, n)
  PROVE  /\ d \in Seq(S)
         /\ \A j \in DOMAIN d : /\ j \in Nat \ {0} /\ a + j \in DOMAIN s
                                /\ a + j <= z /\ d[j] = s[a + j]
         /\ \A i \in DOMAIN s : a < i /\ i <= z => i - a \in DOMAIN d /\ d[i - a] = s[i]
<1>0. PICK m \in Nat : m = Len(s) /\ DOMAIN s = 1..m
  BY LenProperties
<1>1. n \in Nat /\ n <= z /\ n <= m /\ (n = z \/ n = m)
  <2>1. n = IF z < m THEN z ELSE m
    BY <1>0
  <2>2. QED
    BY <2>1
<1>2. /\ d \in Seq(S)
      /\ Len(d) = IF a + 1 <= n THEN n - (a + 1) + 1 ELSE 0
      /\ \A i \in 1..(n - (a + 1) + 1) : d[i] = s[(a + 1) + i - 1]
  <2>1. \A i \in (a + 1)..n : i \in 1..m
    BY <1>1
  <2>2. \A i \in (a + 1)..n : s[i] \in S
    BY <1>0, <2>1, ElementOfSeq
  <2>3. QED
    BY <1>1, <2>2, SubSeqProperties
<1>3. DOMAIN d = 1..Len(d) /\ Len(d) \in Nat
  BY <1>2, LenProperties
<1>4. Len(d) = IF a + 1 <= n THEN n - a ELSE 0
  BY <1>1, <1>2
<1>5. \A i \in 1..(n - a) : d[i] = s[a + i]
  <2> SUFFICES ASSUME NEW i \in 1..(n - a) PROVE d[i] = s[a + i]
    OBVIOUS
  <2>1. i \in 1..(n - (a + 1) + 1) /\ (a + 1) + i - 1 = a + i
    BY <1>1
  <2>2. d[i] = s[(a + 1) + i - 1]
    BY <1>2, <2>1
  <2>3. QED
    BY <2>1, <2>2
<1>6. ASSUME NEW j \in DOMAIN d
      PROVE  /\ j \in Nat \ {0} /\ a + j \in DOMAIN s
             /\ a + j <= z /\ d[j] = s[a + j]
  <2>1. j \in 1..(n - a)
    BY <1>1, <1>3, <1>4
  <2>2. j \in Nat \ {0} /\ a + j \in 1..m /\ a + j <= z
    BY <1>1, <2>1
  <2>3. QED
    BY <1>0, <1>5, <2>1, <2>2
<1>7. ASSUME NEW i \in DOMAIN s, a < i, i <= z
      PROVE  i - a \in DOMAIN d /\ d[i - a] = s[i]
  <2>0. i \in 1..m
    BY <1>0
  <2>1. i - a \in 1..(n - a) /\ a + (i - a) = i /\ a + 1 <= n
    BY <1>1, <1>7, <2>0
  <2>2. i - a \in DOMAIN d
    BY <1>3, <1>4, <2>1
  <2>3. d[i - a] = s[a + (i - a)]
    BY <1>5, <2>1
  <2>4. QED
    BY <2>1, <2>2, <2>3
<1>8. QED
  BY <1>2, <1>6, <1>7

\* A page holds the favourites at its positions, each once.
LEMMA PageElements ==
  ASSUME TypeOK, NEW p \in Nat \ {0}, NEW d, d = PageOf(p)
  PROVE  /\ d \in Seq(All)
         /\ \A x \in Range(d) : \E i \in DOMAIN server :
              (p - 1) * Limit < i /\ i <= p * Limit /\ server[i] = x
         /\ \A i \in DOMAIN server :
              (p - 1) * Limit < i /\ i <= p * Limit => server[i] \in Range(d)
         /\ ServerSorted => NoRepeat(d)
<1>0. server \in Seq(All) /\ \A i \in DOMAIN server : server[i] \in Int
  <2>1. server \in Seq(All) /\ All \subseteq Int
    BY DEF TypeOK, All
  <2>2. QED
    BY <2>1, LenProperties, ElementOfSeq
<1>1. PICK a \in Nat, z \in Nat, n \in Nat :
        /\ a = (p - 1) * Limit /\ z = p * Limit
        /\ n = IF z < Len(server) THEN z ELSE Len(server)
        /\ p * Limit - Limit + 1 = a + 1
  <2>1. /\ (p - 1) * Limit \in Nat /\ p * Limit \in Nat
        /\ p * Limit - Limit = (p - 1) * Limit
    BY PageSpan
  <2>2. (IF p * Limit < Len(server) THEN p * Limit ELSE Len(server)) \in Nat
    BY <1>0, <2>1, LenProperties
  <2>3. QED
    BY <2>1, <2>2, Zenon
<1>2. d = SubSeq(server, a + 1, n)
  BY <1>1 DEF PageOf
<1>3. /\ d \in Seq(All)
      /\ \A j \in DOMAIN d : /\ j \in Nat \ {0} /\ a + j \in DOMAIN server
                             /\ a + j <= z /\ d[j] = server[a + j]
      /\ \A i \in DOMAIN server : a < i /\ i <= z =>
           i - a \in DOMAIN d /\ d[i - a] = server[i]
  <2>1. n = IF z < Len(server) THEN z ELSE Len(server)
    BY <1>1
  <2> HIDE <1>1
  <2>2. QED
    BY <1>0, <1>2, <2>1, PartElements
<1>4. \A x \in Range(d) : \E i \in DOMAIN server : a < i /\ i <= z /\ server[i] = x
  <2> SUFFICES ASSUME NEW j \in DOMAIN d
               PROVE  \E i \in DOMAIN server : a < i /\ i <= z /\ server[i] = d[j]
    BY DEF Range
  <2>1. j \in Nat \ {0} /\ a + j \in DOMAIN server /\ a + j <= z /\ d[j] = server[a + j]
    BY <1>3
  <2>2. a < a + j
    BY <2>1
  <2>3. QED
    BY <2>1, <2>2
<1>5. \A i \in DOMAIN server : a < i /\ i <= z => server[i] \in Range(d)
  BY <1>3 DEF Range
<1>6. ServerSorted => NoRepeat(d)
  <2> SUFFICES ASSUME ServerSorted, NEW i \in DOMAIN d, NEW j \in DOMAIN d, d[i] = d[j]
               PROVE  i = j
    BY DEF NoRepeat
  <2>1. /\ server[a + i] = server[a + j] /\ i \in Nat /\ j \in Nat
        /\ a + i \in DOMAIN server /\ a + j \in DOMAIN server
    BY <1>3
  <2>2. ~(a + i < a + j) /\ ~(a + j < a + i)
    BY <1>0, <2>1 DEF ServerSorted
  <2>3. QED
    BY <2>1, <2>2
<1>7. QED
  BY <1>1, <1>3, <1>4, <1>5, <1>6

\* The rows of a list to which another is added.
LEMMA ConcatRows ==
  ASSUME NEW S, NEW s \in Seq(S), NEW t \in Seq(S)
  PROVE  /\ s \o t \in Seq(S)
         /\ Range(s \o t) = Range(s) \union Range(t)
         /\ \A i \in DOMAIN s : i \in DOMAIN (s \o t) /\ (s \o t)[i] = s[i]
         /\ NoRepeat(s) /\ NoRepeat(t) /\ Range(s) \intersect Range(t) = {} =>
              NoRepeat(s \o t)
<1>1. /\ s \o t \in Seq(S) /\ Len(s \o t) = Len(s) + Len(t)
      /\ \A i \in 1..(Len(s) + Len(t)) :
           (s \o t)[i] = IF i <= Len(s) THEN s[i] ELSE t[i - Len(s)]
  BY ConcatProperties
<1>2. /\ Len(s) \in Nat /\ Len(t) \in Nat /\ DOMAIN s = 1..Len(s) /\ DOMAIN t = 1..Len(t)
      /\ DOMAIN (s \o t) = 1..(Len(s) + Len(t))
  BY <1>1, LenProperties
<1>3. Range(s \o t) = Range(s) \union Range(t)
  BY RangeConcatenation
<1>4. \A i \in DOMAIN s : i \in DOMAIN (s \o t) /\ (s \o t)[i] = s[i]
  BY <1>1, <1>2
<1>5. ASSUME NoRepeat(s), NoRepeat(t), Range(s) \intersect Range(t) = {},
             NEW i \in DOMAIN (s \o t), NEW j \in DOMAIN (s \o t),
             (s \o t)[i] = (s \o t)[j]
      PROVE  i = j
  <2>1. \A k \in DOMAIN (s \o t) :
          \/ k \in DOMAIN s /\ (s \o t)[k] = s[k] /\ (s \o t)[k] \in Range(s)
          \/ /\ k - Len(s) \in DOMAIN t /\ (s \o t)[k] = t[k - Len(s)]
             /\ (s \o t)[k] \in Range(t)
    BY <1>1, <1>2 DEF Range
  <2>2. \/ i \in DOMAIN s /\ j \in DOMAIN s /\ s[i] = s[j]
        \/ /\ i - Len(s) \in DOMAIN t /\ j - Len(s) \in DOMAIN t
           /\ t[i - Len(s)] = t[j - Len(s)]
    BY <1>5, <2>1
  <2>3. i = j \/ i - Len(s) = j - Len(s)
    BY <1>5, <2>2 DEF NoRepeat
  <2>4. QED
    BY <1>2, <2>3
<1>6. QED
  BY <1>1, <1>3, <1>4, <1>5 DEF NoRepeat

\* The rows of a list from which one is taken out.
LEMMA RemovedRows ==
  ASSUME NEW S, NEW s \in Seq(S), NEW i
  PROVE  /\ Removed(s, i) \in Seq(S)
         /\ Range(Removed(s, i)) \subseteq Range(s)
         /\ NoRepeat(s) => NoRepeat(Removed(s, i))
         /\ i \in DOMAIN s =>
              /\ \A x \in Range(s) : x = s[i] \/ x \in Range(Removed(s, i))
              /\ NoRepeat(s) => s[i] \notin Range(Removed(s, i))
<1>1. CASE i \notin DOMAIN s
  BY <1>1 DEF Removed
<1>2. CASE i \in DOMAIN s
  <2> DEFINE t == RemoveAt(s, i)
  <2>0. Removed(s, i) = t
    BY <1>2 DEF Removed
  <2>1. Len(s) \in Nat /\ DOMAIN s = 1..Len(s)
    BY LenProperties
  <2>2. /\ t \in Seq(S) /\ DOMAIN t = 1..(Len(s) - 1)
        /\ \A j \in 1..(Len(s) - 1) : t[j] = IF j < i THEN s[j] ELSE s[j + 1]
    BY <1>2, RemoveAtElements
  <2> HIDE DEF t
  <2> DEFINE from(j) == IF j < i THEN j ELSE j + 1
  <2>3. \A j \in DOMAIN t : from(j) \in DOMAIN s \ {i} /\ t[j] = s[from(j)]
    BY <1>2, <2>1, <2>2
  <2>4. \A j, k \in DOMAIN t : from(j) = from(k) => j = k
    BY <1>2, <2>1, <2>2
  <2>5. \A k \in DOMAIN s : k = i \/ \E j \in DOMAIN t : from(j) = k
    <3> SUFFICES ASSUME NEW k \in DOMAIN s, k # i
                 PROVE  \E j \in DOMAIN t : from(j) = k
      OBVIOUS
    <3>1. CASE k < i
      <4>1. k \in DOMAIN t /\ from(k) = k
        BY <1>2, <2>1, <2>2, <3>1
      <4>2. QED
        BY <4>1
    <3>2. CASE ~(k < i)
      <4>1. k - 1 \in DOMAIN t /\ from(k - 1) = k
        BY <1>2, <2>1, <2>2, <3>2
      <4>2. QED
        BY <4>1
    <3>3. QED
      BY <3>1, <3>2
  <2> HIDE DEF from
  <2>6. Range(t) \subseteq Range(s)
    BY <2>3 DEF Range
  <2>7. NoRepeat(s) => NoRepeat(t)
    BY <2>3, <2>4 DEF NoRepeat
  <2>8. \A x \in Range(s) : x = s[i] \/ x \in Range(t)
    <3> SUFFICES ASSUME NEW k \in DOMAIN s, k # i PROVE s[k] \in Range(t)
      BY DEF Range
    <3>1. PICK j \in DOMAIN t : from(j) = k
      BY <2>5
    <3>2. QED
      BY <2>3, <3>1 DEF Range
  <2>9. NoRepeat(s) => s[i] \notin Range(t)
    BY <1>2, <2>3 DEF NoRepeat, Range
  <2>10. QED
    BY <2>0, <2>2, <2>6, <2>7, <2>8, <2>9
<1>3. QED
  BY <1>1, <1>2

-----------------------------------------------------------------------------
\* A request that is not answered is determined by its page.
LEMMA RequestRecord ==
  /\ \A p : Request(p).page = p /\ ~Request(p).answered /\ Request(p).data = <<>>
  /\ \A p \in 1..MaxPage : Request(p) \in Loads
  /\ \A l \in Loads : ~l.answered /\ l.data = <<>> => l = Request(l.page)
  /\ Range(<<>>) = {}
BY EmptySeq DEF Request, Loads, Range

\* Every element of the backend's list and of the list on screen is a number.
LEMMA ServerFacts ==
  ASSUME TypeOK
  PROVE  /\ Len(server) \in Nat /\ DOMAIN server = 1..Len(server)
         /\ \A i \in DOMAIN server : server[i] \in All /\ i \in Nat \ {0}
         /\ \A x \in All : x \in Nat \ {0} /\ x <= Total
         /\ page \in Nat \ {0}
<1>1. server \in Seq(All) /\ page \in Nat \ {0} /\ \A x \in All : x \in Nat \ {0} /\ x <= Total
  BY FavouritesAssumption DEF TypeOK, All
<1>2. Len(server) \in Nat /\ DOMAIN server = 1..Len(server)
  BY <1>1, LenProperties
<1>3. \A i \in DOMAIN server : server[i] \in All
  BY <1>1, <1>2, ElementOfSeq
<1>4. QED
  BY <1>1, <1>2, <1>3

LEMMA FavInit == Init => FavInv
<1> SUFFICES ASSUME Init PROVE FavInv
  OBVIOUS
<1>1. server \in Seq(All) /\ Len(server) = Total /\ DOMAIN server = All
  <2>1. server = [i \in 1..Total |-> i] /\ Total \in Nat
    BY FavouritesAssumption DEF Init, All
  <2>2. \A i \in 1..Total : i \in All
    BY DEF All
  <2>3. server \in [1..Total -> All]
    BY <2>1, <2>2
  <2>4. server \in Seq(All)
    BY <2>1, <2>3, SeqDef
  <2>5. QED
    BY <2>1, <2>4, LenProperties DEF All
<1>2. \A i \in DOMAIN server : server[i] = i
  BY DEF Init
<1>3. TypeOK
  <2>1. Request(1) \in Loads /\ page \in 1..MaxPage
    BY RequestRecord, FavouritesAssumption DEF Init
  <2>2. <<>> \in Seq(All)
    BY EmptySeq
  <2>3. QED
    BY <1>1, <2>1, <2>2 DEF Init, TypeOK
<1>4. Listed = {}
  BY RequestRecord DEF Init, Listed
<1>5. Asked /\ FirstPage
  BY <1>1, RequestRecord DEF Init, Asked, FirstPage
<1>6. ServerSorted
  BY <1>1, <1>2, FavouritesAssumption DEF ServerSorted, All
<1>7. Positions /\ Unmoved /\ Existing /\ Within
  BY <1>4 DEF Positions, Unmoved, Existing, Within, Init
<1>8. Disjoint
  BY RequestRecord DEF Disjoint, NoRepeat, Init
<1>9. RowsHeld /\ Gone
  BY DEF RowsHeld, Gone, Init
<1>10. Complete
  BY DEF Complete, Init
<1>11. QED
  BY <1>3, <1>5, <1>6, <1>7, <1>8, <1>9, <1>10 DEF FavInv

(***************************************************************************)
(* The dialog: a row is remembered with its position, or forgotten.        *)
(***************************************************************************)
LEMMA FavDialog ==
  ASSUME FavInv,
         \/ \E i \in DOMAIN favourites : OpenAlertBox(i)
         \/ Cancel \/ Confirm
         \/ \E r \in deletes : DeleteFailed(r)
  PROVE  FavInv'
<1> USE DEF FavInv
<1>0. UNCHANGED <<server, favourites, page, loads, lost, shifted, overtaken, crossed>>
  BY DEF OpenAlertBox, Cancel, Confirm, DeleteFailed, histories
<1>1. /\ \A r \in dialog' \union deletes' :
           \/ r \in dialog \union deletes
           \/ /\ r \in Rows /\ r.index \in DOMAIN favourites /\ favourites[r.index] = r.id
              /\ r \in dialog' /\ ~r.deleted
      /\ \A r \in deletes' : r \in deletes \/ r \in dialog
      /\ \A r \in dialog' : r \in dialog \/ ~r.deleted
      /\ Unheard \subseteq Unheard'
      /\ favourites # <<>> \/ (dialog' \subseteq dialog /\ deletes' \subseteq deletes)
         \/ dialog # {}
  <2>1. ASSUME NEW i \in DOMAIN favourites, OpenAlertBox(i)
        PROVE  <1>1!:
    <3>1. favourites \in Seq(All)
      BY DEF TypeOK
    <3>2. i \in Nat \ {0} /\ favourites[i] \in All /\ favourites # <<>>
      BY <2>1, <3>1, LenProperties, ElementOfSeq, EmptySeq
    <3> DEFINE r == [index |-> i, id |-> favourites[i], moved |-> FALSE, deleted |-> FALSE]
    <3>3. r \in Rows /\ r.index = i /\ r.id = favourites[i] /\ ~r.deleted
      BY <3>2 DEF Rows
    <3>4. dialog' = {r} /\ deletes' = deletes
      BY <2>1 DEF OpenAlertBox
    <3> HIDE DEF r
    <3>5. QED
      BY <2>1, <3>2, <3>3, <3>4 DEF Unheard
  <2>2. CASE Cancel
    BY <2>2 DEF Cancel, Unheard
  <2>3. CASE Confirm
    BY <2>3 DEF Confirm, Unheard
  <2>4. ASSUME NEW r \in deletes, DeleteFailed(r)
        PROVE  <1>1!:
    BY <2>4 DEF DeleteFailed, Unheard
  <2>5. QED
    BY <2>1, <2>2, <2>3, <2>4
<1>2. TypeOK'
  BY <1>0, <1>1 DEF TypeOK
<1>3. Asked' /\ ServerSorted'
  BY <1>0 DEF Asked, ServerSorted
<1>4. FirstPage'
  BY <1>0, <1>1 DEF FirstPage, Request
<1>5. Listed' = Listed /\ \A p : Unread(p)' <=> Unread(p)
  BY <1>0 DEF Listed, Unread, Request
<1>6. Positions' /\ Unmoved' /\ Complete' /\ Within'
  BY <1>0, <1>5 DEF Positions, Unmoved, Complete, Within, Request
<1>7. Disjoint'
  BY <1>0 DEF Disjoint
<1>8. RowsHeld' /\ Gone'
  BY <1>0, <1>1 DEF RowsHeld, Gone
<1>9. Existing'
  BY <1>0, <1>1, <1>5 DEF Existing
<1>10. QED
  BY <1>2, <1>3, <1>4, <1>6, <1>7, <1>8, <1>9

(***************************************************************************)
(* Asking for a page and losing a request leave the rows as they are.      *)
(***************************************************************************)
LEMMA FavScroll ==
  ASSUME FavInv, Scroll
  PROVE  FavInv'
<1> USE DEF FavInv
<1>0. /\ UNCHANGED <<server, favourites, dialog, deletes, lost, shifted, overtaken, crossed>>
      /\ favourites # <<>> /\ page < MaxPage
      /\ page' = page + 1 /\ loads' = loads \union {Request(page + 1)}
  BY DEF Scroll, histories
<1>1. page \in Nat \ {0} /\ page + 1 \in 1..MaxPage /\ page' \in Nat
  BY <1>0, ServerFacts, FavouritesAssumption
<1>3. \A q : Request(q) \in loads' <=> Request(q) \in loads \/ q = page + 1
  BY <1>0, RequestRecord
<1>4. Listed' = Listed
  BY <1>0, RequestRecord DEF Listed
<1>5. \A p \in Nat : Unread(p)' <=> Unread(p)
  <2>1. \A p \in Nat : Unread(p)' <=> p > page' \/ Request(p) \in loads'
    BY DEF Unread, Request
  <2>2. QED
    BY <1>0, <1>1, <1>3, <2>1 DEF Unread
<1>6. TypeOK'
  BY <1>0, <1>1, RequestRecord DEF TypeOK
<1>7. Asked'
  <2>1. \A l \in loads : l.page \in Nat /\ l.page <= page
    BY DEF Asked, TypeOK, Loads
  <2>2. \A l \in loads : l.page <= page + 1 /\ l.page # page + 1
    BY <1>1, <2>1
  <2>3. \A l \in loads' : l \in loads \/ l = Request(page + 1)
    BY <1>0
  <2>4. \A l, m \in loads' : l.page = m.page => l = m
    BY <2>2, <2>3, RequestRecord DEF Asked
  <2>5. \A l \in loads' : l.page <= page' /\ (~l.answered => l.data = <<>>)
    BY <1>0, <1>1, <2>2, <2>3, RequestRecord DEF Asked
  <2>6. QED
    BY <2>4, <2>5 DEF Asked
<1>8. FirstPage'
  BY <1>0, <1>1, <1>3 DEF FirstPage, Request
<1>9. ServerSorted' /\ RowsHeld' /\ Gone'
  BY <1>0 DEF ServerSorted, RowsHeld, Gone
<1>10. Positions'
  <2> SUFFICES ASSUME NEW p \in 1..MaxPage, NEW i \in DOMAIN server,
                      Unread(p), server[i] \in Listed, ~(i <= (p - 1) * Limit)
               PROVE  \E q \in (p + 1)..(page + 1) : Request(q) \notin loads'
    BY <1>0, <1>4, <1>5 DEF Positions, Request
  <2>1. PICK q \in (p + 1)..page : Request(q) \notin loads
    BY DEF Positions
  <2>2. q \in (p + 1)..(page + 1) /\ q # page + 1
    BY <1>1
  <2>3. QED
    BY <1>3, <2>1, <2>2
<1>11. Unmoved'
  BY <1>0, <1>4, <1>5 DEF Unmoved
<1>12. Disjoint'
  <2>1. \A l \in loads' :
          l \in loads \/ (l = Request(page + 1) /\ Range(l.data) = {} /\ NoRepeat(l.data))
    BY <1>0, RequestRecord DEF NoRepeat
  <2>2. QED
    BY <1>0, <2>1 DEF Disjoint
<1>13. Existing'
  BY <1>0, <1>4 DEF Existing, Unheard
<1>14. Within'
  <2>1. page * Limit \in Nat /\ page * Limit <= (page + 1) * Limit /\ (page + 1) * Limit \in Nat
    BY <1>1, FavouritesAssumption
  <2>2. \A x \in Listed : x \in Nat
    <3>1. Listed \subseteq All
      <4>1. Range(favourites) \subseteq All /\ \A l \in loads : Range(l.data) \subseteq All
        BY RangeOfSeq DEF TypeOK, Loads
      <4>2. QED
        BY <4>1 DEF Listed
    <3>2. QED
      BY <3>1, ServerFacts
  <2>3. QED
    BY <1>0, <1>4, <2>1, <2>2 DEF Within
<1>15. Complete'
  <2> SUFFICES ASSUME ~lost, ~shifted, ~crossed, NEW p \in 1..(page + 1),
                      Request(p) \notin loads', NEW x \in Range(server),
                      (p - 1) * Limit < x, x <= p * Limit
               PROVE  x \in Listed
    BY <1>0, <1>4 DEF Complete, Request
  <2>1. p \in 1..page /\ Request(p) \notin loads
    BY <1>1, <1>3
  <2>2. QED
    BY <2>1 DEF Complete
<1>16. QED
  BY <1>6, <1>7, <1>8, <1>9, <1>10, <1>11, <1>12, <1>13, <1>14, <1>15

LEMMA FavLoadFailed ==
  ASSUME FavInv, NEW l \in loads, LoadFailed(l)
  PROVE  FavInv'
<1> USE DEF FavInv
<1>0. /\ UNCHANGED <<server, favourites, page, dialog, deletes, shifted, overtaken, crossed>>
      /\ lost' = TRUE /\ loads' = loads \ {l} /\ ~l.answered
  BY DEF LoadFailed
<1>1. l.data = <<>> /\ Range(l.data) = {}
  BY <1>0, RequestRecord DEF Asked
<1>2. Listed' = Listed
  BY <1>0, <1>1 DEF Listed
<1>3. \A q : Request(q) \in loads' => Request(q) \in loads
  BY <1>0
<1>4. \A p : Unread(p)' => Unread(p)
  BY <1>0, <1>3 DEF Unread, Request
<1>5. TypeOK' /\ Asked' /\ ServerSorted' /\ RowsHeld' /\ Gone'
  BY <1>0 DEF TypeOK, Asked, ServerSorted, RowsHeld, Gone
<1>6. FirstPage'
  BY <1>0, <1>3 DEF FirstPage, Request
<1>7. Positions' /\ Unmoved'
  BY <1>0, <1>2, <1>3, <1>4 DEF Positions, Unmoved, Request
<1>8. Disjoint'
  BY <1>0 DEF Disjoint
<1>9. Existing' /\ Within' /\ Complete'
  BY <1>0, <1>2 DEF Existing, Unheard, Within, Complete
<1>10. QED
  BY <1>5, <1>6, <1>7, <1>8, <1>9

\* An answer that is added to the list was listed before.
LEMMA FavLoaded ==
  ASSUME FavInv, NEW l \in loads, Loaded(l)
  PROVE  FavInv'
<1> USE DEF FavInv
<1>0. /\ UNCHANGED <<server, page, dialog, deletes, lost, shifted, overtaken, crossed>>
      /\ favourites' = favourites \o l.data /\ loads' = loads \ {l} /\ l.answered
  BY DEF Loaded, histories
<1>1. favourites \in Seq(All) /\ l.data \in Seq(All)
  BY DEF TypeOK, Loads
<1>2. /\ favourites' \in Seq(All)
      /\ Range(favourites') = Range(favourites) \union Range(l.data)
      /\ \A i \in DOMAIN favourites : i \in DOMAIN favourites' /\ favourites'[i] = favourites[i]
      /\ NoRepeat(favourites) /\ NoRepeat(l.data)
         /\ Range(favourites) \intersect Range(l.data) = {} => NoRepeat(favourites')
  BY <1>0, <1>1, ConcatRows
<1>3. Listed' = Listed
  BY <1>0, <1>2 DEF Listed
<1>4. \A q : Request(q) \in loads' <=> Request(q) \in loads
  BY <1>0, RequestRecord
<1>5. \A p : Unread(p)' <=> Unread(p)
  BY <1>0, <1>4 DEF Unread, Request
<1>6. TypeOK' /\ Asked' /\ ServerSorted' /\ Gone'
  BY <1>0, <1>2 DEF TypeOK, Asked, ServerSorted, Gone
<1>7. FirstPage'
  <2>1. Request(1) \notin loads
    <3> SUFFICES ASSUME Request(1) \in loads PROVE FALSE
      OBVIOUS
    <3>1. l.page = 1
      BY FavouritesAssumption DEF FirstPage, Asked, TypeOK, Loads
    <3>2. l = Request(1)
      BY <3>1, RequestRecord DEF Asked
    <3>3. QED
      BY <1>0, <3>2, RequestRecord
  <2>2. QED
    BY <1>4, <2>1 DEF FirstPage, Request
<1>8. Positions' /\ Unmoved'
  BY <1>0, <1>3, <1>4, <1>5 DEF Positions, Unmoved, Request
<1>9. Disjoint'
  BY <1>0, <1>2 DEF Disjoint
<1>10. RowsHeld'
  BY <1>0, <1>2 DEF RowsHeld
<1>11. Existing' /\ Within' /\ Complete'
  BY <1>0, <1>3, <1>4 DEF Existing, Unheard, Within, Complete, Request
<1>12. QED
  BY <1>6, <1>7, <1>8, <1>9, <1>10, <1>11

(***************************************************************************)
(* The backend reads a page.  If a row of it is listed already, the page   *)
(* is unread while a later one was read, and it is not the original list:  *)
(* the page is overtaken.                                                  *)
(***************************************************************************)
LEMMA FavAnswer ==
  ASSUME FavInv, NEW l \in loads, Answer(l)
  PROVE  FavInv'
<1> USE DEF FavInv
<1>0. /\ UNCHANGED <<server, favourites, page, dialog, deletes, lost, crossed>>
      /\ shifted' = (shifted \/ Shifts(l.page))
      /\ overtaken' = (overtaken \/ Overtakes(l.page))
      /\ ~l.answered
  BY DEF Answer
<1>1. PICK p \in 1..MaxPage : l.page = p /\ p <= page /\ l = Request(p) /\ p \in Nat \ {0}
  <2>1. l \in Loads /\ l.page \in 1..MaxPage /\ l.page <= page /\ l.data = <<>>
    BY <1>0 DEF TypeOK, Loads, Asked
  <2>2. QED
    BY <1>0, <2>1, RequestRecord, FavouritesAssumption
<1>2. PICK d : d = PageOf(p)
  OBVIOUS
<1>3. /\ d \in Seq(All)
      /\ \A x \in Range(d) : \E i \in DOMAIN server :
           (p - 1) * Limit < i /\ i <= p * Limit /\ server[i] = x
      /\ \A i \in DOMAIN server :
           (p - 1) * Limit < i /\ i <= p * Limit => server[i] \in Range(d)
      /\ NoRepeat(d)
  BY <1>1, <1>2, PageElements
<1>4. PICK a \in Loads : /\ a.page = p /\ a.answered /\ a.data = d
                         /\ loads' = (loads \ {l}) \union {a}
  <2> DEFINE a == [l EXCEPT !.answered = TRUE, !.data = d]
  <2>1. loads' = (loads \ {l}) \union {a}
    BY <1>1, <1>2 DEF Answer
  <2>2. a \in Loads /\ a.page = p /\ a.answered /\ a.data = d
    BY <1>1, <1>3 DEF TypeOK, Loads
  <2> HIDE DEF a
  <2>3. QED
    BY <2>1, <2>2
<1>5. \A q : Request(q) \in loads' <=> Request(q) \in loads /\ q # p
  BY <1>1, <1>4, RequestRecord
<1>6. Range(l.data) = {} /\ Listed' = Listed \union Range(d)
  BY <1>0, <1>1, <1>4, RequestRecord DEF Listed
<1>7. \A q \in Nat : Unread(q)' <=> Unread(q) /\ q # p
  <2>1. \A q \in Nat : Unread(q)' <=> q > page' \/ Request(q) \in loads'
    BY DEF Unread, Request
  <2>2. QED
    BY <1>0, <1>1, <1>5, <2>1, ServerFacts DEF Unread
<1>8. Unread(p) /\ \A m \in loads : m.page = p => m = l
  BY <1>1 DEF Unread, Asked
<1>9. TypeOK'
  BY <1>0, <1>4 DEF TypeOK
<1>10. Asked'
  BY <1>0, <1>1, <1>4, <1>8 DEF Asked
<1>11. p = 1 => Listed = {} /\ Len(server) = Total
  <2> SUFFICES ASSUME p = 1 PROVE Listed = {} /\ Len(server) = Total
    OBVIOUS
  <2>1. page = 1 /\ favourites = <<>> /\ Len(server) = Total
    BY <1>1 DEF FirstPage
  <2>2. \A m \in loads : m = l
    BY <1>8, <2>1 DEF Asked, TypeOK, Loads
  <2>3. QED
    BY <1>6, <2>1, <2>2, RequestRecord DEF Listed
<1>12. FirstPage'
  <2>1. Request(1) \in loads => p = 1
    BY <1>1 DEF FirstPage
  <2>2. QED
    BY <1>5, <2>1 DEF FirstPage, Request
<1>13. ServerSorted' /\ RowsHeld' /\ Gone'
  BY <1>0 DEF ServerSorted, RowsHeld, Gone
<1>14. Positions'
  <2> SUFFICES ASSUME NEW q \in 1..MaxPage, NEW i \in DOMAIN server,
                      Unread(q), q # p, server[i] \in Listed \union Range(d)
               PROVE  \/ i <= (q - 1) * Limit
                      \/ \E k \in (q + 1)..page : Request(k) \notin loads'
    BY <1>0, <1>6, <1>7 DEF Positions, Request
  <2>1. CASE server[i] \in Listed
    BY <1>5, <2>1 DEF Positions
  <2>2. CASE server[i] \in Range(d) /\ q < p
    <3>1. p \in (q + 1)..page
      BY <1>1, <2>2, ServerFacts
    <3>2. QED
      BY <1>5, <3>1
  <2>3. CASE server[i] \in Range(d) /\ p < q
    <3>1. PICK j \in DOMAIN server : j <= p * Limit /\ server[j] = server[i]
      BY <1>3, <2>3
    <3>2. j = i
      BY <3>1, ServerFacts DEF ServerSorted
    <3>3. p * Limit <= (q - 1) * Limit /\ p * Limit \in Nat /\ (q - 1) * Limit \in Nat
      BY <1>1, <2>3, PagesApart
    <3>4. QED
      BY <3>1, <3>2, <3>3, ServerFacts
  <2>4. QED
    BY <1>1, <2>1, <2>2, <2>3
<1>15. Unmoved'
  <2> SUFFICES ASSUME Len(server) = Total, NEW q \in 1..MaxPage, NEW i \in DOMAIN server,
                      Unread(q), q # p, server[i] \in Listed \union Range(d)
               PROVE  i <= (q - 1) * Limit \/ q * Limit < i
    BY <1>0, <1>6, <1>7 DEF Unmoved
  <2>1. CASE server[i] \in Listed
    BY <2>1 DEF Unmoved
  <2>2. CASE server[i] \in Range(d)
    <3>1. PICK j \in DOMAIN server :
            (p - 1) * Limit < j /\ j <= p * Limit /\ server[j] = server[i]
      BY <1>3, <2>2
    <3>2. j = i
      BY <3>1, ServerFacts DEF ServerSorted
    <3>3. CASE p < q
      <4>1. p * Limit <= (q - 1) * Limit /\ p * Limit \in Nat /\ (q - 1) * Limit \in Nat
        BY <1>1, <3>3, PagesApart
      <4>2. QED
        BY <3>1, <3>2, <4>1, ServerFacts
    <3>4. CASE q < p
      <4>1. q * Limit <= (p - 1) * Limit /\ q * Limit \in Nat /\ (p - 1) * Limit \in Nat
        BY <1>1, <3>4, PagesApart
      <4>2. QED
        BY <3>1, <3>2, <4>1, ServerFacts
    <3>5. QED
      BY <1>1, <3>3, <3>4
  <2>3. QED
    BY <2>1, <2>2
<1>15a. Len(server) \in Nat /\ Total \in Nat /\ Len(server) <= Total
  <2>1. Len(server) \in Nat
    BY ServerFacts
  <2>2. QED
    BY <2>1, FavouritesAssumption DEF ServerSorted
<1>16. ~overtaken' => Range(d) \intersect Listed = {}
  <2> SUFFICES ASSUME NEW x \in Range(d), x \in Listed
               PROVE  overtaken'
    OBVIOUS
  <2>1. PICK i \in DOMAIN server :
          (p - 1) * Limit < i /\ i <= p * Limit /\ server[i] = x
    BY <1>3
  <2>2. ~(i <= (p - 1) * Limit) /\ ~(p * Limit < i)
    <3>1. (p - 1) * Limit \in Nat /\ p * Limit \in Nat /\ i \in Nat
      BY <1>1, PageSpan, ServerFacts
    <3>2. QED
      BY <2>1, <3>1
  <2>3. \E q \in (p + 1)..page : Request(q) \notin loads
    BY <1>8, <2>1, <2>2 DEF Positions
  <2>4. Len(server) # Total
    BY <1>8, <2>1, <2>2 DEF Unmoved
  <2>5. Len(server) < Total
    BY <1>15a, <2>4
  <2>6. p > 1
    BY <1>1, <1>11
  <2>7. QED
    BY <1>0, <1>1, <2>3, <2>5, <2>6 DEF Overtakes, Shifts
<1>17. Disjoint'
  <2>1. \A m \in loads' : m = a \/ (m \in loads /\ Range(m.data) \subseteq Listed)
    BY <1>4 DEF Listed
  <2>2. Range(favourites) \subseteq Listed
    BY DEF Listed
  <2>3. ~overtaken' => ~overtaken
    BY <1>0 DEF TypeOK
  <2>4. \A m \in loads' : NoRepeat(m.data)
    BY <1>3, <1>4, <2>1 DEF Disjoint
  <2>5. ~overtaken' =>
          /\ NoRepeat(favourites)
          /\ \A m \in loads' : Range(m.data) \intersect Range(favourites) = {}
    BY <1>4, <1>16, <2>1, <2>2, <2>3 DEF Disjoint
  <2>6. ~overtaken' => \A m, k \in loads' : m # k => Range(m.data) \intersect Range(k.data) = {}
    BY <1>4, <1>16, <2>1, <2>3 DEF Disjoint
  <2>7. QED
    BY <1>0, <2>4, <2>5, <2>6 DEF Disjoint
<1>18. Existing'
  <2>1. Range(d) \subseteq Range(server)
    BY <1>3 DEF Range
  <2>2. QED
    BY <1>0, <1>6, <2>1 DEF Existing, Unheard, TypeOK
<1>19. ~shifted' => ~shifted /\ \A i \in DOMAIN server : server[i] = i
  <2> SUFFICES ASSUME ~shifted'
               PROVE  ~shifted /\ Len(server) = Total
    BY DEF ServerSorted
  <2>1. ~shifted /\ ~Shifts(p)
    BY <1>0, <1>1
  <2>2. QED
    BY <1>1, <1>11, <1>15a, <2>1 DEF Shifts
<1>20. Within'
  <2>1. overtaken' => shifted'
    BY <1>0 DEF Within, Overtakes
  <2>2. ASSUME ~shifted', NEW x \in Listed \union Range(d)
        PROVE  x <= page * Limit
    <3>1. CASE x \in Listed
      BY <1>19, <2>2, <3>1 DEF Within
    <3>2. CASE x \in Range(d)
      <4>1. PICK i \in DOMAIN server : i <= p * Limit /\ server[i] = x
        BY <1>3, <3>2
      <4>2. x = i /\ i \in Nat
        BY <1>19, <2>2, <4>1, ServerFacts
      <4>3. p * Limit <= page * Limit /\ p * Limit \in Nat /\ page * Limit \in Nat
        <5>1. CASE p = page
          BY <1>1, <5>1, FavouritesAssumption
        <5>2. CASE p < page
          BY <1>1, <5>2, PagesApart, PageSpan, ServerFacts
        <5>3. QED
          BY <1>1, <5>1, <5>2, ServerFacts
      <4>4. QED
        BY <4>1, <4>2, <4>3
    <3>3. QED
      BY <2>2, <3>1, <3>2
  <2>3. QED
    BY <1>0, <1>6, <2>1, <2>2 DEF Within
<1>21. Complete'
  <2> SUFFICES ASSUME ~lost, ~shifted', ~crossed, NEW q \in 1..page,
                      Request(q) \notin loads', NEW x \in Range(server),
                      (q - 1) * Limit < x, x <= q * Limit
               PROVE  x \in Listed \union Range(d)
    BY <1>0, <1>6 DEF Complete, Request
  <2>1. CASE Request(q) \notin loads
    BY <1>19, <2>1 DEF Complete
  <2>2. CASE q = p
    <3>1. PICK i \in DOMAIN server : server[i] = x
      BY DEF Range
    <3>2. x = i
      BY <1>19, <3>1
    <3>3. QED
      BY <1>3, <2>2, <3>1, <3>2
  <2>3. QED
    BY <1>5, <2>1, <2>2
<1>22. QED
  BY <1>9, <1>10, <1>12, <1>13, <1>14, <1>15, <1>17, <1>18, <1>20, <1>21

\* The backend takes a favourite out: the others move towards the front.
LEMMA FavDelete ==
  ASSUME FavInv, NEW r \in deletes, Delete(r)
  PROVE  FavInv'
<1> USE DEF FavInv
<1>0. /\ UNCHANGED <<favourites, page, loads, dialog, lost, shifted, overtaken, crossed>>
      /\ ~r.deleted
  BY DEF Delete, histories
<1>1. PICK k \in DOMAIN server : server[k] = r.id /\ server' = RemoveAt(server, k)
  BY DEF Delete
<1>2. PICK c \in Rows : /\ c.index = r.index /\ c.id = r.id /\ c.moved = r.moved /\ c.deleted
                        /\ deletes' = (deletes \ {r}) \union {c}
  <2> DEFINE c == [r EXCEPT !.deleted = TRUE]
  <2>1. deletes' = (deletes \ {r}) \union {c}
    BY DEF Delete
  <2>2. c \in Rows /\ c.index = r.index /\ c.id = r.id /\ c.moved = r.moved /\ c.deleted
    BY DEF TypeOK, Rows
  <2> HIDE DEF c
  <2>3. QED
    BY <2>1, <2>2
<1>3. /\ server' \in Seq(All) /\ Len(server') = Len(server) - 1
      /\ DOMAIN server' = 1..(Len(server) - 1)
      /\ \A j \in 1..(Len(server) - 1) :
           server'[j] = IF j < k THEN server[j] ELSE server[j + 1]
  BY <1>1, RemoveAtElements DEF TypeOK
<1>4. k \in 1..Len(server) /\ Len(server) \in Nat /\ DOMAIN server = 1..Len(server)
  BY ServerFacts
<1>5. \A j \in DOMAIN server' : \E i \in DOMAIN server :
        j <= i /\ server'[j] = server[i] /\ i # k
  <2> SUFFICES ASSUME NEW j \in 1..(Len(server) - 1)
               PROVE  \E i \in DOMAIN server : j <= i /\ server'[j] = server[i] /\ i # k
    BY <1>3
  <2>1. CASE j < k
    <3>1. j \in DOMAIN server /\ j <= j /\ j # k
      BY <1>4, <2>1
    <3>2. QED
      BY <1>3, <2>1, <3>1
  <2>2. CASE ~(j < k)
    <3>1. j + 1 \in DOMAIN server /\ j <= j + 1 /\ j + 1 # k
      BY <1>4, <2>2
    <3>2. QED
      BY <1>3, <2>2, <3>1
  <2>3. QED
    BY <2>1, <2>2
<1>6. /\ Range(server') \subseteq Range(server)
      /\ Range(server) \subseteq Range(server') \union {r.id}
      /\ r.id \notin Range(server')
  <2>1. Range(server') \subseteq Range(server)
    BY <1>5 DEF Range
  <2>2. Removed(server, k) = server' /\ server \in Seq(All)
    BY <1>1 DEF Removed, TypeOK
  <2>3. NoRepeat(server)
    BY ServerFacts DEF ServerSorted, NoRepeat
  <2>4. QED
    BY <1>1, <2>1, <2>2, <2>3, RemovedRows
<1>7. Listed' = Listed /\ \A p : Unread(p)' <=> Unread(p)
  BY <1>0 DEF Listed, Unread, Request
<1>8. Unheard \subseteq Unheard' /\ r.id \in Unheard'
  <2>1. Unheard \subseteq Unheard'
    BY <1>0, <1>2 DEF Unheard
  <2>2. r.id \in Unheard'
    BY <1>2 DEF Unheard
  <2>3. QED
    BY <2>1, <2>2
<1>9. TypeOK'
  BY <1>0, <1>2, <1>3 DEF TypeOK
<1>10. Asked'
  BY <1>0 DEF Asked
<1>11. FirstPage'
  BY <1>0 DEF FirstPage, Request
<1>12. ServerSorted'
  <2>1. ASSUME NEW i \in DOMAIN server', NEW j \in DOMAIN server', i < j
        PROVE  server'[i] < server'[j]
    <3>1. PICK f, g :
            /\ f = IF i < k THEN i ELSE i + 1
            /\ g = IF j < k THEN j ELSE j + 1
      OBVIOUS
    <3>2. f \in 1..Len(server) /\ g \in 1..Len(server) /\ f < g
      BY <1>3, <1>4, <2>1, <3>1
    <3>3. server'[i] = server[f] /\ server'[j] = server[g]
      BY <1>3, <3>1
    <3>4. QED
      BY <1>4, <3>2, <3>3 DEF ServerSorted
  <2>2. Len(server') < Total
    BY <1>3, <1>4, FavouritesAssumption DEF ServerSorted
  <2>3. Len(server') \in Nat
    BY <1>3, <1>4
  <2>4. QED
    BY <2>1, <2>2, <2>3, FavouritesAssumption DEF ServerSorted
<1>13. Positions'
  <2> SUFFICES ASSUME NEW p \in 1..MaxPage, NEW j \in DOMAIN server',
                      Unread(p), server'[j] \in Listed
               PROVE  \/ j <= (p - 1) * Limit
                      \/ \E q \in (p + 1)..page : Request(q) \notin loads
    BY <1>0, <1>7 DEF Positions, Request
  <2>1. PICK i \in DOMAIN server : j <= i /\ server'[j] = server[i]
    BY <1>5
  <2>2. \/ i <= (p - 1) * Limit
        \/ \E q \in (p + 1)..page : Request(q) \notin loads
    BY <2>1 DEF Positions
  <2>3. (p - 1) * Limit \in Nat /\ i \in Nat /\ j \in Nat
    <3>1. p \in Nat \ {0}
      BY FavouritesAssumption
    <3>2. (p - 1) * Limit \in Nat
      BY <3>1, PageSpan
    <3>3. i \in Nat /\ j \in Nat
      BY <1>3, <1>4
    <3>4. QED
      BY <3>2, <3>3
  <2>4. QED
    BY <2>1, <2>2, <2>3
<1>14. Unmoved'
  <2>1. Len(server') # Total
    BY <1>3, <1>4, FavouritesAssumption DEF ServerSorted
  <2>2. QED
    BY <2>1 DEF Unmoved
<1>15. Disjoint'
  BY <1>0 DEF Disjoint
<1>16. RowsHeld'
  BY <1>0, <1>2 DEF RowsHeld
<1>17. Gone'
  BY <1>0, <1>2, <1>6 DEF Gone
<1>18. Existing'
  BY <1>0, <1>6, <1>7, <1>8 DEF Existing
<1>19. Within'
  BY <1>0, <1>7 DEF Within
<1>20. Complete'
  BY <1>0, <1>6, <1>7 DEF Complete, Request
<1>21. QED
  BY <1>9, <1>10, <1>11, <1>12, <1>13, <1>14, <1>15, <1>16, <1>17, <1>18, <1>19, <1>20

(***************************************************************************)
(* The row at the remembered position goes.  If no row has gone before it, *)
(* that is the row of the favourite that was removed, and it is nowhere    *)
(* else.                                                                   *)
(***************************************************************************)
LEMMA FavDeleted ==
  ASSUME FavInv, NEW r \in deletes, Deleted(r)
  PROVE  FavInv'
<1> USE DEF FavInv
<1>0. /\ UNCHANGED <<server, page, loads, lost, shifted, overtaken>>
      /\ favourites' = Removed(favourites, r.index)
      /\ crossed' = (crossed \/ r.moved)
      /\ r.deleted
  BY DEF Deleted
<1>1. /\ \A c \in deletes' : \E e \in deletes \ {r} :
           c \in Rows /\ c.moved /\ c.id = e.id /\ c.deleted = e.deleted
      /\ \A e \in deletes \ {r} : \E c \in deletes' : c.id = e.id /\ c.deleted = e.deleted
      /\ \A c \in dialog' : \E e \in dialog :
           c \in Rows /\ c.moved /\ c.id = e.id /\ c.deleted = e.deleted
  <2>1. \A e \in Rows : /\ [e EXCEPT !.moved = TRUE] \in Rows
                        /\ [e EXCEPT !.moved = TRUE].moved
                        /\ [e EXCEPT !.moved = TRUE].id = e.id
                        /\ [e EXCEPT !.moved = TRUE].deleted = e.deleted
    BY DEF Rows
  <2>2. deletes \subseteq Rows /\ dialog \subseteq Rows
    BY DEF TypeOK
  <2>3. deletes' = Moved(deletes \ {r}) /\ dialog' = Moved(dialog)
    BY DEF Deleted
  <2>4. ASSUME NEW D \in SUBSET Rows
        PROVE  /\ \A c \in Moved(D) : \E e \in D :
                    c \in Rows /\ c.moved /\ c.id = e.id /\ c.deleted = e.deleted
               /\ \A e \in D : \E c \in Moved(D) : c.id = e.id /\ c.deleted = e.deleted
    <3>1. ASSUME NEW c \in Moved(D)
          PROVE  \E e \in D : c \in Rows /\ c.moved /\ c.id = e.id /\ c.deleted = e.deleted
      <4>1. PICK e \in D : c = [e EXCEPT !.moved = TRUE]
        BY DEF Moved
      <4>2. QED
        BY <2>1, <4>1
    <3>2. ASSUME NEW e \in D
          PROVE  \E c \in Moved(D) : c.id = e.id /\ c.deleted = e.deleted
      <4>1. [e EXCEPT !.moved = TRUE] \in Moved(D)
        BY DEF Moved
      <4>2. QED
        BY <2>1, <4>1
    <3>3. QED
      BY <3>1, <3>2
  <2>5. QED
    BY <2>2, <2>3, <2>4
<1>2. favourites \in Seq(All)
  BY DEF TypeOK
<1>3. /\ favourites' \in Seq(All)
      /\ Range(favourites') \subseteq Range(favourites)
      /\ NoRepeat(favourites) => NoRepeat(favourites')
      /\ r.index \in DOMAIN favourites =>
           /\ \A x \in Range(favourites) : x = favourites[r.index] \/ x \in Range(favourites')
           /\ NoRepeat(favourites) => favourites[r.index] \notin Range(favourites')
  BY <1>0, <1>2, RemovedRows
<1>4. ~crossed' => /\ ~crossed /\ r.index \in DOMAIN favourites
                   /\ favourites[r.index] = r.id /\ r.id \in Range(favourites)
  BY <1>0 DEF RowsHeld, Range
<1>5. Listed' \subseteq Listed /\ \A p : Unread(p)' <=> Unread(p)
  BY <1>0, <1>3 DEF Listed, Unread, Request
<1>6. ~crossed' => Listed \subseteq Listed' \union {r.id}
  BY <1>0, <1>3, <1>4 DEF Listed
<1>7. TypeOK'
  BY <1>0, <1>1, <1>3 DEF TypeOK, Rows
<1>8. Asked' /\ ServerSorted'
  BY <1>0 DEF Asked, ServerSorted
<1>9. FirstPage'
  BY <1>0 DEF FirstPage, Request
<1>10. Positions' /\ Unmoved'
  BY <1>0, <1>5 DEF Positions, Unmoved, Request
<1>11. Disjoint'
  BY <1>0, <1>3 DEF Disjoint
<1>12. RowsHeld' /\ Gone'
  BY <1>0, <1>1 DEF RowsHeld, Gone
<1>13. Existing'
  <2> SUFFICES ASSUME ~crossed', ~overtaken, NEW x \in Listed'
               PROVE  x \in Range(server) \union Unheard'
    BY <1>0 DEF Existing
  <2>1. x \in Range(server) \union Unheard
    BY <1>4, <1>5 DEF Existing
  <2>2. x # r.id
    <3>1. r.id \notin Range(favourites')
      BY <1>3, <1>4 DEF Disjoint
    <3>2. \A l \in loads : r.id \notin Range(l.data)
      BY <1>4 DEF Disjoint
    <3>3. QED
      BY <1>0, <3>1, <3>2 DEF Listed
  <2>3. x \in Unheard => x \in Unheard'
    <3> SUFFICES ASSUME NEW e \in deletes, e.deleted, e.id = x
                 PROVE  x \in Unheard'
      BY DEF Unheard
    <3>1. e \in deletes \ {r}
      BY <2>2
    <3>2. PICK c \in deletes' : c.id = e.id /\ c.deleted = e.deleted
      BY <1>1, <3>1
    <3>3. QED
      BY <3>2 DEF Unheard
  <2>4. QED
    BY <2>1, <2>3
<1>14. Within'
  BY <1>0, <1>5 DEF Within
<1>15. Complete'
  <2>1. r.id \notin Range(server)
    BY <1>0 DEF Gone
  <2>2. QED
    BY <1>0, <1>4, <1>6, <2>1 DEF Complete, Request
<1>16. QED
  BY <1>7, <1>8, <1>9, <1>10, <1>11, <1>12, <1>13, <1>14, <1>15

LEMMA FavNext == FavInv /\ [Next]_vars => FavInv'
<1> SUFFICES ASSUME FavInv, [Next]_vars
             PROVE  FavInv'
  OBVIOUS
<1>1. CASE UNCHANGED vars
  BY <1>1 DEF vars, FavInv, TypeOK, Asked, FirstPage, ServerSorted, Positions, Unmoved,
              Disjoint, RowsHeld, Gone, Existing, Unheard, Within, Complete, Listed,
              Unread, Request
<1>2. CASE Next
  BY <1>2, FavAnswer, FavLoaded, FavLoadFailed, FavScroll, FavDialog, FavDelete, FavDeleted
  DEF Next
<1>3. QED
  BY <1>1, <1>2

-----------------------------------------------------------------------------
(***************************************************************************)
(* Every variable of the screen and of the requests keeps its type.        *)
(***************************************************************************)
THEOREM TypeCorrect == Spec => []TypeOK
<1>1. FavInv => TypeOK
  BY DEF FavInv
<1> QED
  BY <1>1, FavInit, FavNext, PTL DEF Spec

(***************************************************************************)
(* getFavouriteClient's pages never bring a row twice, in whatever order   *)
(* they arrive and whatever is removed meanwhile, unless a page was        *)
(* overtaken by a later one.                                               *)
(***************************************************************************)
THEOREM RowsAreDistinct == Spec => []NoRowTwice
<1>1. FavInv => NoRowTwice
  BY DEF FavInv, Disjoint, NoRepeat, NoRowTwice
<1> QED
  BY <1>1, FavInit, FavNext, PTL DEF Spec

(***************************************************************************)
(* removeAt with the remembered position takes out the row the backend     *)
(* removed, so that only existing favourites stay listed, unless the list  *)
(* changed in between or a page was overtaken.                             *)
(***************************************************************************)
THEOREM RowsAreFavourites == Spec => []RowsExist
<1>1. FavInv => RowsExist
  BY DEF FavInv, Existing, RowsExist, Listed
<1> QED
  BY <1>1, FavInit, FavNext, PTL DEF Spec

(***************************************************************************)
(* Scrolling through the pages shows every favourite, unless a page was    *)
(* lost, moved by a removal before it was read, or a wrong row was taken   *)
(* out.                                                                    *)
(***************************************************************************)
THEOREM PagesAreComplete == Spec => []NothingSkipped
<1>1. FavInv => NothingSkipped
  <2> SUFFICES ASSUME FavInv, loads = {}, Unheard = {}, ~lost, ~shifted, ~crossed
               PROVE  Range(favourites) = {i \in Range(server) : i <= page * Limit}
    BY DEF NothingSkipped
  <2> USE DEF FavInv
  <2>1. Listed = Range(favourites)
    BY DEF Listed
  <2>2. ASSUME NEW x \in Range(favourites)
        PROVE  x \in Range(server) /\ x <= page * Limit
    BY <2>1, <2>2 DEF Existing, Within
  <2>3. ASSUME NEW x \in Range(server), x <= page * Limit
        PROVE  x \in Range(favourites)
    <3>1. x \in Nat \ {0} /\ page \in Nat
      BY ServerFacts DEF Range
    <3>2. PICK p \in 1..page : (p - 1) * Limit < x /\ x <= p * Limit
      BY <2>3, <3>1, OnSomePage
    <3>3. QED
      BY <2>1, <3>2 DEF Complete
  <2>4. QED
    BY <2>2, <2>3
<1> QED
  BY <1>1, FavInit, FavNext, PTL DEF Spec
=============================================================================
