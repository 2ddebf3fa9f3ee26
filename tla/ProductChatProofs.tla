------------------------- MODULE ProductChatProofs --------------------------
(***************************************************************************)
(* The conversation on a product page, for every number of products, of    *)
(* stacked pages and of repeated requests.                                 *)
(*                                                                         *)
(* A calm page is the one on top, and no page below it waits for anything: *)
(* only its own answers are published, and once one of them has given it a *)
(* window they all carry its own product.                                  *)
(***************************************************************************)
EXTENDS ProductChat, SequenceTheorems, TLAPS

Requests(pg, cs) ==
  /\ pg.creates + pg.created <= MaxCreates
  /\ pg.lookup = "found" => pg.product \in cs
  /\ pg.created > 0 => pg.product \in cs

PagesInv == \A i \in 1..Len(pages) : Requests(pages[i], chats)

\* What is known of a page nobody interferes with, when k was published last.
Undisturbed(pg, k) ==
  /\ pg.creates + pg.created > 0 => pg.lookup = "off"
  /\ pg.isChatted => k = pg.product /\ pg.lookup = "off"
  /\ pg.listening => pg.isChatted /\ pg.window = pg.product

CalmInv ==
  \A i \in 1..Len(pages) : pages[i].calm =>
    /\ i = Len(pages)
    /\ \A j \in 1..Len(pages) : j < i => ~Waiting(pages[j])
    /\ Undisturbed(pages[i], chatKeyStream)

ChatInv == TypeOK /\ KeysExist /\ PagesInv /\ CalmInv

-----------------------------------------------------------------------------
LEMMA PageTyped ==
  ASSUME TypeOK
  PROVE  /\ pages \in Seq(Pages) /\ Len(pages) \in Nat /\ DOMAIN pages = 1..Len(pages)
         /\ \A i \in 1..Len(pages) : pages[i] \in Pages
BY DEF TypeOK

\* A function on an initial segment of the positive numbers is a sequence.
LEMMA SequenceOf ==
  ASSUME NEW n \in Nat, NEW q, q = [i \in 1..n |-> q[i]], \A i \in 1..n : q[i] \in Pages
  PROVE  q \in Seq(Pages) /\ Len(q) = n
<1>1. [i \in 1..n |-> q[i]] \in Seq(Pages)
  OBVIOUS
<1>2. q \in Seq(Pages)
  BY <1>1
<1>3. DOMAIN q = 1..n
  OBVIOUS
<1>4. QED
  BY <1>2, <1>3, LenProperties

\* One page changes.
LEMMA PageChanged ==
  ASSUME TypeOK, NEW i \in 1..Len(pages), NEW pg \in Pages,
         pages' = [pages EXCEPT ![i] = pg]
  PROVE  /\ pages' \in Seq(Pages) /\ Len(pages') = Len(pages) /\ pages'[i] = pg
         /\ \A j \in 1..Len(pages) : j # i => pages'[j] = pages[j]
<1> DEFINE q == [pages EXCEPT ![i] = pg]
<1>1. pages \in Seq(Pages)
  BY PageTyped
<1>2. q \in Seq(Pages) /\ Len(q) = Len(pages) /\ q[i] = pg
        /\ \A j \in 1..Len(pages) : j # i => q[j] = pages[j]
  BY <1>1, ExceptSeq
<1>3. pages' = q
  OBVIOUS
<1> HIDE DEF q
<1>4. QED
  BY <1>2, <1>3, Zenon

\* What a page is after k was published.
Told(x, k) == IF x.listening THEN [x EXCEPT !.window = k] ELSE x

\* A key is published with the change.
LEMMA PagePublished ==
  ASSUME TypeOK, NEW i \in 1..Len(pages), NEW pg \in Pages, NEW k \in Keys,
         Publish([pages EXCEPT ![i] = pg], k)
  PROVE  /\ chatKeyStream' = k
         /\ pages' \in Seq(Pages) /\ Len(pages') = Len(pages)
         /\ pages'[i] = Told(pg, k)
         /\ \A j \in 1..Len(pages) : j # i =>
              pages'[j] = Told(pages[j], k)
<1> DEFINE q == [pages EXCEPT ![i] = pg]
<1>1. /\ pages \in Seq(Pages) /\ Len(pages) \in Nat /\ DOMAIN pages = 1..Len(pages)
      /\ \A j \in 1..Len(pages) : pages[j] \in Pages
  BY PageTyped
<1>4. /\ chatKeyStream' = k
      /\ pages' = [j \in DOMAIN q |->
           IF q[j].listening THEN [q[j] EXCEPT !.window = k] ELSE q[j]]
  BY DEF Publish
<1>2. q \in Seq(Pages) /\ Len(q) = Len(pages) /\ q[i] = pg
        /\ \A j \in 1..Len(pages) : j # i => q[j] = pages[j]
  BY <1>1, ExceptSeq
<1> HIDE DEF q
<1>3. DOMAIN q = 1..Len(pages) /\ \A j \in 1..Len(pages) : q[j] \in Pages
  BY <1>1, <1>2
<1>5. \A j \in 1..Len(pages) : pages'[j] =
        Told(q[j], k)
  BY <1>3, <1>4 DEF Told
<1>6. \A x \in Pages : Told(x, k) \in Pages
  BY DEF Pages, Told
<1>7. pages' = [j \in 1..Len(pages) |-> pages'[j]] /\ \A j \in 1..Len(pages) : pages'[j] \in Pages
  BY <1>3, <1>4, <1>5, <1>6
<1>8. pages' \in Seq(Pages) /\ Len(pages') = Len(pages)
  BY <1>1, <1>7, SequenceOf
<1>9. QED
  BY <1>2, <1>4, <1>5, <1>8

-----------------------------------------------------------------------------
LEMMA ChatInitially == Init => ChatInv
<1> SUFFICES ASSUME Init PROVE ChatInv
  OBVIOUS
<1>1. <<>> \in Seq(Pages) /\ Len(<<>>) = 0 /\ DOMAIN <<>> = {}
  OBVIOUS
<1>2. TypeOK
  BY <1>1, Zenon DEF Init, TypeOK, Keys
<1>3. KeysExist
  BY <1>1 DEF Init, KeysExist
<1>4. PagesInv /\ CalmInv
  BY <1>1 DEF Init, PagesInv, CalmInv
<1>5. QED
  BY <1>2, <1>3, <1>4 DEF ChatInv

\* A page changes and nothing is published.
LEMMA QuietChange ==
  ASSUME ChatInv, NEW i \in 1..Len(pages), NEW pg \in Pages,
         pages' \in Seq(Pages), Len(pages') = Len(pages), pages'[i] = pg,
         \A j \in 1..Len(pages) : j # i => pages'[j] = pages[j],
         chats \subseteq chats', chats' \subseteq Products,
         UNCHANGED <<orphans, signedIn, chatKeyStream>>,
         pg.window \in chats \union {Null, NoKey},
         Requests(pg, chats'),
         pg.calm => pages[i].calm,
         Waiting(pg) => Waiting(pages[i]) \/ i = Len(pages),
         pg.calm => Undisturbed(pg, chatKeyStream)
  PROVE  ChatInv'
<1>1. TypeOK /\ Len(pages) \in Nat /\ DOMAIN pages = 1..Len(pages)
  BY PageTyped DEF ChatInv
<1>3. DOMAIN pages' = 1..Len(pages)
  OBVIOUS
<1>4. TypeOK'
  BY <1>1 DEF TypeOK
<1>5. KeysExist'
  BY <1>1, <1>3 DEF ChatInv, KeysExist
<1>6. PagesInv'
  <2>1. \A j \in 1..Len(pages) : j # i => Requests(pages[j], chats')
    BY DEF ChatInv, PagesInv, Requests
  <2>2. QED
    BY <2>1 DEF PagesInv
<1>7. CalmInv'
  <2> SUFFICES ASSUME NEW m \in 1..Len(pages), pages'[m].calm
               PROVE  /\ m = Len(pages)
                      /\ \A j \in 1..Len(pages) : j < m => ~Waiting(pages'[j])
                      /\ Undisturbed(pages'[m], chatKeyStream)
    BY DEF CalmInv
  <2>1. pages[m].calm
    OBVIOUS
  <2>2. m = Len(pages) /\ (\A j \in 1..Len(pages) : j < m => ~Waiting(pages[j]))
          /\ Undisturbed(pages[m], chatKeyStream)
    BY <2>1 DEF ChatInv, CalmInv
  <2>3. \A j \in 1..Len(pages) : j < m => ~Waiting(pages'[j])
    BY <2>2
  <2>4. QED
    BY <2>2, <2>3
<1>8. QED
  BY <1>4, <1>5, <1>6, <1>7 DEF ChatInv

\* A page that waited changes, and publishes k.
LEMMA PublishedChange ==
  ASSUME ChatInv, NEW i \in 1..Len(pages), NEW pg \in Pages, NEW k \in Keys,
         chatKeyStream' = k,
         pages' \in Seq(Pages), Len(pages') = Len(pages), pages'[i] = Told(pg, k),
         \A j \in 1..Len(pages) : j # i => pages'[j] = Told(pages[j], k),
         UNCHANGED <<chats, orphans, signedIn>>,
         k \in chats \union {Null, NoKey}, pg.window \in chats \union {Null, NoKey},
         Requests(pg, chats),
         pg.calm => pages[i].calm,
         Waiting(pages[i]),
         pg.creates + pg.created > 0 /\ pg.calm => pg.lookup = "off",
         pg.isChatted /\ pg.calm => k = pg.product /\ pg.lookup = "off",
         pg.listening /\ pg.calm => pg.isChatted
  PROVE  ChatInv'
<1>1. /\ TypeOK /\ Len(pages) \in Nat /\ DOMAIN pages = 1..Len(pages)
      /\ \A j \in 1..Len(pages) : pages[j] \in Pages
  BY PageTyped DEF ChatInv
<1>2. /\ chatKeyStream' = k
      /\ pages' \in Seq(Pages) /\ Len(pages') = Len(pages)
      /\ pages'[i] = Told(pg, k)
      /\ \A j \in 1..Len(pages) : j # i =>
           pages'[j] = Told(pages[j], k)
  OBVIOUS
<1>3. DOMAIN pages' = 1..Len(pages)
  BY <1>2
<1>4. \A x \in Pages :
        LET y == Told(x, k)
        IN  /\ y.window = (IF x.listening THEN k ELSE x.window)
            /\ y.product = x.product /\ y.lookup = x.lookup /\ y.listening = x.listening
            /\ y.creates = x.creates /\ y.created = x.created
            /\ y.isChatted = x.isChatted /\ y.calm = x.calm
  BY DEF Pages, Told
<1>5. /\ pages'[i].window = (IF pg.listening THEN k ELSE pg.window)
      /\ pages'[i].product = pg.product /\ pages'[i].lookup = pg.lookup
      /\ pages'[i].listening = pg.listening
      /\ pages'[i].creates = pg.creates /\ pages'[i].created = pg.created
      /\ pages'[i].isChatted = pg.isChatted /\ pages'[i].calm = pg.calm
  BY <1>2, <1>4
<1>6. ASSUME NEW j \in 1..Len(pages), j # i
      PROVE  /\ pages'[j].window = (IF pages[j].listening THEN k ELSE pages[j].window)
             /\ pages'[j].product = pages[j].product /\ pages'[j].lookup = pages[j].lookup
             /\ pages'[j].creates = pages[j].creates /\ pages'[j].created = pages[j].created
             /\ pages'[j].calm = pages[j].calm
  BY <1>1, <1>2, <1>4, <1>6
<1>7. TypeOK'
  BY <1>1, <1>2 DEF TypeOK
<1>8. KeysExist'
  <2>1. \A j \in 1..Len(pages) : pages'[j].window \in chats \union {Null, NoKey}
    BY <1>1, <1>5, <1>6 DEF ChatInv, KeysExist
  <2>2. QED
    BY <1>2, <1>3, <2>1 DEF KeysExist
<1>9. PagesInv'
  <2>1. \A j \in 1..Len(pages) : Requests(pages'[j], chats)
    BY <1>5, <1>6 DEF ChatInv, PagesInv, Requests
  <2>2. QED
    BY <1>2, <2>1 DEF PagesInv
<1>10. CalmInv'
  <2> SUFFICES ASSUME NEW m \in 1..Len(pages), pages'[m].calm
               PROVE  /\ m = Len(pages)
                      /\ \A j \in 1..Len(pages) : j < m => ~Waiting(pages'[j])
                      /\ Undisturbed(pages'[m], k)
    BY <1>2 DEF CalmInv
  <2>1. pages[m].calm
    BY <1>5, <1>6
  <2>2. m = Len(pages) /\ \A j \in 1..Len(pages) : j < m => ~Waiting(pages[j])
    BY <2>1 DEF ChatInv, CalmInv
  <2>3. m = i
    <3>1. m # i => i < m
      <4>1. m = Len(pages) /\ i \in 1..Len(pages) /\ Len(pages) \in Nat
        BY <1>1, <2>2
      <4>2. QED
        BY <4>1
    <3>2. QED
      BY <2>2, <3>1
  <2>4. \A j \in 1..Len(pages) : j < m => ~Waiting(pages'[j])
    BY <1>6, <2>2, <2>3 DEF Waiting
  <2>5. Undisturbed(pages'[m], k)
    BY <1>5, <2>3 DEF Undisturbed
  <2>6. QED
    BY <2>2, <2>4, <2>5
<1>11. QED
  BY <1>7, <1>8, <1>9, <1>10 DEF ChatInv

-----------------------------------------------------------------------------
LEMMA ChatOpen == ASSUME ChatInv, NEW p \in Products, Open(p) PROVE ChatInv'
<1> DEFINE new == [product |-> p, detail |-> "asked",
        lookup |-> IF signedIn THEN "asked" ELSE "off",
        creates |-> 0, created |-> 0, isChatted |-> FALSE, showLoading |-> FALSE,
        window |-> NoKey, listening |-> FALSE, failed |-> FALSE,
        calm |-> \A i \in DOMAIN pages : ~Waiting(pages[i])]
           old == [i \in DOMAIN pages |-> [pages[i] EXCEPT !.calm = FALSE]]
           n == Len(pages)
<1>1. /\ TypeOK /\ n \in Nat /\ DOMAIN pages = 1..n
      /\ \A j \in 1..n : pages[j] \in Pages
  BY PageTyped DEF ChatInv
<1>2. pages' = Append(old, new) /\ UNCHANGED <<chats, orphans, signedIn, chatKeyStream>>
  BY DEF Open
<1>3. new \in Pages
  BY ProductChatAssumption DEF Pages, Keys
<1>4. \A x \in Pages :
        LET y == [x EXCEPT !.calm = FALSE]
        IN  /\ y \in Pages /\ y.calm = FALSE
            /\ y.product = x.product /\ y.lookup = x.lookup /\ y.window = x.window
            /\ y.creates = x.creates /\ y.created = x.created
  BY DEF Pages
<1>5. \A j \in 1..n : old[j] = [pages[j] EXCEPT !.calm = FALSE]
  BY <1>1
<1>6. old = [j \in 1..n |-> old[j]] /\ \A j \in 1..n : old[j] \in Pages
  BY <1>1, <1>4, <1>5
<1>7. \A j \in 1..n : /\ old[j].calm = FALSE /\ old[j].product = pages[j].product
                      /\ old[j].lookup = pages[j].lookup /\ old[j].window = pages[j].window
                      /\ old[j].creates = pages[j].creates /\ old[j].created = pages[j].created
  BY <1>1, <1>4, <1>5
<1>8. new.lookup # "found" /\ new.creates = 0 /\ new.created = 0 /\ new.window = NoKey
        /\ new.isChatted = FALSE /\ new.listening = FALSE
        /\ (new.calm => \A j \in 1..n : ~Waiting(pages[j]))
  BY <1>1
<1> HIDE DEF old, new, n
<1>9. old \in Seq(Pages) /\ Len(old) = n
  BY <1>1, <1>6, SequenceOf
<1>10. /\ pages' \in Seq(Pages) /\ Len(pages') = n + 1
       /\ \A j \in 1..n : pages'[j] = old[j]
       /\ pages'[n + 1] = new
  BY <1>2, <1>3, <1>9
<1>11. DOMAIN pages' = 1..(n + 1) /\ \A j \in 1..(n + 1) : j \in 1..n \/ j = n + 1
  BY <1>1, <1>10
<1>12. TypeOK'
  BY <1>1, <1>2, <1>10 DEF TypeOK
<1>13. KeysExist'
  <2>1. \A j \in 1..(n + 1) : pages'[j].window \in chats \union {Null, NoKey}
    BY <1>1, <1>7, <1>8, <1>10, <1>11 DEF ChatInv, KeysExist
  <2>2. QED
    BY <1>2, <1>11, <2>1 DEF ChatInv, KeysExist
<1>14. PagesInv'
  <2>1. \A j \in 1..n : Requests(pages'[j], chats)
    BY <1>7, <1>10 DEF ChatInv, PagesInv, Requests, n
  <2>2. Requests(pages'[n + 1], chats)
    BY <1>8, <1>10, ProductChatAssumption DEF Requests
  <2>3. QED
    BY <1>2, <1>10, <1>11, <2>1, <2>2 DEF PagesInv
<1>15. CalmInv'
  <2> SUFFICES ASSUME NEW m \in 1..(n + 1), pages'[m].calm
               PROVE  /\ m = n + 1
                      /\ \A j \in 1..(n + 1) : j < m => ~Waiting(pages'[j])
                      /\ Undisturbed(pages'[m], chatKeyStream)
    BY <1>2, <1>10 DEF CalmInv
  <2>1. m = n + 1
    BY <1>7, <1>10, <1>11
  <2>2. \A j \in 1..(n + 1) : j < m => j \in 1..n
    BY <1>1, <2>1
  <2>3. \A j \in 1..n : ~Waiting(pages[j])
    BY <1>8, <1>10, <2>1
  <2>4. \A j \in 1..n : ~Waiting(pages'[j])
    BY <1>7, <1>10, <2>3 DEF Waiting
  <2>5. Undisturbed(pages'[m], chatKeyStream)
    BY <1>8, <1>10, <2>1 DEF Undisturbed
  <2>6. QED
    BY <2>1, <2>2, <2>4, <2>5
<1>16. QED
  BY <1>12, <1>13, <1>14, <1>15 DEF ChatInv

LEMMA ChatBack == ASSUME ChatInv, Back PROVE ChatInv'
<1> DEFINE n == Len(pages)
<1>1. /\ TypeOK /\ n \in Nat /\ DOMAIN pages = 1..n
      /\ pages \in Seq(Pages) /\ \A j \in 1..n : pages[j] \in Pages
  BY PageTyped DEF ChatInv
<1>2. n > 0 /\ pages' = SubSeq(pages, 1, n - 1) /\ UNCHANGED <<chats, signedIn, chatKeyStream>>
  BY DEF Back, Top
<1>3. orphans' \subseteq Products
  <2>1. pages[n].product \in Products
    <3>1. n \in 1..n
      BY <1>1, <1>2
    <3>2. pages[n] \in Pages
      BY <1>1, <3>1
    <3>3. QED
      BY <3>2 DEF Pages
  <2>2. QED
    BY <1>1, <2>1 DEF Back, Top, TypeOK
<1>4. /\ pages' \in Seq(Pages) /\ Len(pages') = n - 1 /\ DOMAIN pages' = 1..(n - 1)
      /\ \A j \in 1..(n - 1) : j \in 1..n /\ pages'[j] = pages[j]
  BY <1>1, <1>2
<1> HIDE DEF n
<1>5. TypeOK'
  BY <1>1, <1>2, <1>3, <1>4 DEF TypeOK
<1>6. KeysExist'
  BY <1>1, <1>2, <1>4 DEF ChatInv, KeysExist
<1>7. PagesInv'
  BY <1>2, <1>4 DEF ChatInv, PagesInv, n
<1>8. CalmInv'
  <2>1. ASSUME NEW m \in 1..(n - 1) PROVE ~pages'[m].calm
    <3>1. m \in 1..n /\ m # n /\ pages'[m] = pages[m]
      BY <1>1, <1>4
    <3>2. QED
      BY <3>1 DEF ChatInv, CalmInv, n
  <2>2. QED
    BY <1>4, <2>1 DEF CalmInv
<1>9. QED
  BY <1>5, <1>6, <1>7, <1>8 DEF ChatInv

\* A step that leaves the pages alone.
LEMMA PagesKept ==
  ASSUME ChatInv, pages' = pages, chats \subseteq chats', chats' \subseteq Products,
         orphans' \subseteq Products, signedIn' \in BOOLEAN,
         chatKeyStream' \in chats' \union {Null, NoKey},
         pages # <<>> => chatKeyStream' = chatKeyStream
  PROVE  ChatInv'
<1>1. /\ TypeOK /\ Len(pages) \in Nat /\ DOMAIN pages = 1..Len(pages)
      /\ pages = <<>> => Len(pages) = 0
  BY PageTyped DEF ChatInv
<1>2. TypeOK'
  BY <1>1 DEF TypeOK, Keys
<1>3. KeysExist'
  BY <1>1 DEF ChatInv, KeysExist
<1>4. PagesInv'
  BY DEF ChatInv, PagesInv, Requests
<1>5. CalmInv'
  <2>1. CASE pages = <<>>
    BY <1>1, <2>1 DEF CalmInv
  <2>2. CASE pages # <<>>
    BY <2>2 DEF ChatInv, CalmInv
  <2>3. QED
    BY <2>1, <2>2
<1>6. QED
  BY <1>2, <1>3, <1>4, <1>5 DEF ChatInv

-----------------------------------------------------------------------------
LEMMA ChatDetail ==
  ASSUME ChatInv, NEW i \in 1..Len(pages), DetailAnswer(i) PROVE ChatInv'
<1>1. TypeOK /\ pages[i] \in Pages /\ pages \in Seq(Pages)
  BY PageTyped DEF ChatInv
<1>2. PICK pg : /\ pages' = [pages EXCEPT ![i] = pg]
                /\ \/ pg = [pages[i] EXCEPT !.detail = "here"]
                   \/ pg = [pages[i] EXCEPT !.detail = "failed", !.failed = TRUE]
  <2>1. CASE pages' = [pages EXCEPT ![i].detail = "here"]
    BY <2>1, <1>1
  <2>2. CASE pages' = [pages EXCEPT ![i].detail = "failed", ![i].failed = TRUE]
    BY <2>2, <1>1
  <2>3. QED
    BY <2>1, <2>2 DEF DetailAnswer
<1>3. /\ pg \in Pages
      /\ pg.product = pages[i].product /\ pg.lookup = pages[i].lookup
      /\ pg.window = pages[i].window /\ pg.listening = pages[i].listening
      /\ pg.creates = pages[i].creates /\ pg.created = pages[i].created
      /\ pg.isChatted = pages[i].isChatted /\ pg.calm = pages[i].calm
  BY <1>1, <1>2 DEF Pages
<1>4. /\ pages' \in Seq(Pages) /\ Len(pages') = Len(pages) /\ pages'[i] = pg
      /\ \A j \in 1..Len(pages) : j # i => pages'[j] = pages[j]
  BY <1>1, <1>2, <1>3, PageChanged, Zenon
<1>5. UNCHANGED <<chats, orphans, signedIn, chatKeyStream>>
  BY DEF DetailAnswer
<1>6. /\ pages[i].window \in chats \union {Null, NoKey} /\ Requests(pages[i], chats)
      /\ pages[i].calm => Undisturbed(pages[i], chatKeyStream)
  BY <1>1 DEF ChatInv, KeysExist, PagesInv, CalmInv
<1>7. /\ pg.window \in chats \union {Null, NoKey} /\ Requests(pg, chats')
      /\ (pg.calm => Undisturbed(pg, chatKeyStream))
      /\ (Waiting(pg) => Waiting(pages[i]) \/ i = Len(pages))
  BY <1>3, <1>5, <1>6 DEF Requests, Undisturbed, Waiting
<1>8. chats \subseteq chats' /\ chats' \subseteq Products
  BY <1>1, <1>5 DEF TypeOK
<1>9. QED
  BY <1>3, <1>4, <1>5, <1>7, <1>8, QuietChange, Zenon

LEMMA ChatLookupAnswer ==
  ASSUME ChatInv, NEW i \in 1..Len(pages), AnswerLookup(i) PROVE ChatInv'
<1>1. TypeOK /\ pages[i] \in Pages /\ pages \in Seq(Pages) /\ DOMAIN pages = 1..Len(pages)
  BY PageTyped DEF ChatInv
<1>2. PICK pg : /\ pages' = [pages EXCEPT ![i] = pg]
                /\ \/ /\ pages[i].product \in chats
                      /\ pg = [pages[i] EXCEPT !.lookup = "found"]
                   \/ pg = [pages[i] EXCEPT !.lookup = "missing"]
                   \/ pg = [pages[i] EXCEPT !.lookup = "missing", !.failed = TRUE]
                   \/ pg = [pages[i] EXCEPT !.lookup = "off", !.failed = TRUE]
  <2>1. CASE pages[i].product \in chats /\ pages' = [pages EXCEPT ![i].lookup = "found"]
    BY <2>1, <1>1
  <2>2. CASE pages' = [pages EXCEPT ![i].lookup = "missing"]
    BY <2>2, <1>1
  <2>3. CASE pages' = [pages EXCEPT ![i].lookup = "missing", ![i].failed = TRUE]
    BY <2>3, <1>1
  <2>4. CASE pages' = [pages EXCEPT ![i].lookup = "off", ![i].failed = TRUE]
    BY <2>4, <1>1
  <2>5. QED
    BY <2>1, <2>2, <2>3, <2>4 DEF AnswerLookup
<1>3. /\ pg \in Pages /\ (pg.lookup = "found" => pages[i].product \in chats)
      /\ pg.product = pages[i].product
      /\ pg.window = pages[i].window /\ pg.listening = pages[i].listening
      /\ pg.creates = pages[i].creates /\ pg.created = pages[i].created
      /\ pg.isChatted = pages[i].isChatted /\ pg.calm = pages[i].calm
  BY <1>1, <1>2 DEF Pages
<1>4. /\ pages' \in Seq(Pages) /\ Len(pages') = Len(pages) /\ pages'[i] = pg
      /\ \A j \in 1..Len(pages) : j # i => pages'[j] = pages[j]
  BY <1>1, <1>2, <1>3, PageChanged, Zenon
<1>5. UNCHANGED <<chats, orphans, signedIn, chatKeyStream>> /\ pages[i].lookup = "asked"
  BY DEF AnswerLookup
<1>6. /\ pages[i].window \in chats \union {Null, NoKey} /\ Requests(pages[i], chats)
      /\ pages[i].calm => Undisturbed(pages[i], chatKeyStream)
  BY <1>1 DEF ChatInv, KeysExist, PagesInv, CalmInv
<1>7. /\ pg.window \in chats \union {Null, NoKey} /\ Requests(pg, chats')
      /\ (pg.calm => Undisturbed(pg, chatKeyStream))
      /\ (Waiting(pg) => Waiting(pages[i]) \/ i = Len(pages))
  BY <1>3, <1>5, <1>6 DEF Requests, Undisturbed, Waiting
<1>8. chats \subseteq chats' /\ chats' \subseteq Products
  BY <1>1, <1>5 DEF TypeOK
<1>9. QED
  BY <1>3, <1>4, <1>5, <1>7, <1>8, QuietChange, Zenon

LEMMA ChatMount ==
  ASSUME ChatInv, NEW i \in 1..Len(pages), Mount(i) PROVE ChatInv'
<1>1. TypeOK /\ pages[i] \in Pages /\ pages \in Seq(Pages) /\ DOMAIN pages = 1..Len(pages)
  BY PageTyped DEF ChatInv
<1>2. PICK pg : /\ pages' = [pages EXCEPT ![i] = pg]
                /\ pg = [pages[i] EXCEPT !.listening = TRUE, !.window = chatKeyStream]
  BY <1>1 DEF Mount
<1>5. UNCHANGED <<chats, orphans, signedIn, chatKeyStream>> /\ pages[i].isChatted
  BY DEF Mount
<1>3. /\ pg \in Pages /\ pg.window = chatKeyStream
      /\ pg.product = pages[i].product /\ pg.lookup = pages[i].lookup
      /\ pg.creates = pages[i].creates /\ pg.created = pages[i].created
      /\ pg.isChatted = pages[i].isChatted /\ pg.calm = pages[i].calm
  BY <1>1, <1>2 DEF Pages, TypeOK
<1>4. /\ pages' \in Seq(Pages) /\ Len(pages') = Len(pages) /\ pages'[i] = pg
      /\ \A j \in 1..Len(pages) : j # i => pages'[j] = pages[j]
  BY <1>1, <1>2, <1>3, PageChanged, Zenon
<1>6. /\ chatKeyStream \in chats \union {Null, NoKey} /\ Requests(pages[i], chats)
      /\ pages[i].calm => Undisturbed(pages[i], chatKeyStream)
  BY <1>1 DEF ChatInv, KeysExist, PagesInv, CalmInv
<1>7. /\ pg.window \in chats \union {Null, NoKey} /\ Requests(pg, chats')
      /\ (pg.calm => Undisturbed(pg, chatKeyStream))
      /\ (Waiting(pg) => Waiting(pages[i]) \/ i = Len(pages))
  BY <1>3, <1>5, <1>6 DEF Requests, Undisturbed, Waiting
<1>8. chats \subseteq chats' /\ chats' \subseteq Products
  BY <1>1, <1>5 DEF TypeOK
<1>9. QED
  BY <1>3, <1>4, <1>5, <1>7, <1>8, QuietChange, Zenon

LEMMA ChatCreate == ASSUME ChatInv, CreateChat PROVE ChatInv'
<1>0. PICK i \in 1..Len(pages) : i = Top
  BY PageTyped DEF ChatInv, CreateChat, Top
<1>1. TypeOK /\ pages[i] \in Pages /\ pages \in Seq(Pages) /\ DOMAIN pages = 1..Len(pages)
  BY PageTyped DEF ChatInv
<1>a. /\ pages[i].creates \in 0..MaxCreates /\ pages[i].created \in 0..MaxCreates
      /\ pages[i].creates + pages[i].created < MaxCreates /\ ~pages[i].isChatted
  BY <1>0, <1>1 DEF CreateChat, Pages
<1>2. PICK pg : /\ pages' = [pages EXCEPT ![i] = pg]
                /\ pg = [pages[i] EXCEPT !.showLoading = TRUE, !.creates = @ + 1,
                           !.calm = @ /\ pages[i].lookup = "off"]
  BY <1>0, <1>1 DEF CreateChat
<1>5. UNCHANGED <<chats, orphans, signedIn, chatKeyStream>>
  BY DEF CreateChat
<1>3. /\ pg \in Pages
      /\ pg.product = pages[i].product /\ pg.lookup = pages[i].lookup
      /\ pg.window = pages[i].window /\ pg.listening = pages[i].listening
      /\ pg.creates = pages[i].creates + 1 /\ pg.created = pages[i].created
      /\ pg.isChatted = pages[i].isChatted
      /\ (pg.calm => pages[i].calm /\ pages[i].lookup = "off")
  <2>1. pages[i].creates + 1 \in 0..MaxCreates
    BY <1>a, ProductChatAssumption
  <2>2. (pages[i].calm /\ pages[i].lookup = "off") \in BOOLEAN
    OBVIOUS
  <2>3. QED
    BY <1>1, <1>2, <2>1, <2>2 DEF Pages
<1>4. /\ pages' \in Seq(Pages) /\ Len(pages') = Len(pages) /\ pages'[i] = pg
      /\ \A j \in 1..Len(pages) : j # i => pages'[j] = pages[j]
  BY <1>1, <1>2, <1>3, PageChanged, Zenon
<1>6. /\ pages[i].window \in chats \union {Null, NoKey} /\ Requests(pages[i], chats)
      /\ pages[i].calm => Undisturbed(pages[i], chatKeyStream)
  BY <1>1 DEF ChatInv, KeysExist, PagesInv, CalmInv
<1>b. pages[i].creates + 1 + pages[i].created <= MaxCreates
  BY <1>a, ProductChatAssumption
<1>7. /\ pg.window \in chats \union {Null, NoKey} /\ Requests(pg, chats')
      /\ (pg.calm => Undisturbed(pg, chatKeyStream))
      /\ (Waiting(pg) => Waiting(pages[i]) \/ i = Len(pages))
  BY <1>0, <1>b, <1>3, <1>5, <1>6 DEF Requests, Undisturbed, Waiting, Top
<1>8. chats \subseteq chats' /\ chats' \subseteq Products
  BY <1>1, <1>5 DEF TypeOK
<1>9. QED
  BY <1>3, <1>4, <1>5, <1>7, <1>8, QuietChange, Zenon

LEMMA ChatCreateAnswer ==
  ASSUME ChatInv, NEW i \in 1..Len(pages), AnswerCreate(i) PROVE ChatInv'
<1>1. TypeOK /\ pages[i] \in Pages /\ pages \in Seq(Pages) /\ DOMAIN pages = 1..Len(pages)
  BY PageTyped DEF ChatInv
<1>6. /\ pages[i].window \in chats \union {Null, NoKey} /\ Requests(pages[i], chats)
      /\ pages[i].calm => Undisturbed(pages[i], chatKeyStream)
  BY <1>1 DEF ChatInv, KeysExist, PagesInv, CalmInv
<1>a. /\ pages[i].creates \in 1..MaxCreates /\ pages[i].created \in 0..MaxCreates
      /\ pages[i].creates + pages[i].created <= MaxCreates
      /\ pages[i].product \in Products
  BY <1>1, <1>6 DEF AnswerCreate, Pages, Requests
<1>2. PICK pg : /\ pages' = [pages EXCEPT ![i] = pg]
                /\ pg = [pages[i] EXCEPT !.creates = @ - 1, !.created = @ + 1]
  BY <1>1 DEF AnswerCreate
<1>5. /\ UNCHANGED <<orphans, signedIn, chatKeyStream>>
      /\ chats' = chats \union {pages[i].product}
  BY DEF AnswerCreate
<1>b. /\ pages[i].creates - 1 \in 0..MaxCreates /\ pages[i].created + 1 \in 0..MaxCreates
      /\ pages[i].creates - 1 + (pages[i].created + 1) = pages[i].creates + pages[i].created
  BY <1>a, ProductChatAssumption
<1>3. /\ pg \in Pages
      /\ pg.product = pages[i].product /\ pg.lookup = pages[i].lookup
      /\ pg.window = pages[i].window /\ pg.listening = pages[i].listening
      /\ pg.creates = pages[i].creates - 1 /\ pg.created = pages[i].created + 1
      /\ pg.isChatted = pages[i].isChatted /\ pg.calm = pages[i].calm
  BY <1>1, <1>2, <1>b DEF Pages
<1>4. /\ pages' \in Seq(Pages) /\ Len(pages') = Len(pages) /\ pages'[i] = pg
      /\ \A j \in 1..Len(pages) : j # i => pages'[j] = pages[j]
  BY <1>1, <1>2, <1>3, PageChanged, Zenon
<1>c. pg.creates + pg.created = pages[i].creates + pages[i].created
  BY <1>3, <1>b
<1>d. pages[i].product \in chats'
  BY <1>5
<1>7. /\ pg.window \in chats \union {Null, NoKey} /\ Requests(pg, chats')
      /\ (pg.calm => Undisturbed(pg, chatKeyStream))
      /\ (Waiting(pg) => Waiting(pages[i]) \/ i = Len(pages))
  BY <1>3, <1>a, <1>c, <1>d, <1>6 DEF Requests, Undisturbed, Waiting
<1>8. chats \subseteq chats' /\ chats' \subseteq Products
  BY <1>1, <1>5, <1>a DEF TypeOK
<1>9. QED
  BY <1>3, <1>4, <1>5, <1>7, <1>8, QuietChange, Zenon

LEMMA ChatCreateFails ==
  ASSUME ChatInv, NEW i \in 1..Len(pages), FailCreate(i) PROVE ChatInv'
<1>1. TypeOK /\ pages[i] \in Pages /\ pages \in Seq(Pages) /\ DOMAIN pages = 1..Len(pages)
  BY PageTyped DEF ChatInv
<1>6. /\ pages[i].window \in chats \union {Null, NoKey} /\ Requests(pages[i], chats)
      /\ pages[i].calm => Undisturbed(pages[i], chatKeyStream)
  BY <1>1 DEF ChatInv, KeysExist, PagesInv, CalmInv
<1>a. /\ pages[i].creates \in 1..MaxCreates /\ pages[i].created \in 0..MaxCreates
      /\ pages[i].creates + pages[i].created <= MaxCreates
  BY <1>1, <1>6 DEF FailCreate, Pages, Requests
<1>2. PICK pg : /\ pages' = [pages EXCEPT ![i] = pg]
                /\ pg = [pages[i] EXCEPT !.creates = @ - 1, !.failed = TRUE]
  BY <1>1 DEF FailCreate
<1>5. UNCHANGED <<chats, orphans, signedIn, chatKeyStream>>
  BY DEF FailCreate
<1>b. pages[i].creates - 1 \in 0..MaxCreates
  BY <1>a, ProductChatAssumption
<1>3. /\ pg \in Pages
      /\ pg.product = pages[i].product /\ pg.lookup = pages[i].lookup
      /\ pg.window = pages[i].window /\ pg.listening = pages[i].listening
      /\ pg.creates = pages[i].creates - 1 /\ pg.created = pages[i].created
      /\ pg.isChatted = pages[i].isChatted /\ pg.calm = pages[i].calm
  BY <1>1, <1>2, <1>b DEF Pages
<1>4. /\ pages' \in Seq(Pages) /\ Len(pages') = Len(pages) /\ pages'[i] = pg
      /\ \A j \in 1..Len(pages) : j # i => pages'[j] = pages[j]
  BY <1>1, <1>2, <1>3, PageChanged, Zenon
<1>c. /\ pg.creates + pg.created <= MaxCreates
      /\ pages[i].creates + pages[i].created > 0
  BY <1>3, <1>a, ProductChatAssumption
<1>7. /\ pg.window \in chats \union {Null, NoKey} /\ Requests(pg, chats')
      /\ (pg.calm => Undisturbed(pg, chatKeyStream))
      /\ (Waiting(pg) => Waiting(pages[i]) \/ i = Len(pages))
  BY <1>3, <1>c, <1>5, <1>6 DEF Requests, Undisturbed, Waiting
<1>8. chats \subseteq chats' /\ chats' \subseteq Products
  BY <1>1, <1>5 DEF TypeOK
<1>9. QED
  BY <1>3, <1>4, <1>5, <1>7, <1>8, QuietChange, Zenon

LEMMA ChatLookedUp ==
  ASSUME ChatInv, NEW i \in 1..Len(pages), LookedUp(i) PROVE ChatInv'
<1>1. TypeOK /\ pages[i] \in Pages /\ pages \in Seq(Pages) /\ DOMAIN pages = 1..Len(pages)
  BY PageTyped DEF ChatInv
<1>2. /\ pages[i].window \in chats \union {Null, NoKey} /\ Requests(pages[i], chats)
      /\ pages[i].calm => Undisturbed(pages[i], chatKeyStream)
  BY <1>1 DEF ChatInv, KeysExist, PagesInv, CalmInv
<1>3. PICK pg, k :
        /\ Publish([pages EXCEPT ![i] = pg], k)
        /\ \/ /\ pages[i].lookup = "found"
              /\ pg = [pages[i] EXCEPT !.lookup = "off", !.isChatted = TRUE]
              /\ k = pages[i].product
           \/ /\ pages[i].lookup = "missing"
              /\ pg = [pages[i] EXCEPT !.lookup = "off"]
              /\ k = Null
  <2>1. CASE /\ pages[i].lookup = "found"
             /\ Publish([pages EXCEPT ![i].lookup = "off", ![i].isChatted = TRUE],
                        pages[i].product)
    <3>1. [pages EXCEPT ![i].lookup = "off", ![i].isChatted = TRUE] =
            [pages EXCEPT ![i] = [pages[i] EXCEPT !.lookup = "off", !.isChatted = TRUE]]
      BY <1>1
    <3>2. QED
      BY <2>1, <3>1
  <2>2. CASE /\ pages[i].lookup = "missing"
             /\ Publish([pages EXCEPT ![i].lookup = "off"], Null)
    <3>1. [pages EXCEPT ![i].lookup = "off"] =
            [pages EXCEPT ![i] = [pages[i] EXCEPT !.lookup = "off"]]
      BY <1>1
    <3>2. QED
      BY <2>2, <3>1
  <2>3. QED
    BY <2>1, <2>2 DEF LookedUp
<1>4. /\ pg \in Pages /\ pages[i].lookup # "off"
      /\ pg.product = pages[i].product /\ pg.lookup = "off"
      /\ pg.window = pages[i].window /\ pg.listening = pages[i].listening
      /\ pg.creates = pages[i].creates /\ pg.created = pages[i].created
      /\ (pg.isChatted => k = pages[i].product \/ pages[i].isChatted)
      /\ (pages[i].isChatted => pg.isChatted) /\ pg.calm = pages[i].calm
  BY <1>1, <1>3 DEF Pages
<1>5. k \in chats \union {Null, NoKey} /\ k \in Keys
  BY <1>1, <1>2, <1>3 DEF Requests, TypeOK, Keys
<1>6. /\ chatKeyStream' = k
      /\ pages' \in Seq(Pages) /\ Len(pages') = Len(pages) /\ pages'[i] = Told(pg, k)
      /\ \A j \in 1..Len(pages) : j # i => pages'[j] = Told(pages[j], k)
  BY <1>1, <1>3, <1>4, <1>5, PagePublished, ZenonT(30)
<1>7. UNCHANGED <<chats, orphans, signedIn>>
  BY DEF LookedUp
<1>8. /\ pg.window \in chats \union {Null, NoKey} /\ Requests(pg, chats)
      /\ (pg.calm => pages[i].calm) /\ Waiting(pages[i])
      /\ (pg.creates + pg.created > 0 /\ pg.calm => pg.lookup = "off")
      /\ (pg.isChatted /\ pg.calm => k = pg.product /\ pg.lookup = "off")
      /\ (pg.listening /\ pg.calm => pg.isChatted)
  BY <1>2, <1>4 DEF Requests, Undisturbed, Waiting
<1>9. QED
  BY <1>4, <1>5, <1>6, <1>7, <1>8, PublishedChange, Zenon

LEMMA ChatCreated ==
  ASSUME ChatInv, NEW i \in 1..Len(pages), Created(i) PROVE ChatInv'
<1>1. TypeOK /\ pages[i] \in Pages /\ pages \in Seq(Pages) /\ DOMAIN pages = 1..Len(pages)
  BY PageTyped DEF ChatInv
<1>2. /\ pages[i].window \in chats \union {Null, NoKey} /\ Requests(pages[i], chats)
      /\ pages[i].calm => Undisturbed(pages[i], chatKeyStream)
  BY <1>1 DEF ChatInv, KeysExist, PagesInv, CalmInv
<1>a. /\ pages[i].creates \in 0..MaxCreates /\ pages[i].created \in 1..MaxCreates
      /\ pages[i].creates + pages[i].created <= MaxCreates
      /\ pages[i].product \in chats
  BY <1>1, <1>2 DEF Created, Pages, Requests
<1>b. /\ pages[i].created - 1 \in 0..MaxCreates
      /\ pages[i].creates + (pages[i].created - 1) <= MaxCreates
      /\ pages[i].creates + pages[i].created > 0
  BY <1>a, ProductChatAssumption
<1>3. PICK pg, k :
        /\ Publish([pages EXCEPT ![i] = pg], k)
        /\ pg = [pages[i] EXCEPT !.created = @ - 1, !.showLoading = FALSE,
                                 !.isChatted = TRUE]
        /\ k = pages[i].product
  <2>1. [pages EXCEPT ![i].created = @ - 1, ![i].showLoading = FALSE,
                      ![i].isChatted = TRUE] =
          [pages EXCEPT ![i] = [pages[i] EXCEPT !.created = @ - 1,
                                  !.showLoading = FALSE, !.isChatted = TRUE]]
    BY <1>1
  <2>2. QED
    BY <2>1 DEF Created
<1>4. /\ pg \in Pages
      /\ pg.product = pages[i].product /\ pg.lookup = pages[i].lookup
      /\ pg.window = pages[i].window /\ pg.listening = pages[i].listening
      /\ pg.creates = pages[i].creates /\ pg.created = pages[i].created - 1
      /\ pg.isChatted = TRUE /\ pg.calm = pages[i].calm
  BY <1>1, <1>3, <1>b DEF Pages
<1>5. k \in chats \union {Null, NoKey} /\ k \in Keys
  BY <1>1, <1>a, <1>3 DEF TypeOK, Keys
<1>c. Publish([pages EXCEPT ![i] = pg], k)
  BY <1>3
<1>d. TypeOK /\ pg \in Pages /\ k \in Keys
  BY <1>1, <1>4, <1>5
<1>6. /\ chatKeyStream' = k
      /\ pages' \in Seq(Pages) /\ Len(pages') = Len(pages) /\ pages'[i] = Told(pg, k)
      /\ \A j \in 1..Len(pages) : j # i => pages'[j] = Told(pages[j], k)
  BY <1>c, <1>d, PagePublished, Zenon
<1>7. UNCHANGED <<chats, orphans, signedIn>>
  BY DEF Created
<1>8. /\ pg.window \in chats \union {Null, NoKey} /\ Requests(pg, chats)
      /\ (pg.calm => pages[i].calm) /\ Waiting(pages[i])
      /\ (pg.creates + pg.created > 0 /\ pg.calm => pg.lookup = "off")
      /\ (pg.isChatted /\ pg.calm => k = pg.product /\ pg.lookup = "off")
      /\ (pg.listening /\ pg.calm => pg.isChatted)
  BY <1>2, <1>3, <1>a, <1>b, <1>4 DEF Requests, Undisturbed, Waiting
<1>9. QED
  BY <1>4, <1>5, <1>6, <1>7, <1>8, PublishedChange, Zenon

-----------------------------------------------------------------------------
LEMMA ChatStep == ChatInv /\ [Next]_vars => ChatInv'
<1> SUFFICES ASSUME ChatInv, [Next]_vars PROVE ChatInv'
  OBVIOUS
<1>1. /\ TypeOK /\ DOMAIN pages = 1..Len(pages) /\ pages \in Seq(Pages)
      /\ chatKeyStream \in chats \union {Null, NoKey}
  BY PageTyped DEF ChatInv, KeysExist
<1>2. CASE UNCHANGED vars
  BY <1>1, <1>2, PagesKept DEF vars, TypeOK
<1>3. ASSUME NEW p \in Products, Open(p) PROVE ChatInv'
  BY <1>3, ChatOpen
<1>4. ASSUME NEW p \in Products, OrphanCreate(p) PROVE ChatInv'
  BY <1>1, <1>4, PagesKept DEF OrphanCreate, TypeOK
<1>5. ASSUME NEW p \in Products, OpenMessage(p) PROVE ChatInv'
  <2>1. pages = <<>>
    BY <1>1, <1>5, EmptySeq DEF OpenMessage, Top
  <2>2. QED
    BY <1>1, <1>5, <2>1, PagesKept DEF OpenMessage, TypeOK
<1>6. ASSUME NEW i \in 1..Len(pages), Answers(i) PROVE ChatInv'
  BY <1>6, ChatDetail, ChatLookupAnswer, ChatLookedUp, ChatMount, ChatCreateAnswer,
     ChatCreateFails, ChatCreated DEF Answers
<1>7. CASE CreateChat
  BY <1>7, ChatCreate
<1>8. CASE SignIn
  BY <1>1, <1>8, PagesKept DEF SignIn, TypeOK
<1>9. CASE Back
  BY <1>9, ChatBack
<1>10. QED
  BY <1>1, <1>2, <1>3, <1>4, <1>5, <1>6, <1>7, <1>8, <1>9, Zenon DEF Next

LEMMA ChatCorrect == Spec => []ChatInv
BY ChatInitially, ChatStep, PTL DEF Spec

-----------------------------------------------------------------------------
\* Pages, requests and keys keep their types.
THEOREM TypeCorrect == Spec => []TypeOK
<1>1. ChatInv => TypeOK
  BY DEF ChatInv
<1>2. QED
  BY ChatCorrect, <1>1, PTL

(***************************************************************************)
(* No window is given the key of a conversation the backend does not have  *)
(* (chatKeyStream.add in ProductDetailScreen).                             *)
(***************************************************************************)
THEOREM KeysAlwaysExist == Spec => []KeysExist
<1>1. ChatInv => KeysExist
  BY DEF ChatInv
<1>2. QED
  BY ChatCorrect, <1>1, PTL

(***************************************************************************)
(* The window of a page that nothing interferes with is on the page's own  *)
(* conversation (_createChat and initState of ProductDetailScreen).        *)
(***************************************************************************)
THEOREM PageShowsItsConversation == Spec => []OwnConversation
<1>1. ChatInv => OwnConversation
  <2> SUFFICES ASSUME ChatInv PROVE OwnConversation
    OBVIOUS
  <2>1. DOMAIN pages = 1..Len(pages)
    BY PageTyped DEF ChatInv
  <2>2. QED
    BY <2>1 DEF ChatInv, CalmInv, Undisturbed, OwnConversation
<1>2. QED
  BY ChatCorrect, <1>1, PTL
=============================================================================
