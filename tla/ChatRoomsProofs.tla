--------------------------- MODULE ChatRoomsProofs --------------------------
(***************************************************************************)
(* The safety properties of ChatRooms for every number of clients,         *)
(* conversations and messages.                                             *)
(*                                                                         *)
(* What a client has issued counts as much as what the server has applied: *)
(* the inductive invariant speaks of the value a field will have Final-ly, *)
(* once a client's outbox is empty, and of the messages a client Has,      *)
(* stored or issued.  Both are stated of a sequence of writes, and the     *)
(* lemmas say what one more write, or one less, does to them.              *)
(***************************************************************************)
EXTENDS ChatRooms, SequenceTheorems, WellFoundedInduction, TLAPS

\* The i-th write of s sets field f of conversation c.
Sets(s, i, f, c) == s[i].field = f /\ s[i].chat = c

Silent(s, f, c) == \A i \in 1..Len(s) : ~Sets(s, i, f, c)

\* Field f of c, now base, is k once the writes s are applied.
Final(s, f, c, base, k) ==
  \/ Silent(s, f, c) /\ base = k
  \/ \E i \in 1..Len(s) :
       /\ Sets(s, i, f, c) /\ s[i].key = k
       /\ \A j \in 1..Len(s) : j > i => ~Sets(s, j, f, c)

\* The message k is stored, in S, or written by s.
Has(s, S, c, k) ==
  k \in S \/ \E i \in 1..Len(s) : Sets(s, i, "message", c) /\ s[i].key = k

\* Every write but that of a message names one that is stored or precedes it.
Backed(s, st) ==
  \A i \in 1..Len(s) :
    \/ s[i].field = "message"
    \/ s[i].key \in st[s[i].chat]
    \/ \E j \in 1..Len(s) :
         j < i /\ Sets(s, j, "message", s[i].chat) /\ s[j].key = s[i].key

\* The events q hold k; they end with k.
In(q, k)   == \E i \in 1..Len(q) : q[i] = k
Ends(q, k) == q # <<>> /\ q[Len(q)] = k

\* The summary follows its message.
Completed(s) ==
  \A i \in 1..Len(s) : s[i].field = "message" =>
    \E j \in 1..Len(s) : j > i /\ Sets(s, j, "lastTimeStamp", s[i].chat)

-----------------------------------------------------------------------------
(***************************************************************************)
(* Elements of a sequence after Append and Tail.                           *)
(***************************************************************************)
LEMMA Appended ==
  ASSUME NEW S, NEW s \in Seq(S), NEW w \in S
  PROVE  /\ Append(s, w) \in Seq(S)
         /\ Len(Append(s, w)) = Len(s) + 1
         /\ Len(s) \in Nat
         /\ \A i \in 1..Len(s) : Append(s, w)[i] = s[i]
         /\ Append(s, w)[Len(s) + 1] = w
  OBVIOUS

LEMMA Tailed ==
  ASSUME NEW S, NEW s \in Seq(S), s # <<>>
  PROVE  /\ Tail(s) \in Seq(S)
         /\ Len(s) \in Nat /\ Len(s) > 0
         /\ Len(Tail(s)) = Len(s) - 1
         /\ \A i \in 1..Len(Tail(s)) : i + 1 \in 1..Len(s) /\ Tail(s)[i] = s[i + 1]
         /\ Head(s) = s[1] /\ Head(s) \in S
  OBVIOUS

LEMMA EventAdded ==
  ASSUME NEW q \in Seq(Keys), NEW n \in Keys, NEW k
  PROVE  /\ Append(q, n) \in Seq(Keys) /\ Append(q, n) # <<>>
         /\ In(Append(q, n), k) <=> In(q, k) \/ k = n
         /\ Ends(Append(q, n), k) <=> k = n
<1> DEFINE t == Append(q, n)
<1>1. /\ Len(t) = Len(q) + 1 /\ Len(q) \in Nat /\ (\A i \in 1..Len(q) : t[i] = q[i])
      /\ t[Len(q) + 1] = n /\ t \in Seq(Keys)
  BY Appended
<1>2. t # <<>>
  BY <1>1, EmptySeq
<1> HIDE DEF t
<1>3. \A i \in 1..Len(t) : i \in 1..Len(q) \/ i = Len(q) + 1
  BY <1>1
<1>4. In(t, k) <=> In(q, k) \/ k = n
  BY <1>1, <1>3 DEF In
<1>5. Ends(t, k) <=> k = n
  BY <1>1, <1>2 DEF Ends
<1>6. QED
  BY <1>1, <1>2, <1>4, <1>5 DEF t

LEMMA EventHeard ==
  ASSUME NEW q \in Seq(Keys), q # <<>>, NEW k
  PROVE  /\ Tail(q) \in Seq(Keys) /\ Head(q) \in Keys /\ In(q, Head(q))
         /\ In(Tail(q), k) => In(q, k)
         /\ Ends(Tail(q), k) => Ends(q, k)
         /\ Tail(q) = <<>> => Ends(q, Head(q))
<1> DEFINE t == Tail(q)
<1>1. /\ Len(q) \in Nat /\ Len(q) > 0 /\ Len(t) = Len(q) - 1
      /\ \A i \in 1..Len(t) : i + 1 \in 1..Len(q) /\ t[i] = q[i + 1]
      /\ Head(q) = q[1] /\ Head(q) \in Keys /\ t \in Seq(Keys)
  BY Tailed
<1>2. t = <<>> <=> Len(t) = 0
  BY <1>1, EmptySeq
<1> HIDE DEF t
<1>3. In(q, Head(q)) /\ (In(t, k) => In(q, k))
  BY <1>1 DEF In
<1>4. ASSUME Ends(t, k) PROVE Ends(q, k)
  <2>1. Len(t) \in 1..Len(t)
    BY <1>1, <1>2, <1>4 DEF Ends
  <2>2. t[Len(t)] = q[Len(t) + 1] /\ Len(t) + 1 = Len(q)
    BY <1>1, <2>1
  <2>3. QED
    BY <1>4, <2>2 DEF Ends
<1>5. ASSUME t = <<>> PROVE Ends(q, Head(q))
  <2>1. Len(q) = 1
    BY <1>1, <1>2, <1>5
  <2>2. QED
    BY <1>1, <2>1 DEF Ends
<1>6. QED
  BY <1>1, <1>3, <1>4, <1>5 DEF t

\* A set of positions of a sequence has a last one.
LEMMA LastPosition ==
  ASSUME NEW n \in Nat, NEW P, P \subseteq 1..n, P # {}
  PROVE  \E i \in P : \A j \in P : j <= i
<1> DEFINE T == {n - i : i \in P}
           R == OpToRel(<, Nat)
<1>1. T \subseteq Nat /\ T # {}
  <2>1. \A i \in P : n - i \in Nat
    OBVIOUS
  <2>2. QED
    BY <2>1
<1>2. PICK x \in T : \A y \in T : ~(<<y, x>> \in R)
  BY <1>1, NatLessThanWellFounded, WFMin, Zenon
<1>3. \A y \in T : ~(y < x)
  BY <1>1, <1>2 DEF OpToRel
<1>4. PICK i \in P : x = n - i
  OBVIOUS
<1>5. \A j \in P : j <= i
  <2> SUFFICES ASSUME NEW j \in P PROVE j <= i
    OBVIOUS
  <2>1. n - j \in T
    OBVIOUS
  <2>2. ~(n - j < n - i)
    BY <1>3, <1>4, <2>1
  <2>3. QED
    BY <2>2
<1>6. QED
  BY <1>5

-----------------------------------------------------------------------------
(***************************************************************************)
(* One more write.                                                         *)
(***************************************************************************)
LEMMA AppendSilent ==
  ASSUME NEW s \in Seq(Writes), NEW w \in Writes, NEW f, NEW c
  PROVE  Silent(Append(s, w), f, c) <=>
           Silent(s, f, c) /\ ~(w.field = f /\ w.chat = c)
<1> DEFINE t == Append(s, w)
<1>1. Len(t) = Len(s) + 1 /\ Len(s) \in Nat /\ (\A i \in 1..Len(s) : t[i] = s[i])
        /\ t[Len(s) + 1] = w
  BY Appended
<1> HIDE DEF t
<1>2. QED
  BY <1>1 DEF Silent, Sets, t

LEMMA AppendFinal ==
  ASSUME NEW s \in Seq(Writes), NEW w \in Writes, NEW f, NEW c, NEW base, NEW k
  PROVE  Final(Append(s, w), f, c, base, k) <=>
           IF w.field = f /\ w.chat = c THEN w.key = k ELSE Final(s, f, c, base, k)
<1> DEFINE t == Append(s, w)
<1>1. Len(t) = Len(s) + 1 /\ Len(s) \in Nat /\ (\A i \in 1..Len(s) : t[i] = s[i])
        /\ t[Len(s) + 1] = w
  BY Appended
<1>2. Silent(t, f, c) <=> Silent(s, f, c) /\ ~(w.field = f /\ w.chat = c)
  BY AppendSilent
<1> HIDE DEF t
<1>3. CASE w.field = f /\ w.chat = c
  <2>1. Final(t, f, c, base, k) => w.key = k
    BY <1>1, <1>2, <1>3 DEF Final, Sets
  <2>2. w.key = k => Final(t, f, c, base, k)
    BY <1>1, <1>3 DEF Final, Sets
  <2>3. QED
    BY <1>3, <2>1, <2>2 DEF t
<1>4. CASE ~(w.field = f /\ w.chat = c)
  <2>1. Final(t, f, c, base, k) => Final(s, f, c, base, k)
    BY <1>1, <1>2, <1>4 DEF Final, Sets
  <2>2. Final(s, f, c, base, k) => Final(t, f, c, base, k)
    BY <1>1, <1>2, <1>4 DEF Final, Sets
  <2>3. QED
    BY <1>4, <2>1, <2>2 DEF t
<1>5. QED
  BY <1>3, <1>4

LEMMA AppendHas ==
  ASSUME NEW s \in Seq(Writes), NEW w \in Writes, NEW S, NEW c, NEW k
  PROVE  Has(Append(s, w), S, c, k) <=>
           Has(s, S, c, k) \/ (w.field = "message" /\ w.chat = c /\ w.key = k)
<1> DEFINE t == Append(s, w)
<1>1. Len(t) = Len(s) + 1 /\ Len(s) \in Nat /\ (\A i \in 1..Len(s) : t[i] = s[i])
        /\ t[Len(s) + 1] = w
  BY Appended
<1> HIDE DEF t
<1>2. QED
  BY <1>1 DEF Has, Sets, t

LEMMA AppendBacked ==
  ASSUME NEW s \in Seq(Writes), NEW w \in Writes, NEW st, Backed(s, st),
         w.field = "message" \/ Has(s, st[w.chat], w.chat, w.key)
  PROVE  Backed(Append(s, w), st)
<1> DEFINE t == Append(s, w)
<1>1. Len(t) = Len(s) + 1 /\ Len(s) \in Nat /\ (\A i \in 1..Len(s) : t[i] = s[i])
        /\ t[Len(s) + 1] = w
  BY Appended
<1> HIDE DEF t
<1>2. QED
  BY <1>1 DEF Has, Sets, Backed, t

LEMMA AppendCompleted ==
  ASSUME NEW s \in Seq(Writes), NEW w \in Writes, w.field # "message", Completed(s)
  PROVE  Completed(Append(s, w))
<1> DEFINE t == Append(s, w)
<1>1. Len(t) = Len(s) + 1 /\ Len(s) \in Nat /\ (\A i \in 1..Len(s) : t[i] = s[i])
        /\ t[Len(s) + 1] = w
  BY Appended
<1> HIDE DEF t
<1>2. QED
  BY <1>1 DEF Completed, Sets, t

-----------------------------------------------------------------------------
(***************************************************************************)
(* The first write is applied.                                             *)
(***************************************************************************)
LEMMA TailSilent ==
  ASSUME NEW s \in Seq(Writes), s # <<>>, NEW f, NEW c
  PROVE  Silent(s, f, c) <=>
           Silent(Tail(s), f, c) /\ ~(Head(s).field = f /\ Head(s).chat = c)
<1> DEFINE t == Tail(s)
<1>1. /\ Len(s) \in Nat /\ Len(s) > 0 /\ Len(t) = Len(s) - 1
      /\ \A i \in 1..Len(t) : i + 1 \in 1..Len(s) /\ t[i] = s[i + 1]
      /\ Head(s) = s[1]
  BY Tailed
<1> HIDE DEF t
<1>2. \A i \in 1..Len(s) : i = 1 \/ (i - 1 \in 1..Len(t) /\ s[i] = t[i - 1])
  BY <1>1
<1>3. QED
  BY <1>1, <1>2 DEF Silent, Sets, t

LEMMA TailFinal ==
  ASSUME NEW s \in Seq(Writes), s # <<>>, NEW f, NEW c, NEW base, NEW k,
         NEW base2, base2 = IF Head(s).field = f /\ Head(s).chat = c THEN Head(s).key
                            ELSE base
  PROVE  Final(Tail(s), f, c, base2, k) <=> Final(s, f, c, base, k)
<1> DEFINE t == Tail(s)
           first == Head(s).field = f /\ Head(s).chat = c
<1>1. /\ Len(s) \in Nat /\ Len(s) > 0 /\ Len(t) = Len(s) - 1
      /\ \A i \in 1..Len(t) : i + 1 \in 1..Len(s) /\ t[i] = s[i + 1]
      /\ Head(s) = s[1]
  BY Tailed
<1>2. Silent(s, f, c) <=> Silent(t, f, c) /\ ~first
  BY TailSilent
<1> HIDE DEF t
<1>3. \A i \in 1..Len(s) : i = 1 \/ (i - 1 \in 1..Len(t) /\ s[i] = t[i - 1])
  BY <1>1
<1>4. ASSUME Final(t, f, c, base2, k) PROVE Final(s, f, c, base, k)
  <2>1. CASE Silent(t, f, c) /\ base2 = k /\ first
    <3>1. Sets(s, 1, f, c) /\ s[1].key = k
      BY <1>1, <2>1 DEF Sets
    <3>2. \A j \in 1..Len(s) : j > 1 => ~Sets(s, j, f, c)
      BY <1>1, <1>3, <2>1 DEF Sets, Silent
    <3>3. QED
      BY <1>1, <3>1, <3>2 DEF Final
  <2>2. CASE Silent(t, f, c) /\ base2 = k /\ ~first
    BY <1>2, <2>2 DEF Final
  <2>3. CASE \E i \in 1..Len(t) :
               /\ Sets(t, i, f, c) /\ t[i].key = k
               /\ \A j \in 1..Len(t) : j > i => ~Sets(t, j, f, c)
    <3>1. PICK i \in 1..Len(t) :
               /\ Sets(t, i, f, c) /\ t[i].key = k
               /\ \A j \in 1..Len(t) : j > i => ~Sets(t, j, f, c)
      BY <2>3
    <3>2. i + 1 \in 1..Len(s) /\ Sets(s, i + 1, f, c) /\ s[i + 1].key = k
      BY <1>1, <3>1 DEF Sets
    <3>3. \A j \in 1..Len(s) : j > i + 1 => ~Sets(s, j, f, c)
      BY <1>1, <1>3, <3>1 DEF Sets
    <3>4. QED
      BY <3>2, <3>3 DEF Final
  <2>4. QED
    BY <1>4, <2>1, <2>2, <2>3 DEF Final
<1>5. ASSUME Final(s, f, c, base, k) PROVE Final(t, f, c, base2, k)
  <2>1. CASE Silent(s, f, c) /\ base = k
    BY <1>2, <2>1 DEF Final
  <2>2. CASE \E i \in 1..Len(s) :
               /\ Sets(s, i, f, c) /\ s[i].key = k
               /\ \A j \in 1..Len(s) : j > i => ~Sets(s, j, f, c)
    <3>1. PICK i \in 1..Len(s) :
               /\ Sets(s, i, f, c) /\ s[i].key = k
               /\ \A j \in 1..Len(s) : j > i => ~Sets(s, j, f, c)
      BY <2>2
    <3>2. CASE i = 1
      <4>1. base2 = k
        BY <1>1, <3>1, <3>2 DEF Sets
      <4>2. Silent(t, f, c)
        BY <1>1, <3>1, <3>2 DEF Sets, Silent
      <4>3. QED
        BY <4>1, <4>2 DEF Final
    <3>3. CASE i # 1
      <4>1. i - 1 \in 1..Len(t) /\ Sets(t, i - 1, f, c) /\ t[i - 1].key = k
        BY <1>3, <3>1, <3>3 DEF Sets
      <4>2. \A j \in 1..Len(t) : j > i - 1 => ~Sets(t, j, f, c)
        BY <1>1, <3>1, <3>3 DEF Sets
      <4>3. QED
        BY <4>1, <4>2 DEF Final
    <3>4. QED
      BY <3>2, <3>3
  <2>3. QED
    BY <1>5, <2>1, <2>2 DEF Final
<1>6. QED
  BY <1>4, <1>5 DEF t

LEMMA TailHas ==
  ASSUME NEW s \in Seq(Writes), s # <<>>, NEW S, NEW c, NEW k,
         NEW S2, S2 = IF Head(s).field = "message" /\ Head(s).chat = c
                      THEN S \union {Head(s).key} ELSE S
  PROVE  Has(Tail(s), S2, c, k) <=> Has(s, S, c, k)
<1> DEFINE t == Tail(s)
<1>1. /\ Len(s) \in Nat /\ Len(s) > 0 /\ Len(t) = Len(s) - 1
      /\ \A i \in 1..Len(t) : i + 1 \in 1..Len(s) /\ t[i] = s[i + 1]
      /\ Head(s) = s[1]
  BY Tailed
<1> HIDE DEF t
<1>2. \A i \in 1..Len(s) : i = 1 \/ (i - 1 \in 1..Len(t) /\ s[i] = t[i - 1])
  BY <1>1
<1>3. ASSUME Has(t, S2, c, k) PROVE Has(s, S, c, k)
  BY <1>1, <1>3 DEF Has, Sets
<1>4. ASSUME Has(s, S, c, k) PROVE Has(t, S2, c, k)
  BY <1>1, <1>2, <1>4 DEF Has, Sets
<1>5. QED
  BY <1>3, <1>4 DEF t

LEMMA TailBacked ==
  ASSUME NEW s \in Seq(Writes), s # <<>>, NEW st, NEW st2, Backed(s, st),
         \A c : st[c] \subseteq st2[c],
         Head(s).field = "message" => Head(s).key \in st2[Head(s).chat]
  PROVE  /\ Backed(Tail(s), st2)
         /\ Head(s).field # "message" => Head(s).key \in st[Head(s).chat]
<1> DEFINE t == Tail(s)
<1>1. /\ Len(s) \in Nat /\ Len(s) > 0 /\ Len(t) = Len(s) - 1
      /\ \A i \in 1..Len(t) : i + 1 \in 1..Len(s) /\ t[i] = s[i + 1]
      /\ Head(s) = s[1]
  BY Tailed
<1> HIDE DEF t
<1>2. \A i \in 1..Len(s) : i = 1 \/ (i - 1 \in 1..Len(t) /\ s[i] = t[i - 1])
  BY <1>1
<1>3. ASSUME NEW i \in 1..Len(t)
      PROVE  \/ t[i].field = "message"
             \/ t[i].key \in st2[t[i].chat]
             \/ \E j \in 1..Len(t) :
                  j < i /\ Sets(t, j, "message", t[i].chat) /\ t[j].key = t[i].key
  <2>1. i + 1 \in 1..Len(s) /\ t[i] = s[i + 1]
    BY <1>1
  <2>2. CASE t[i].field = "message" \/ t[i].key \in st[t[i].chat]
    BY <2>2
  <2>3. CASE \E j \in 1..Len(s) :
         j < i + 1 /\ Sets(s, j, "message", t[i].chat) /\ s[j].key = t[i].key
    <3>1. PICK j \in 1..Len(s) :
         j < i + 1 /\ Sets(s, j, "message", t[i].chat) /\ s[j].key = t[i].key
      BY <2>3
    <3>2. CASE j = 1
      BY <1>1, <3>1, <3>2 DEF Sets
    <3>3. CASE j # 1
      <4>1. j - 1 \in 1..Len(t) /\ j - 1 < i /\ s[j] = t[j - 1]
        BY <1>2, <3>1, <3>3
      <4>2. QED
        BY <3>1, <4>1 DEF Sets
    <3>4. QED
      BY <3>2, <3>3
  <2>4. QED
    BY <2>1, <2>2, <2>3 DEF Backed
<1>4. Head(s).field # "message" => Head(s).key \in st[Head(s).chat]
  BY <1>1 DEF Backed
<1>5. QED
  BY <1>3, <1>4 DEF Backed, t

LEMMA TailCompleted ==
  ASSUME NEW s \in Seq(Writes), s # <<>>, Completed(s)
  PROVE  Completed(Tail(s))
<1> DEFINE t == Tail(s)
<1>1. /\ Len(s) \in Nat /\ Len(s) > 0 /\ Len(t) = Len(s) - 1
      /\ \A i \in 1..Len(t) : i + 1 \in 1..Len(s) /\ t[i] = s[i + 1]
      /\ Head(s) = s[1]
  BY Tailed
<1> HIDE DEF t
<1>2. \A i \in 1..Len(s) : i = 1 \/ (i - 1 \in 1..Len(t) /\ s[i] = t[i - 1])
  BY <1>1
<1>3. ASSUME NEW i \in 1..Len(t), t[i].field = "message"
      PROVE  \E j \in 1..Len(t) : j > i /\ Sets(t, j, "lastTimeStamp", t[i].chat)
  <2>1. i + 1 \in 1..Len(s) /\ t[i] = s[i + 1]
    BY <1>1
  <2>2. PICK j \in 1..Len(s) : j > i + 1 /\ Sets(s, j, "lastTimeStamp", t[i].chat)
    BY <1>3, <2>1 DEF Completed
  <2>3. j - 1 \in 1..Len(t) /\ j - 1 > i /\ s[j] = t[j - 1]
    BY <1>2, <2>2
  <2>4. QED
    BY <2>2, <2>3 DEF Sets
<1>4. QED
  BY <1>3 DEF Completed, t

-----------------------------------------------------------------------------
(***************************************************************************)
(* The state as client u sees it, with its own writes applied: the         *)
(* messages it knows, the newest of them, and what will become of the      *)
(* summary, of the time stamp and of the client's seen marker.             *)
(***************************************************************************)
Holds(u, c, k)    == Has(outbox[u], stored[c], c, k)
NewestIs(u, c, k) == Holds(u, c, k) /\ \A j \in Keys : Holds(u, c, j) => j <= k

Quiet(u, f, c) == Silent(outbox[u], f, c)
Sending(u, c)  == \E f \in Fields \ {"lastSeen"} : ~Quiet(u, f, c)
Alone(u, c)    == \A v \in Users : v # u => ~Sending(v, c)

SummaryBecomes(u, c, k) == Final(outbox[u], "lastMessage", c, lastMessage[c], k)
StampBecomes(u, c, k)   == Final(outbox[u], "lastTimeStamp", c, lastTimeStamp[c], k)
SeenBecomes(u, c, k)    == Final(outbox[u], "lastSeen", c, lastSeen[c][u], k)

-----------------------------------------------------------------------------
(***************************************************************************)
(* The inductive invariant.                                                *)
(***************************************************************************)
WritesBacked ==
  \A u \in Users : Backed(outbox[u], stored) /\ Completed(outbox[u])

KeysUsed == \A u \in Users, c \in Chats, k \in Keys : Holds(u, c, k) => k < nextKey

EventsHeld ==
  \A u \in Users :
    /\ events[u] # <<>> => open[u] # NoKey
    /\ \A c \in Chats, k \in Keys : open[u] = c /\ In(events[u], k) => Holds(u, c, k)

TilesHeld ==
  \A u \in Users, c \in Chats, k \in Keys : tiles[u][c] = k =>
    Holds(u, c, k) /\ ~SummaryBecomes(u, c, 0)

RoomsInv ==
  /\ TypeOK /\ NoDanglingKeys
  /\ WritesBacked /\ KeysUsed /\ EventsHeld /\ TilesHeld

\* One client at a time sends to a conversation that is not torn, and its
\* writes leave the summary on the newest message.
SummaryAt(c) ==
  /\ \A u, v \in Users : Sending(u, c) /\ Sending(v, c) => u = v
  /\ \A u \in Users : Alone(u, c) =>
       \A k \in Keys : NewestIs(u, c, k) => SummaryBecomes(u, c, k) /\ StampBecomes(u, c, k)

SummaryInv == \A c \in Chats \ torn : SummaryAt(c)

\* The last event, or else the seen marker, is of the newest message.
SeenAt(u, c) ==
  /\ \A k \in Keys : Ends(events[u], k) => NewestIs(u, c, k)
  /\ events[u] = <<>> /\ <<u, c>> \notin backdated =>
       \A k \in Keys : NewestIs(u, c, k) => SeenBecomes(u, c, k)
  /\ <<u, c>> \in backdated => tiles[u][c] # 0

SeenInv == \A u \in Users, c \in Chats : open[u] = c => SeenAt(u, c)

-----------------------------------------------------------------------------
(***************************************************************************)
(* The operators of ChatRooms in these terms.                              *)
(***************************************************************************)
LEMMA Terms ==
  ASSUME TypeOK, NEW u \in Users, NEW c \in Chats
  PROVE  /\ \A f \in Fields : Issued(u, f, c) = {} <=> Quiet(u, f, c)
         /\ \A k : k \in Known(u, c) <=> Holds(u, c, k)
         /\ \A k : Holds(u, c, k) => k \in Keys
         /\ \A k : k \in Newest(Known(u, c)) <=> NewestIs(u, c, k)
<1>1. outbox[u] \in Seq(Writes) /\ stored[c] \subseteq Keys
  BY DEF TypeOK
<1>2. DOMAIN outbox[u] = 1..Len(outbox[u]) /\ \A i \in 1..Len(outbox[u]) : outbox[u][i] \in Writes
  BY <1>1
<1>3. \A f \in Fields : Issued(u, f, c) = {} <=> Quiet(u, f, c)
  BY <1>2 DEF Issued, Quiet, Silent, Sets
<1>4. \A k : k \in Known(u, c) <=> Holds(u, c, k)
  BY <1>2 DEF Known, Issued, Holds, Has, Sets
<1>5. \A k : Holds(u, c, k) => k \in Keys
  BY <1>1, <1>2 DEF Holds, Has, Writes
<1>6. \A k : k \in Newest(Known(u, c)) <=> NewestIs(u, c, k)
  BY <1>4, <1>5 DEF Newest, NewestIs
<1>7. QED
  BY <1>3, <1>4, <1>5, <1>6

LEMMA LocalIsFinal ==
  ASSUME TypeOK, NEW u \in Users, NEW c \in Chats, NEW f \in Fields, NEW base
  PROVE  Final(outbox[u], f, c, base, Local(u, f, c, base))
<1> DEFINE own == Issued(u, f, c)
<1>1. outbox[u] \in Seq(Writes)
  BY DEF TypeOK
<1>2. Len(outbox[u]) \in Nat /\ DOMAIN outbox[u] = 1..Len(outbox[u])
  BY <1>1
<1>3. own \subseteq 1..Len(outbox[u])
  BY <1>2 DEF Issued
<1>4. CASE own = {}
  BY <1>4, Terms DEF Local, Final, Quiet
<1>5. CASE own # {}
  <2> DEFINE i == CHOOSE i \in own : \A j \in own : j <= i
  <2>1. \E m \in own : \A j \in own : j <= m
    BY <1>2, <1>3, <1>5, LastPosition
  <2>2. i \in own /\ \A j \in own : j <= i
    BY <2>1
  <2> HIDE DEF i
  <2>3. Sets(outbox[u], i, f, c) /\ i \in 1..Len(outbox[u])
    BY <1>2, <2>2 DEF Issued, Sets
  <2>4. \A j \in 1..Len(outbox[u]) : j > i => ~Sets(outbox[u], j, f, c)
    BY <1>2, <2>2, <2>3 DEF Issued, Sets
  <2>5. Final(outbox[u], f, c, base, outbox[u][i].key)
    BY <2>3, <2>4 DEF Final
  <2>6. QED
    BY <1>5, <2>5 DEF Local, i
<1>6. QED
  BY <1>4, <1>5

\* What the summary becomes is a message of the client.
LEMMA SummaryHeld ==
  ASSUME RoomsInv, NEW u \in Users, NEW c \in Chats, NEW k, SummaryBecomes(u, c, k)
  PROVE  k \in Keys \union {0} /\ (k # 0 => Holds(u, c, k))
<1>1. outbox[u] \in Seq(Writes) /\ stored[c] \subseteq Keys
  BY DEF RoomsInv, TypeOK
<1>2. CASE lastMessage[c] = k
  BY <1>1, <1>2 DEF RoomsInv, NoDanglingKeys, Holds, Has
<1>3. CASE \E i \in 1..Len(outbox[u]) :
             Sets(outbox[u], i, "lastMessage", c) /\ outbox[u][i].key = k
  <2>1. PICK i \in 1..Len(outbox[u]) :
             Sets(outbox[u], i, "lastMessage", c) /\ outbox[u][i].key = k
    BY <1>3
  <2>2. outbox[u][i] \in Writes
    BY <1>1
  <2>3. k \in Keys
    BY <2>1, <2>2 DEF Writes
  <2>4. Backed(outbox[u], stored)
    BY DEF RoomsInv, WritesBacked
  <2>5. \/ k \in stored[c]
        \/ \E j \in 1..Len(outbox[u]) :
             Sets(outbox[u], j, "message", c) /\ outbox[u][j].key = k
    BY <2>1, <2>4 DEF Backed, Sets
  <2>6. QED
    BY <2>3, <2>5 DEF Holds, Has
<1>4. QED
  BY <1>2, <1>3 DEF SummaryBecomes, Final

-----------------------------------------------------------------------------
(***************************************************************************)
(* What each kind of step does to the clients' views.  Three writes of a   *)
(* send:                                                                   *)
(***************************************************************************)
LEMMA ThreeWrites ==
  ASSUME NEW s \in Seq(Writes), NEW c \in Chats, NEW k \in Keys
  PROVE  /\ Write("message", c, k) \in Writes /\ Write("lastMessage", c, k) \in Writes
         /\ Write("lastTimeStamp", c, k) \in Writes
         /\ s \o SendWrites(c, k) =
              Append(Append(Append(s, Write("message", c, k)), Write("lastMessage", c, k)),
                     Write("lastTimeStamp", c, k))
<1> DEFINE a == Write("message", c, k)
           b == Write("lastMessage", c, k)
           d == Write("lastTimeStamp", c, k)
<1>1. a \in Writes /\ b \in Writes /\ d \in Writes
  BY DEF Write, Writes, Fields
<1> HIDE DEF a, b, d
<1>2. s \o <<a, b, d>> = Append(Append(Append(s, a), b), d)
  BY <1>1
<1>3. QED
  BY <1>1, <1>2 DEF SendWrites, a, b, d

LEMMA SendTyped ==
  ASSUME NEW s \in Seq(Writes), NEW c \in Chats, NEW n \in Keys, Completed(s)
  PROVE  s \o SendWrites(c, n) \in Seq(Writes) /\ Completed(s \o SendWrites(c, n))
<1> DEFINE w1 == Write("message", c, n)
           w2 == Write("lastMessage", c, n)
           w3 == Write("lastTimeStamp", c, n)
           s1 == Append(s, w1)
           s2 == Append(s1, w2)
           t == s \o SendWrites(c, n)
<1>1. /\ w1 \in Writes /\ w1.field = "message" /\ w1.chat = c /\ w1.key = n
      /\ w2 \in Writes /\ w2.field = "lastMessage" /\ w2.chat = c /\ w2.key = n
      /\ w3 \in Writes /\ w3.field = "lastTimeStamp" /\ w3.chat = c /\ w3.key = n
  BY ThreeWrites DEF Write
<1>2. t = Append(s2, w3)
  BY ThreeWrites
<1>3. s1 \in Seq(Writes) /\ s2 \in Seq(Writes) /\ t \in Seq(Writes)
  BY <1>1, <1>2, Appended
<1>0. s1 = Append(s, w1) /\ s2 = Append(s1, w2)
  OBVIOUS
<1> HIDE DEF w1, w2, w3, s1, s2, t
<1>4. ASSUME Completed(s) PROVE Completed(t)
  <2> DEFINE n0 == Len(s)
  <2>1. /\ n0 \in Nat /\ Len(t) = n0 + 3
        /\ \A i \in 1..n0 : t[i] = s[i]
        /\ t[n0 + 1] = w1 /\ t[n0 + 2] = w2 /\ t[n0 + 3] = w3
    BY <1>0, <1>1, <1>2, <1>3
  <2> HIDE DEF n0
  <2>2. \A i \in 1..Len(t) : i \in 1..n0 \/ i = n0 + 1 \/ i = n0 + 2 \/ i = n0 + 3
    BY <2>1
  <2>3. ASSUME NEW i \in 1..n0, t[i].field = "message"
        PROVE  \E j \in 1..Len(t) : j > i /\ Sets(t, j, "lastTimeStamp", t[i].chat)
    <3>1. PICK j \in 1..n0 : j > i /\ Sets(s, j, "lastTimeStamp", s[i].chat)
      BY <1>4, <2>1, <2>3 DEF Completed, n0
    <3>2. j \in 1..Len(t)
      BY <2>1
    <3>3. QED
      BY <2>1, <3>1, <3>2 DEF Sets
  <2>4. \E j \in 1..Len(t) : j > n0 + 1 /\ Sets(t, j, "lastTimeStamp", t[n0 + 1].chat)
    <3>1. n0 + 3 \in 1..Len(t) /\ n0 + 3 > n0 + 1
      BY <2>1
    <3>2. QED
      BY <1>1, <2>1, <3>1 DEF Sets
  <2>5. QED
    BY <1>1, <2>1, <2>2, <2>3, <2>4 DEF Completed
<1>5. QED
  BY <1>3, <1>4 DEF t

LEMMA SendHas ==
  ASSUME NEW s \in Seq(Writes), NEW c \in Chats, NEW n \in Keys, NEW S, NEW d, NEW k
  PROVE  Has(s \o SendWrites(c, n), S, d, k) <=> Has(s, S, d, k) \/ (d = c /\ k = n)
<1> DEFINE w1 == Write("message", c, n)
           w2 == Write("lastMessage", c, n)
           w3 == Write("lastTimeStamp", c, n)
           s1 == Append(s, w1)
           s2 == Append(s1, w2)
           t == s \o SendWrites(c, n)
<1>1. /\ w1 \in Writes /\ w1.field = "message" /\ w1.chat = c /\ w1.key = n
      /\ w2 \in Writes /\ w2.field = "lastMessage" /\ w2.chat = c /\ w2.key = n
      /\ w3 \in Writes /\ w3.field = "lastTimeStamp" /\ w3.chat = c /\ w3.key = n
  BY ThreeWrites DEF Write
<1>2. t = Append(s2, w3)
  BY ThreeWrites
<1>3. s1 \in Seq(Writes) /\ s2 \in Seq(Writes) /\ t \in Seq(Writes)
  BY <1>1, <1>2, Appended
<1>0. s1 = Append(s, w1) /\ s2 = Append(s1, w2)
  OBVIOUS
<1> HIDE DEF w1, w2, w3, s1, s2, t
<1>4. Has(s1, S, d, k) <=> Has(s, S, d, k) \/ (d = c /\ k = n)
  BY <1>0, <1>1, AppendHas
<1>5. Has(s2, S, d, k) <=> Has(s1, S, d, k)
  <2>1. Has(Append(s1, w2), S, d, k) <=>
          Has(s1, S, d, k) \/ (w2.field = "message" /\ w2.chat = d /\ w2.key = k)
    BY <1>1, <1>3, AppendHas
  <2>2. QED
    BY <1>0, <1>1, <2>1
<1>6. Has(t, S, d, k) <=> Has(s2, S, d, k)
  BY <1>1, <1>2, <1>3, AppendHas
<1>7. QED
  BY <1>4, <1>5, <1>6 DEF t

LEMMA SendBacked ==
  ASSUME NEW s \in Seq(Writes), NEW c \in Chats, NEW n \in Keys, NEW st, Backed(s, st)
  PROVE  Backed(s \o SendWrites(c, n), st)
<1> DEFINE w1 == Write("message", c, n)
           w2 == Write("lastMessage", c, n)
           w3 == Write("lastTimeStamp", c, n)
           s1 == Append(s, w1)
           s2 == Append(s1, w2)
           t == s \o SendWrites(c, n)
<1>1. /\ w1 \in Writes /\ w1.field = "message" /\ w1.chat = c /\ w1.key = n
      /\ w2 \in Writes /\ w2.field = "lastMessage" /\ w2.chat = c /\ w2.key = n
      /\ w3 \in Writes /\ w3.field = "lastTimeStamp" /\ w3.chat = c /\ w3.key = n
  BY ThreeWrites DEF Write
<1>2. t = Append(s2, w3)
  BY ThreeWrites
<1>3. s1 \in Seq(Writes) /\ s2 \in Seq(Writes) /\ t \in Seq(Writes)
  BY <1>1, <1>2, Appended
<1>0. s1 = Append(s, w1) /\ s2 = Append(s1, w2)
  OBVIOUS
<1> HIDE DEF w1, w2, w3, s1, s2, t
<1>5. \A S, d, k : /\ Has(s1, S, d, k) <=> Has(s, S, d, k) \/ (d = c /\ k = n)
                   /\ Has(s2, S, d, k) <=> Has(s1, S, d, k)
                   /\ Has(t, S, d, k) <=> Has(s2, S, d, k)
  <2>1. \A S, d, k : Has(Append(s, w1), S, d, k) <=>
          Has(s, S, d, k) \/ (w1.field = "message" /\ w1.chat = d /\ w1.key = k)
    BY <1>1, AppendHas
  <2>2. \A S, d, k : Has(Append(s1, w2), S, d, k) <=>
          Has(s1, S, d, k) \/ (w2.field = "message" /\ w2.chat = d /\ w2.key = k)
    BY <1>1, <1>3, AppendHas
  <2>3. \A S, d, k : Has(Append(s2, w3), S, d, k) <=>
          Has(s2, S, d, k) \/ (w3.field = "message" /\ w3.chat = d /\ w3.key = k)
    BY <1>1, <1>3, AppendHas
  <2>4. QED
    BY <1>0, <1>1, <1>2, <2>1, <2>2, <2>3
<1>6. Backed(t, st)
  <2>1. Backed(s1, st)
    BY <1>0, <1>1, AppendBacked
  <2>2. Backed(s2, st)
    <3>1. Has(s1, st[w2.chat], w2.chat, w2.key)
      BY <1>1, <1>5
    <3>2. QED
      BY <1>0, <1>1, <1>3, <2>1, <3>1, AppendBacked
  <2>3. QED
    <3>1. Has(s2, st[w3.chat], w3.chat, w3.key)
      BY <1>1, <1>5
    <3>2. QED
      BY <1>1, <1>2, <1>3, <2>2, <3>1, AppendBacked
<1>7. QED
  BY <1>6 DEF t

LEMMA SendSilent ==
  ASSUME NEW s \in Seq(Writes), NEW c \in Chats, NEW n \in Keys, NEW f \in Fields, NEW d
  PROVE  Silent(s \o SendWrites(c, n), f, d) <=> Silent(s, f, d) /\ ~(d = c /\ f # "lastSeen")
<1> DEFINE w1 == Write("message", c, n)
           w2 == Write("lastMessage", c, n)
           w3 == Write("lastTimeStamp", c, n)
           s1 == Append(s, w1)
           s2 == Append(s1, w2)
           t == s \o SendWrites(c, n)
<1>1. /\ w1 \in Writes /\ w1.field = "message" /\ w1.chat = c /\ w1.key = n
      /\ w2 \in Writes /\ w2.field = "lastMessage" /\ w2.chat = c /\ w2.key = n
      /\ w3 \in Writes /\ w3.field = "lastTimeStamp" /\ w3.chat = c /\ w3.key = n
  BY ThreeWrites DEF Write
<1>2. t = Append(s2, w3)
  BY ThreeWrites
<1>3. s1 \in Seq(Writes) /\ s2 \in Seq(Writes) /\ t \in Seq(Writes)
  BY <1>1, <1>2, Appended
<1>0. s1 = Append(s, w1) /\ s2 = Append(s1, w2)
  OBVIOUS
<1> HIDE DEF w1, w2, w3, s1, s2, t
<1>7. Silent(t, f, d) <=> Silent(s, f, d) /\ ~(d = c /\ f # "lastSeen")
  <2>1. Silent(s1, f, d) <=> Silent(s, f, d) /\ ~("message" = f /\ c = d)
    BY <1>0, <1>1, AppendSilent
  <2>2. Silent(s2, f, d) <=> Silent(s1, f, d) /\ ~("lastMessage" = f /\ c = d)
    <3>1. Silent(Append(s1, w2), f, d) <=> Silent(s1, f, d) /\ ~(w2.field = f /\ w2.chat = d)
      BY <1>1, <1>3, AppendSilent
    <3>2. QED
      BY <1>0, <1>1, <3>1
  <2>3. Silent(t, f, d) <=> Silent(s2, f, d) /\ ~("lastTimeStamp" = f /\ c = d)
    BY <1>1, <1>2, <1>3, AppendSilent
  <2>4. QED
    BY <2>1, <2>2, <2>3 DEF Fields
<1>8. QED
  BY <1>7 DEF t

LEMMA SendFinal ==
  ASSUME NEW s \in Seq(Writes), NEW c \in Chats, NEW n \in Keys,
         NEW f \in Fields, f # "message", NEW d, NEW base, NEW k
  PROVE  Final(s \o SendWrites(c, n), f, d, base, k) <=>
           IF d = c /\ f # "lastSeen" THEN k = n ELSE Final(s, f, d, base, k)
<1> DEFINE w1 == Write("message", c, n)
           w2 == Write("lastMessage", c, n)
           w3 == Write("lastTimeStamp", c, n)
           s1 == Append(s, w1)
           s2 == Append(s1, w2)
           t == s \o SendWrites(c, n)
<1>1. /\ w1 \in Writes /\ w1.field = "message" /\ w1.chat = c /\ w1.key = n
      /\ w2 \in Writes /\ w2.field = "lastMessage" /\ w2.chat = c /\ w2.key = n
      /\ w3 \in Writes /\ w3.field = "lastTimeStamp" /\ w3.chat = c /\ w3.key = n
  BY ThreeWrites DEF Write
<1>2. t = Append(s2, w3)
  BY ThreeWrites
<1>3. s1 \in Seq(Writes) /\ s2 \in Seq(Writes) /\ t \in Seq(Writes)
  BY <1>1, <1>2, Appended
<1>0. s1 = Append(s, w1) /\ s2 = Append(s1, w2)
  OBVIOUS
<1> HIDE DEF w1, w2, w3, s1, s2, t
<1>8. Final(t, f, d, base, k) <=>
        IF d = c /\ f # "lastSeen" THEN k = n ELSE Final(s, f, d, base, k)
  <2>1. Final(s1, f, d, base, k) <=> Final(s, f, d, base, k)
    BY <1>0, <1>1, AppendFinal
  <2>2. Final(s2, f, d, base, k) <=>
          IF "lastMessage" = f /\ c = d THEN n = k ELSE Final(s1, f, d, base, k)
    <3>1. Final(Append(s1, w2), f, d, base, k) <=>
            IF w2.field = f /\ w2.chat = d THEN w2.key = k ELSE Final(s1, f, d, base, k)
      BY <1>1, <1>3, AppendFinal
    <3>2. QED
      BY <1>0, <1>1, <3>1
  <2>3. Final(t, f, d, base, k) <=>
          IF "lastTimeStamp" = f /\ c = d THEN n = k ELSE Final(s2, f, d, base, k)
    BY <1>1, <1>2, <1>3, AppendFinal
  <2>4. QED
    BY <2>1, <2>2, <2>3 DEF Fields
<1>9. QED
  BY <1>8 DEF t

LEMMA SendEffect ==
  ASSUME RoomsInv, NEW u \in Users, NEW c \in Chats, Send(u, c), UNCHANGED server
  PROVE  /\ nextKey \in Keys
         /\ outbox' \in [Users -> Seq(Writes)]
         /\ WritesBacked'
         /\ \A v \in Users, d \in Chats : \A k : Holds(v, d, k)' <=>
              Holds(v, d, k) \/ (v = u /\ d = c /\ k = nextKey)
         /\ \A v \in Users, d \in Chats, f \in Fields \ {"lastSeen"} :
              Quiet(v, f, d)' <=> Quiet(v, f, d) /\ ~(v = u /\ d = c)
         /\ \A v \in Users, d \in Chats : \A k : SummaryBecomes(v, d, k)' <=>
              IF v = u /\ d = c THEN k = nextKey ELSE SummaryBecomes(v, d, k)
         /\ \A v \in Users, d \in Chats : \A k : StampBecomes(v, d, k)' <=>
              IF v = u /\ d = c THEN k = nextKey ELSE StampBecomes(v, d, k)
         /\ \A v \in Users, d \in Chats : \A k : SeenBecomes(v, d, k)' <=> SeenBecomes(v, d, k)
<1> DEFINE s == outbox[u]
           t == s \o SendWrites(c, nextKey)
<1>1. nextKey \in Keys /\ s \in Seq(Writes) /\ outbox \in [Users -> Seq(Writes)]
  BY DEF RoomsInv, TypeOK, Send
<1>2. outbox' = [outbox EXCEPT ![u] = t]
  BY DEF Send
<1>0. t = s \o SendWrites(c, nextKey)
  OBVIOUS
<1> HIDE DEF s, t
<1>3. /\ t \in Seq(Writes)
      /\ Completed(t)
      /\ \A st : Backed(s, st) => Backed(t, st)
      /\ \A S, d, k : Has(t, S, d, k) <=> Has(s, S, d, k) \/ (d = c /\ k = nextKey)
      /\ \A f \in Fields : \A d : Silent(t, f, d) <=>
           Silent(s, f, d) /\ ~(d = c /\ f # "lastSeen")
      /\ \A f \in Fields : \A d, base, k : f # "message" =>
           (Final(t, f, d, base, k) <=>
              IF d = c /\ f # "lastSeen" THEN k = nextKey ELSE Final(s, f, d, base, k))
  <2>1. t \in Seq(Writes) /\ Completed(t)
    BY <1>0, <1>1, SendTyped DEF RoomsInv, WritesBacked, s
  <2>2. \A st : Backed(s, st) => Backed(t, st)
    BY <1>0, <1>1, SendBacked
  <2>3. ASSUME NEW S, NEW d, NEW k
        PROVE  Has(t, S, d, k) <=> Has(s, S, d, k) \/ (d = c /\ k = nextKey)
    BY <1>0, <1>1, SendHas
  <2>4. ASSUME NEW f \in Fields, NEW d
        PROVE  Silent(t, f, d) <=> Silent(s, f, d) /\ ~(d = c /\ f # "lastSeen")
    BY <1>0, <1>1, SendSilent
  <2>5. ASSUME NEW f \in Fields, NEW d, NEW base, NEW k, f # "message"
        PROVE  Final(t, f, d, base, k) <=>
                 IF d = c /\ f # "lastSeen" THEN k = nextKey ELSE Final(s, f, d, base, k)
    BY <2>5, <1>0, <1>1, SendFinal
  <2>6. QED
    BY <2>1, <2>2, <2>3, <2>4, <2>5
<1>4. outbox'[u] = t /\ \A v \in Users : v # u => outbox'[v] = outbox[v]
  BY <1>1, <1>2
<1>5. outbox' \in [Users -> Seq(Writes)]
  BY <1>1, <1>2, <1>3
<1>6. /\ stored' = stored /\ lastMessage' = lastMessage
      /\ lastTimeStamp' = lastTimeStamp /\ lastSeen' = lastSeen
  BY DEF server
<1>7. WritesBacked'
  BY <1>3, <1>4, <1>6 DEF RoomsInv, WritesBacked, s
<1>8. ASSUME NEW v \in Users, NEW d \in Chats, NEW k
      PROVE  Holds(v, d, k)' <=> Holds(v, d, k) \/ (v = u /\ d = c /\ k = nextKey)
  BY <1>3, <1>4, <1>6 DEF Holds, s
<1>9. ASSUME NEW v \in Users, NEW d \in Chats, NEW f \in Fields \ {"lastSeen"}
      PROVE  Quiet(v, f, d)' <=> Quiet(v, f, d) /\ ~(v = u /\ d = c)
  BY <1>3, <1>4 DEF Quiet, s
<1>10. ASSUME NEW v \in Users, NEW d \in Chats, NEW k
       PROVE  /\ SummaryBecomes(v, d, k)' <=>
                   IF v = u /\ d = c THEN k = nextKey ELSE SummaryBecomes(v, d, k)
              /\ StampBecomes(v, d, k)' <=>
                   IF v = u /\ d = c THEN k = nextKey ELSE StampBecomes(v, d, k)
              /\ SeenBecomes(v, d, k)' <=> SeenBecomes(v, d, k)
  <2>1. "lastMessage" \in Fields /\ "lastTimeStamp" \in Fields /\ "lastSeen" \in Fields
    BY DEF Fields
  <2>2. QED
    BY <1>3, <1>4, <1>6, <2>1 DEF SummaryBecomes, StampBecomes, SeenBecomes, s
<1>11. QED
  BY <1>1, <1>5, <1>7, <1>8, <1>9, <1>10

(***************************************************************************)
(* A seen marker:                                                          *)
(***************************************************************************)
LEMMA MarkEffect ==
  ASSUME RoomsInv, NEW u \in Users, NEW c \in Chats, NEW key \in Keys,
         Holds(u, c, key), UNCHANGED server,
         outbox' = [outbox EXCEPT ![u] = Append(@, Write("lastSeen", c, key))]
  PROVE  /\ outbox' \in [Users -> Seq(Writes)]
         /\ WritesBacked'
         /\ \A v \in Users, d \in Chats : \A k : Holds(v, d, k)' <=> Holds(v, d, k)
         /\ \A v \in Users, d \in Chats, f \in Fields \ {"lastSeen"} :
              Quiet(v, f, d)' <=> Quiet(v, f, d)
         /\ \A v \in Users, d \in Chats : \A k :
              /\ SummaryBecomes(v, d, k)' <=> SummaryBecomes(v, d, k)
              /\ StampBecomes(v, d, k)' <=> StampBecomes(v, d, k)
         /\ \A v \in Users, d \in Chats : \A k : SeenBecomes(v, d, k)' <=>
              IF v = u /\ d = c THEN k = key ELSE SeenBecomes(v, d, k)
<1> DEFINE s == outbox[u]
           w == Write("lastSeen", c, key)
           t == Append(s, w)
<1>1. s \in Seq(Writes) /\ outbox \in [Users -> Seq(Writes)]
  BY DEF RoomsInv, TypeOK
<1>2. w \in Writes /\ w.field = "lastSeen" /\ w.chat = c /\ w.key = key
  BY DEF Write, Writes, Fields
<1>3. outbox'[u] = t /\ (\A v \in Users : v # u => outbox'[v] = outbox[v])
  BY <1>1
<1>4. t \in Seq(Writes)
  BY <1>1, <1>2, Appended
<1>5. outbox' \in [Users -> Seq(Writes)]
  BY <1>1, <1>4
<1>6. /\ stored' = stored /\ lastMessage' = lastMessage
      /\ lastTimeStamp' = lastTimeStamp /\ lastSeen' = lastSeen
  BY DEF server
<1> HIDE DEF w
<1>7. Backed(t, stored) /\ Completed(t)
  <2>1. Backed(s, stored) /\ Completed(s)
    BY DEF RoomsInv, WritesBacked
  <2>2. Has(s, stored[w.chat], w.chat, w.key)
    BY <1>2 DEF Holds
  <2>3. Backed(t, stored)
    BY <1>1, <1>2, <2>1, <2>2, AppendBacked
  <2>4. Completed(t)
    BY <1>1, <1>2, <2>1, AppendCompleted
  <2>5. QED
    BY <2>3, <2>4
<1>8. \A S, d, k : Has(t, S, d, k) <=> Has(s, S, d, k)
  BY <1>1, <1>2, AppendHas
<1>9. \A f \in Fields \ {"lastSeen"} : \A d : Silent(t, f, d) <=> Silent(s, f, d)
  BY <1>1, <1>2, AppendSilent
<1>10. \A f, d, base, k : Final(t, f, d, base, k) <=>
         IF f = "lastSeen" /\ d = c THEN k = key ELSE Final(s, f, d, base, k)
  BY <1>1, <1>2, AppendFinal
<1> HIDE DEF s, t
<1>11. WritesBacked'
  BY <1>3, <1>6, <1>7 DEF RoomsInv, WritesBacked
<1>12. ASSUME NEW v \in Users, NEW d \in Chats, NEW k
       PROVE  Holds(v, d, k)' <=> Holds(v, d, k)
  BY <1>3, <1>6, <1>8 DEF Holds, s
<1>13. ASSUME NEW v \in Users, NEW d \in Chats, NEW f \in Fields \ {"lastSeen"}
       PROVE  Quiet(v, f, d)' <=> Quiet(v, f, d)
  BY <1>3, <1>9 DEF Quiet, s
<1>14. ASSUME NEW v \in Users, NEW d \in Chats, NEW k
       PROVE  /\ SummaryBecomes(v, d, k)' <=> SummaryBecomes(v, d, k)
              /\ StampBecomes(v, d, k)' <=> StampBecomes(v, d, k)
              /\ SeenBecomes(v, d, k)' <=>
                   IF v = u /\ d = c THEN k = key ELSE SeenBecomes(v, d, k)
  <2>1. \A base : /\ Final(t, "lastMessage", d, base, k) <=> Final(s, "lastMessage", d, base, k)
                  /\ Final(t, "lastTimeStamp", d, base, k) <=> Final(s, "lastTimeStamp", d, base, k)
                  /\ Final(t, "lastSeen", d, base, k) <=>
                       IF d = c THEN k = key ELSE Final(s, "lastSeen", d, base, k)
    BY <1>10
  <2>2. QED
    BY <1>3, <1>6, <2>1 DEF SummaryBecomes, StampBecomes, SeenBecomes, s
<1>15. QED
  BY <1>5, <1>11, <1>12, <1>13, <1>14

(***************************************************************************)
(* The server applies a write.  The client that issued it sees no          *)
(* difference; the others hear of a message, and a summary replaces the    *)
(* one they have unless they have issued their own.                        *)
(***************************************************************************)
LEMMA ApplyEffect ==
  ASSUME RoomsInv, NEW u \in Users, Apply(u), NEW w, w = Head(outbox[u])
  PROVE  /\ w \in Writes
         /\ outbox' \in [Users -> Seq(Writes)]
         /\ stored' \in [Chats -> SUBSET Keys]
         /\ WritesBacked'
         /\ w.field # "message" => w.key \in stored[w.chat]
         /\ \A d \in Chats : stored'[d] =
              IF w.field = "message" /\ w.chat = d THEN stored[d] \union {w.key} ELSE stored[d]
         /\ \A d \in Chats : \A k : Holds(u, d, k)' <=> Holds(u, d, k)
         /\ \A v \in Users \ {u}, d \in Chats : \A k : Holds(v, d, k)' <=>
              Holds(v, d, k) \/ (w.field = "message" /\ w.chat = d /\ w.key = k)
         /\ \A d \in Chats, f \in Fields : Quiet(u, f, d) <=>
              Quiet(u, f, d)' /\ ~(w.field = f /\ w.chat = d)
         /\ \A v \in Users \ {u}, d \in Chats, f \in Fields : Quiet(v, f, d)' <=> Quiet(v, f, d)
         /\ \A d \in Chats : \A k :
              /\ SummaryBecomes(u, d, k)' <=> SummaryBecomes(u, d, k)
              /\ StampBecomes(u, d, k)' <=> StampBecomes(u, d, k)
         /\ \A v \in Users \ {u}, d \in Chats : \A k :
              /\ ~(w.field = "lastMessage" /\ w.chat = d) =>
                   (SummaryBecomes(v, d, k)' <=> SummaryBecomes(v, d, k))
              /\ ~(w.field = "lastTimeStamp" /\ w.chat = d) =>
                   (StampBecomes(v, d, k)' <=> StampBecomes(v, d, k))
              /\ SummaryBecomes(v, d, k)' => SummaryBecomes(v, d, k) \/ k = w.key
         /\ \A v \in Users, d \in Chats : \A k : SeenBecomes(v, d, k)' <=> SeenBecomes(v, d, k)
<1> DEFINE s == outbox[u]
           t == Tail(s)
<1>1. /\ outbox \in [Users -> Seq(Writes)] /\ stored \in [Chats -> SUBSET Keys]
      /\ lastMessage \in [Chats -> Keys \union {0}]
      /\ lastTimeStamp \in [Chats -> Keys \union {0}]
      /\ lastSeen \in [Chats -> [Users -> Keys \union {0}]]
      /\ s \in Seq(Writes)
  BY DEF RoomsInv, TypeOK
<1>2. s # <<>> /\ outbox' = [outbox EXCEPT ![u] = t]
  BY DEF Apply
<1>3. w \in Writes /\ t \in Seq(Writes) /\ w = Head(s)
  BY <1>1, <1>2, Tailed
<1>4. w.chat \in Chats /\ w.key \in Keys /\ w.field \in Fields
  BY <1>3 DEF Writes
<1>5. /\ outbox'[u] = t
      /\ \A v \in Users : v # u => outbox'[v] = outbox[v]
      /\ outbox' \in [Users -> Seq(Writes)]
  BY <1>1, <1>2, <1>3
<1>6. /\ stored' = IF w.field # "message" THEN stored
                   ELSE [stored EXCEPT ![w.chat] = @ \union {w.key}]
      /\ lastMessage' = IF w.field # "lastMessage" THEN lastMessage
                        ELSE [lastMessage EXCEPT ![w.chat] = w.key]
      /\ lastTimeStamp' = IF w.field # "lastTimeStamp" THEN lastTimeStamp
                          ELSE [lastTimeStamp EXCEPT ![w.chat] = w.key]
      /\ lastSeen' = IF w.field # "lastSeen" THEN lastSeen
                     ELSE [lastSeen EXCEPT ![w.chat][u] = w.key]
  BY DEF Apply
<1>7. stored' \in [Chats -> SUBSET Keys]
  BY <1>1, <1>4, <1>6
<1>8. \A d \in Chats : stored'[d] =
        IF w.field = "message" /\ w.chat = d THEN stored[d] \union {w.key} ELSE stored[d]
  BY <1>1, <1>4, <1>6
<1>9. \A d \in Chats :
        /\ lastMessage'[d] =
             IF w.field = "lastMessage" /\ w.chat = d THEN w.key ELSE lastMessage[d]
        /\ lastTimeStamp'[d] =
             IF w.field = "lastTimeStamp" /\ w.chat = d THEN w.key ELSE lastTimeStamp[d]
  BY <1>1, <1>4, <1>6
<1>10. \A d \in Chats, v \in Users : lastSeen'[d][v] =
         IF w.field = "lastSeen" /\ w.chat = d /\ v = u THEN w.key ELSE lastSeen[d][v]
  BY <1>1, <1>4, <1>6
<1>11. Backed(s, stored) /\ Completed(s)
  BY DEF RoomsInv, WritesBacked
<1>12. \A d : stored[d] \subseteq stored'[d]
  <2>1. CASE w.field # "message"
    BY <1>6, <2>1
  <2>2. CASE w.field = "message"
    <3>1. DOMAIN stored' = DOMAIN stored
      BY <1>1, <1>7
    <3>2. stored' = [stored EXCEPT ![w.chat] = @ \union {w.key}]
      BY <1>6, <2>2
    <3>3. QED
      BY <1>1, <1>8, <3>2
  <2>3. QED
    BY <2>1, <2>2
<1> HIDE DEF s, t
<1>13. Backed(t, stored') /\ Completed(t) /\ (w.field # "message" => w.key \in stored[w.chat])
  <2>1. Head(s).field = "message" => Head(s).key \in stored'[Head(s).chat]
    BY <1>3, <1>4, <1>8
  <2>2. Backed(t, stored') /\ (w.field # "message" => w.key \in stored[w.chat])
    BY <1>1, <1>2, <1>3, <1>11, <1>12, <2>1, TailBacked DEF t
  <2>3. Completed(t)
    BY <1>1, <1>2, <1>11, TailCompleted DEF t
  <2>4. QED
    BY <2>2, <2>3
<1>14. WritesBacked'
  <2>1. ASSUME NEW v \in Users, v # u PROVE Backed(outbox[v], stored')
    BY <1>12 DEF RoomsInv, WritesBacked, Backed
  <2>2. QED
    BY <1>5, <1>13, <2>1 DEF RoomsInv, WritesBacked
<1>15. \A d \in Chats : \A k : Holds(u, d, k)' <=> Holds(u, d, k)
  <2> SUFFICES ASSUME NEW d \in Chats, NEW k PROVE Holds(u, d, k)' <=> Holds(u, d, k)
    OBVIOUS
  <2>1. stored'[d] = IF Head(s).field = "message" /\ Head(s).chat = d
                     THEN stored[d] \union {Head(s).key} ELSE stored[d]
    BY <1>3, <1>8
  <2>2. Has(Tail(s), stored'[d], d, k) <=> Has(s, stored[d], d, k)
    BY <1>1, <1>2, <2>1, TailHas
  <2>3. QED
    BY <1>5, <2>2 DEF Holds, s, t
<1>16. \A v \in Users \ {u}, d \in Chats : \A k : Holds(v, d, k)' <=>
         Holds(v, d, k) \/ (w.field = "message" /\ w.chat = d /\ w.key = k)
  BY <1>5, <1>8 DEF Holds, Has
<1>17. \A d \in Chats, f \in Fields : Quiet(u, f, d) <=>
         Quiet(u, f, d)' /\ ~(w.field = f /\ w.chat = d)
  <2> SUFFICES ASSUME NEW d \in Chats, NEW f \in Fields
               PROVE  Quiet(u, f, d) <=> Quiet(u, f, d)' /\ ~(w.field = f /\ w.chat = d)
    OBVIOUS
  <2>1. Silent(s, f, d) <=> Silent(Tail(s), f, d) /\ ~(Head(s).field = f /\ Head(s).chat = d)
    BY <1>1, <1>2, TailSilent
  <2>2. QED
    BY <1>3, <1>5, <2>1 DEF Quiet, s, t
<1>18. \A v \in Users \ {u}, d \in Chats, f \in Fields : Quiet(v, f, d)' <=> Quiet(v, f, d)
  BY <1>5 DEF Quiet
<1>19. ASSUME NEW f, NEW d, NEW base, NEW base2, NEW k,
              base2 = IF w.field = f /\ w.chat = d THEN w.key ELSE base
       PROVE  Final(t, f, d, base2, k) <=> Final(s, f, d, base, k)
  BY <1>1, <1>2, <1>3, <1>19, TailFinal DEF t
<1>20. ASSUME NEW d \in Chats, NEW k
       PROVE  /\ SummaryBecomes(u, d, k)' <=> SummaryBecomes(u, d, k)
              /\ StampBecomes(u, d, k)' <=> StampBecomes(u, d, k)
              /\ SeenBecomes(u, d, k)' <=> SeenBecomes(u, d, k)
  <2>1. Final(t, "lastMessage", d, lastMessage'[d], k) <=>
          Final(s, "lastMessage", d, lastMessage[d], k)
    BY <1>9, <1>19
  <2>2. Final(t, "lastTimeStamp", d, lastTimeStamp'[d], k) <=>
          Final(s, "lastTimeStamp", d, lastTimeStamp[d], k)
    BY <1>9, <1>19
  <2>3. Final(t, "lastSeen", d, lastSeen'[d][u], k) <=>
          Final(s, "lastSeen", d, lastSeen[d][u], k)
    BY <1>10, <1>19
  <2>4. QED
    BY <1>5, <2>1, <2>2, <2>3 DEF SummaryBecomes, StampBecomes, SeenBecomes, s
<1>21. ASSUME NEW v \in Users \ {u}, NEW d \in Chats, NEW k
       PROVE  /\ ~(w.field = "lastMessage" /\ w.chat = d) =>
                   (SummaryBecomes(v, d, k)' <=> SummaryBecomes(v, d, k))
              /\ ~(w.field = "lastTimeStamp" /\ w.chat = d) =>
                   (StampBecomes(v, d, k)' <=> StampBecomes(v, d, k))
              /\ SummaryBecomes(v, d, k)' => SummaryBecomes(v, d, k) \/ k = w.key
              /\ SeenBecomes(v, d, k)' <=> SeenBecomes(v, d, k)
  <2>1. outbox'[v] = outbox[v] /\ v \in Users /\ v # u
    BY <1>5
  <2>2. ~(w.field = "lastMessage" /\ w.chat = d) =>
          (SummaryBecomes(v, d, k)' <=> SummaryBecomes(v, d, k))
    BY <1>9, <2>1 DEF SummaryBecomes
  <2>3. ~(w.field = "lastTimeStamp" /\ w.chat = d) =>
          (StampBecomes(v, d, k)' <=> StampBecomes(v, d, k))
    BY <1>9, <2>1 DEF StampBecomes
  <2>4. SummaryBecomes(v, d, k)' => SummaryBecomes(v, d, k) \/ k = w.key
    BY <1>9, <2>1 DEF SummaryBecomes, Final
  <2>5. SeenBecomes(v, d, k)' <=> SeenBecomes(v, d, k)
    BY <1>10, <2>1 DEF SeenBecomes
  <2>6. QED
    BY <2>2, <2>3, <2>4, <2>5
<1>22. \A v \in Users, d \in Chats : \A k : SeenBecomes(v, d, k)' <=> SeenBecomes(v, d, k)
  BY <1>20, <1>21
<1>23. QED
  BY <1>3, <1>5, <1>7, <1>8, <1>13, <1>14, <1>15, <1>16, <1>17, <1>18, <1>20, <1>21, <1>22

(***************************************************************************)
(* A client dies, and its writes with it:                                  *)
(***************************************************************************)
LEMMA CrashEffect ==
  ASSUME RoomsInv, NEW u \in Users, Crash(u)
  PROVE  /\ outbox' \in [Users -> Seq(Writes)]
         /\ WritesBacked'
         /\ \A v \in Users, d \in Chats : \A k : Holds(v, d, k)' => Holds(v, d, k)
         /\ \A v \in Users \ {u}, d \in Chats : \A k : Holds(v, d, k)' <=> Holds(v, d, k)
         /\ \A d \in Chats, f \in Fields : Quiet(u, f, d)'
         /\ \A d \in Chats : Quiet(u, "message", d) =>
              \A k : Holds(u, d, k)' <=> Holds(u, d, k)
         /\ \A d \in Chats : \A k : Quiet(u, "lastMessage", d) =>
              (SummaryBecomes(u, d, k)' <=> SummaryBecomes(u, d, k))
         /\ \A d \in Chats : \A k : Quiet(u, "lastTimeStamp", d) =>
              (StampBecomes(u, d, k)' <=> StampBecomes(u, d, k))
         /\ \A v \in Users \ {u}, d \in Chats, f \in Fields : Quiet(v, f, d)' <=> Quiet(v, f, d)
         /\ \A v \in Users \ {u}, d \in Chats : \A k :
              /\ SummaryBecomes(v, d, k)' <=> SummaryBecomes(v, d, k)
              /\ StampBecomes(v, d, k)' <=> StampBecomes(v, d, k)
              /\ SeenBecomes(v, d, k)' <=> SeenBecomes(v, d, k)
<1>1. outbox \in [Users -> Seq(Writes)]
  BY DEF RoomsInv, TypeOK
<1>2. <<>> \in Seq(Writes) /\ Len(<<>>) = 0 /\ \A i \in 1..Len(<<>>) : FALSE
  OBVIOUS
<1>3. outbox' = [outbox EXCEPT ![u] = <<>>]
  BY DEF Crash
<1>4. /\ outbox'[u] = <<>> /\ outbox' \in [Users -> Seq(Writes)]
      /\ \A v \in Users \ {u} : outbox'[v] = outbox[v]
  BY <1>1, <1>2, <1>3
<1>5. /\ stored' = stored /\ lastMessage' = lastMessage
      /\ lastTimeStamp' = lastTimeStamp /\ lastSeen' = lastSeen
  BY DEF Crash, server
<1>6. /\ \A f, d : Silent(<<>>, f, d)
      /\ \A S, d, k : Has(<<>>, S, d, k) <=> k \in S
      /\ \A st : Backed(<<>>, st)
      /\ Completed(<<>>)
      /\ \A f, d, base, k : Final(<<>>, f, d, base, k) <=> base = k
  BY <1>2 DEF Silent, Has, Backed, Completed, Final
<1>7. WritesBacked'
  BY <1>4, <1>5, <1>6 DEF RoomsInv, WritesBacked
<1>8. \A v \in Users \ {u}, d \in Chats : \A k : Holds(v, d, k)' <=> Holds(v, d, k)
  BY <1>4, <1>5 DEF Holds
<1>9. \A d \in Chats : \A k : Holds(u, d, k)' <=> k \in stored[d]
  BY <1>4, <1>5, <1>6 DEF Holds
<1>10. \A d \in Chats : \A k : Holds(u, d, k)' => Holds(u, d, k)
  BY <1>9 DEF Holds, Has
<1>11. \A d \in Chats : Quiet(u, "message", d) => \A k : Holds(u, d, k)' <=> Holds(u, d, k)
  BY <1>9 DEF Holds, Has, Quiet, Silent
<1>12. \A d \in Chats, f \in Fields : Quiet(u, f, d)'
  BY <1>4, <1>6 DEF Quiet
<1>13. \A d \in Chats : \A k :
         /\ Quiet(u, "lastMessage", d) =>
              (SummaryBecomes(u, d, k)' <=> SummaryBecomes(u, d, k))
         /\ Quiet(u, "lastTimeStamp", d) =>
              (StampBecomes(u, d, k)' <=> StampBecomes(u, d, k))
  <2> SUFFICES ASSUME NEW d \in Chats, NEW k
               PROVE  /\ Quiet(u, "lastMessage", d) =>
                           (SummaryBecomes(u, d, k)' <=> SummaryBecomes(u, d, k))
                      /\ Quiet(u, "lastTimeStamp", d) =>
                           (StampBecomes(u, d, k)' <=> StampBecomes(u, d, k))
    OBVIOUS
  <2>1. SummaryBecomes(u, d, k)' <=> lastMessage[d] = k
    BY <1>4, <1>5, <1>6 DEF SummaryBecomes
  <2>2. StampBecomes(u, d, k)' <=> lastTimeStamp[d] = k
    BY <1>4, <1>5, <1>6 DEF StampBecomes
  <2>3. Quiet(u, "lastMessage", d) => (SummaryBecomes(u, d, k) <=> lastMessage[d] = k)
    BY DEF SummaryBecomes, Final, Quiet, Silent
  <2>4. Quiet(u, "lastTimeStamp", d) => (StampBecomes(u, d, k) <=> lastTimeStamp[d] = k)
    BY DEF StampBecomes, Final, Quiet, Silent
  <2>5. QED
    BY <2>1, <2>2, <2>3, <2>4
<1>14. \A v \in Users \ {u}, d \in Chats, f \in Fields : Quiet(v, f, d)' <=> Quiet(v, f, d)
  BY <1>4 DEF Quiet
<1>15. \A v \in Users \ {u}, d \in Chats : \A k :
         /\ SummaryBecomes(v, d, k)' <=> SummaryBecomes(v, d, k)
         /\ StampBecomes(v, d, k)' <=> StampBecomes(v, d, k)
         /\ SeenBecomes(v, d, k)' <=> SeenBecomes(v, d, k)
  BY <1>4, <1>5 DEF SummaryBecomes, StampBecomes, SeenBecomes
<1>16. QED
  BY <1>4, <1>7, <1>8, <1>10, <1>11, <1>12, <1>13, <1>14, <1>15

-----------------------------------------------------------------------------
(***************************************************************************)
(* RoomsInv is inductive.                                                  *)
(***************************************************************************)
LEMMA RoomsInitially == Init => RoomsInv /\ SummaryInv /\ SeenInv
<1> SUFFICES ASSUME Init PROVE RoomsInv /\ SummaryInv /\ SeenInv
  OBVIOUS
<1>1. /\ <<>> \in Seq(Writes) /\ <<>> \in Seq(Keys)
      /\ Len(<<>>) = 0 /\ \A i \in 1..Len(<<>>) : FALSE
  OBVIOUS
<1>2. 1 \in 1..(MaxKey + 1)
  BY ChatRoomsAssumption
<1>3. TypeOK
  BY <1>1, <1>2 DEF Init, TypeOK
<1>4. NoDanglingKeys
  BY DEF Init, NoDanglingKeys
<1>5. \A u \in Users : outbox[u] = <<>> /\ events[u] = <<>> /\ open[u] = NoKey
  BY DEF Init
<1>6. \A u \in Users, c \in Chats : \A k : ~Holds(u, c, k)
  BY <1>1, <1>5 DEF Init, Holds, Has
<1>7. WritesBacked
  BY <1>1, <1>5 DEF WritesBacked, Backed, Completed
<1>8. KeysUsed /\ EventsHeld
  BY <1>5, <1>6, ChatRoomsAssumption DEF KeysUsed, EventsHeld
<1>9. TilesHeld
  BY DEF TilesHeld, Init, Keys
<1>10. \A u \in Users, c \in Chats : ~Sending(u, c)
  BY <1>1, <1>5 DEF Sending, Quiet, Silent
<1>11. SummaryInv
  BY <1>6, <1>10 DEF SummaryInv, SummaryAt, NewestIs
<1>12. SeenInv
  BY <1>5, ChatRoomsAssumption DEF SeenInv
<1>13. QED
  BY <1>3, <1>4, <1>7, <1>8, <1>9, <1>11, <1>12 DEF RoomsInv

LEMMA RoomsSend ==
  ASSUME RoomsInv, NEW u \in Users, NEW c \in Chats, Send(u, c),
         UNCHANGED <<server, open, tiles, backdated>>,
         upload' \in [Users -> Chats \union {NoKey}]
  PROVE  RoomsInv'
<1>1. UNCHANGED server
  OBVIOUS
<1>2. /\ nextKey \in Keys /\ nextKey' = nextKey + 1 /\ nextKey' \in 1..(MaxKey + 1)
  BY ChatRoomsAssumption DEF Send, Keys
<1>3. events \in [Users -> Seq(Keys)] /\ open \in [Users -> Chats \union {NoKey}]
  BY DEF RoomsInv, TypeOK
<1>4. TypeOK'
  <2>1. events' \in [Users -> Seq(Keys)]
    BY <1>2, <1>3 DEF Send
  <2>2. torn' \subseteq Chats
    BY DEF Send, RoomsInv, TypeOK
  <2>3. outbox' \in [Users -> Seq(Writes)]
    BY <1>1, SendEffect
  <2>4. QED
    BY <1>2, <2>1, <2>2, <2>3 DEF RoomsInv, TypeOK, server
<1>5. NoDanglingKeys'
  BY DEF RoomsInv, NoDanglingKeys, server
<1>6. WritesBacked'
  BY <1>1, SendEffect
<1>7. \A v \in Users, d \in Chats : \A k : Holds(v, d, k)' <=>
        Holds(v, d, k) \/ (v = u /\ d = c /\ k = nextKey)
  BY <1>1, SendEffect
<1>8. KeysUsed'
  <2>1. KeysUsed
    BY DEF RoomsInv
  <2>2. QED
    BY <1>2, <1>7, <2>1 DEF KeysUsed, Keys
<1>9. EventsHeld'
  <2>1. EventsHeld
    BY DEF RoomsInv
  <2>2. ASSUME NEW v \in Users
        PROVE  /\ events'[v] # <<>> => open'[v] # NoKey
               /\ \A d \in Chats, k \in Keys :
                    open'[v] = d /\ In(events'[v], k) => Holds(v, d, k)'
    <3>1. CASE events'[v] = events[v]
      BY <1>7, <2>1, <3>1 DEF EventsHeld
    <3>2. CASE events'[v] # events[v]
      <4>1. v = u /\ open[u] = c /\ events'[u] = Append(events[u], nextKey)
        BY <1>3, <3>2 DEF Send
      <4>2. events[u] \in Seq(Keys)
        BY <1>3
      <4>3. \A k : In(events'[u], k) <=> In(events[u], k) \/ k = nextKey
        BY <1>2, <4>1, <4>2, EventAdded
      <4>4. QED
        BY <1>7, <2>1, <4>1, <4>3, ChatRoomsAssumption DEF EventsHeld
    <3>3. QED
      BY <3>1, <3>2
  <2>3. QED
    BY <2>2 DEF EventsHeld
<1>10. TilesHeld'
  <2>1. TilesHeld
    BY DEF RoomsInv
  <2>2. \A v \in Users, d \in Chats : SummaryBecomes(v, d, 0)' => SummaryBecomes(v, d, 0)
    BY <1>1, <1>2, SendEffect DEF Keys
  <2>3. QED
    BY <1>7, <2>1, <2>2 DEF TilesHeld
<1>11. QED
  BY <1>4, <1>5, <1>6, <1>8, <1>9, <1>10 DEF RoomsInv

\* A step that writes nothing:
LEMMA NothingWritten ==
  ASSUME RoomsInv, UNCHANGED <<server, outbox, nextKey>>
  PROVE  /\ NoDanglingKeys' /\ WritesBacked' /\ KeysUsed'
         /\ \A v \in Users, d \in Chats : \A k : Holds(v, d, k)' <=> Holds(v, d, k)
         /\ \A v \in Users, d \in Chats, f \in Fields : Quiet(v, f, d)' <=> Quiet(v, f, d)
         /\ \A v \in Users, d \in Chats : \A k :
              /\ SummaryBecomes(v, d, k)' <=> SummaryBecomes(v, d, k)
              /\ StampBecomes(v, d, k)' <=> StampBecomes(v, d, k)
              /\ SeenBecomes(v, d, k)' <=> SeenBecomes(v, d, k)
<1>1. /\ outbox' = outbox /\ stored' = stored /\ nextKey' = nextKey
      /\ lastMessage' = lastMessage /\ lastTimeStamp' = lastTimeStamp /\ lastSeen' = lastSeen
  BY DEF server
<1>2. NoDanglingKeys' /\ WritesBacked'
  BY <1>1 DEF RoomsInv, NoDanglingKeys, WritesBacked
<1>3. \A v \in Users, d \in Chats : \A k : Holds(v, d, k)' <=> Holds(v, d, k)
  BY <1>1 DEF Holds
<1>4. \A v \in Users, d \in Chats, f \in Fields : Quiet(v, f, d)' <=> Quiet(v, f, d)
  BY <1>1 DEF Quiet
<1>5. \A v \in Users, d \in Chats : \A k :
        /\ SummaryBecomes(v, d, k)' <=> SummaryBecomes(v, d, k)
        /\ StampBecomes(v, d, k)' <=> StampBecomes(v, d, k)
        /\ SeenBecomes(v, d, k)' <=> SeenBecomes(v, d, k)
  BY <1>1 DEF SummaryBecomes, StampBecomes, SeenBecomes
<1>6. KeysUsed'
  BY <1>1, <1>3 DEF RoomsInv, KeysUsed
<1>7. QED
  BY <1>2, <1>3, <1>4, <1>5, <1>6

\* A seen marker is written, as the window and the tap do:
LEMMA RoomsMark ==
  ASSUME RoomsInv, NEW u \in Users, NEW c \in Chats, NEW key \in Keys,
         Holds(u, c, key), UNCHANGED <<server, nextKey, upload, tiles, torn>>,
         outbox' = [outbox EXCEPT ![u] = Append(@, Write("lastSeen", c, key))],
         events' \in [Users -> Seq(Keys)], open' \in [Users -> Chats \union {NoKey}],
         backdated' \subseteq Users \X Chats
  PROVE  /\ TypeOK' /\ NoDanglingKeys' /\ WritesBacked' /\ KeysUsed' /\ TilesHeld'
<1>1. UNCHANGED server
  OBVIOUS
<1>2. /\ outbox' \in [Users -> Seq(Writes)] /\ WritesBacked'
      /\ \A v \in Users, d \in Chats : \A k : Holds(v, d, k)' <=> Holds(v, d, k)
      /\ \A v \in Users, d \in Chats : \A k : SummaryBecomes(v, d, k)' <=> SummaryBecomes(v, d, k)
  BY <1>1, MarkEffect
<1>3. TypeOK'
  BY <1>2 DEF RoomsInv, TypeOK, server
<1>4. NoDanglingKeys'
  BY DEF RoomsInv, NoDanglingKeys, server
<1>5. KeysUsed'
  BY <1>2 DEF RoomsInv, KeysUsed
<1>6. TilesHeld'
  BY <1>2 DEF RoomsInv, TilesHeld
<1>7. QED
  BY <1>2, <1>3, <1>4, <1>5, <1>6

LEMMA RoomsHear == ASSUME RoomsInv, NEW u \in Users, Hear(u) PROVE RoomsInv'
<1> DEFINE key == Head(events[u])
           c == open[u]
<1>1. /\ events \in [Users -> Seq(Keys)] /\ events[u] \in Seq(Keys)
      /\ open \in [Users -> Chats \union {NoKey}] /\ EventsHeld
  BY DEF RoomsInv, TypeOK
<1>2. events[u] # <<>> /\ events' = [events EXCEPT ![u] = Tail(@)] /\ open' = open
  BY DEF Hear
<1>3. c \in Chats
  BY <1>1, <1>2 DEF EventsHeld
<1>4. Tail(events[u]) \in Seq(Keys) /\ key \in Keys /\ In(events[u], key)
  BY <1>1, <1>2, EventHeard
<1>5. events' \in [Users -> Seq(Keys)]
  BY <1>1, <1>2, <1>4
<1>6. UNCHANGED <<server, nextKey, upload, tiles, torn>>
        /\ outbox' = [outbox EXCEPT ![u] = Append(@, Write("lastSeen", c, key))]
        /\ backdated' \subseteq Users \X Chats
  BY DEF Hear, RoomsInv, TypeOK
<1> HIDE DEF key, c
<1>7. Holds(u, c, key)
  BY <1>1, <1>3, <1>4 DEF EventsHeld, c
<1>8. TypeOK' /\ NoDanglingKeys' /\ WritesBacked' /\ KeysUsed' /\ TilesHeld'
  BY <1>1, <1>2, <1>3, <1>4, <1>5, <1>6, <1>7, RoomsMark
<1>9. \A v \in Users, d \in Chats : \A k : Holds(v, d, k)' <=> Holds(v, d, k)
  BY <1>3, <1>4, <1>6, <1>7, MarkEffect
<1>10. \A v \in Users, k \in Keys : In(events'[v], k) => In(events[v], k)
  <2> SUFFICES ASSUME NEW v \in Users, NEW k \in Keys, In(events'[v], k)
               PROVE  In(events[v], k)
    OBVIOUS
  <2>1. CASE v = u
    BY <1>1, <1>2, <2>1, EventHeard
  <2>2. CASE v # u
    BY <1>1, <1>2, <2>2
  <2>3. QED
    BY <2>1, <2>2
<1>11. \A v \in Users : events'[v] # <<>> => events[v] # <<>>
  BY <1>1, <1>2
<1>12. EventsHeld'
  BY <1>1, <1>2, <1>9, <1>10, <1>11 DEF EventsHeld
<1>13. QED
  BY <1>8, <1>12 DEF RoomsInv

\* What a tap does to the window, and the marker it writes.
LEMMA TapEvents ==
  ASSUME RoomsInv, NEW u \in Users, NEW c \in Chats, Tap(u, c)
  PROVE  /\ events' \in [Users -> Seq(Keys)]
         /\ \A v \in Users \ {u} : events'[v] = events[v] /\ open'[v] = open[v]
         /\ open'[u] = c /\ open' \in [Users -> Chats \union {NoKey}]
         /\ open[u] = c => events'[u] = events[u]
         /\ open[u] # c =>
              /\ \A k : In(events'[u], k) => NewestIs(u, c, k)
              /\ \A k : Ends(events'[u], k) => NewestIs(u, c, k)
              /\ events'[u] = <<>> => \A k : ~Holds(u, c, k)
<1>1. TypeOK
  BY DEF RoomsInv
<1>2. events \in [Users -> Seq(Keys)] /\ open \in [Users -> Chats \union {NoKey}]
  BY <1>1 DEF TypeOK
<1>3. open' = [open EXCEPT ![u] = c]
  BY DEF Tap
<1>4. /\ \A v \in Users \ {u} : open'[v] = open[v]
      /\ open'[u] = c /\ open' \in [Users -> Chats \union {NoKey}]
  BY <1>2, <1>3
<1>5. \A q \in Seq(Keys) : q = <<>> <=> Len(q) = 0
  BY EmptySeq
<1>6. <<>> \in Seq(Keys)
  OBVIOUS
<1>7. CASE open[u] # c /\ Known(u, c) # {}
  <2>1. PICK n \in Newest(Known(u, c)) : events' = [events EXCEPT ![u] = <<n>>]
    BY <1>7 DEF Tap
  <2>2. NewestIs(u, c, n) /\ n \in Keys
    BY <1>1, <2>1, Terms DEF NewestIs
  <2>3. <<n>> \in Seq(Keys) /\ Len(<<n>>) = 1 /\ <<n>>[1] = n
    BY <2>2
  <2>4. /\ events' \in [Users -> Seq(Keys)] /\ events'[u] = <<n>>
        /\ \A v \in Users \ {u} : events'[v] = events[v]
    BY <1>2, <2>1, <2>3
  <2>5. \A k : (In(events'[u], k) => k = n) /\ (Ends(events'[u], k) => k = n)
    BY <2>3, <2>4 DEF In, Ends
  <2>6. events'[u] # <<>>
    BY <1>5, <2>3, <2>4
  <2>7. QED
    BY <1>4, <1>7, <2>2, <2>4, <2>5, <2>6
<1>8. CASE open[u] # c /\ Known(u, c) = {}
  <2>1. events' = [events EXCEPT ![u] = <<>>]
    BY <1>8 DEF Tap
  <2>2. /\ events' \in [Users -> Seq(Keys)] /\ events'[u] = <<>>
        /\ \A v \in Users \ {u} : events'[v] = events[v]
    BY <1>2, <1>6, <2>1
  <2>3. \A k : ~In(<<>>, k) /\ ~Ends(<<>>, k)
    BY <1>5, <1>6 DEF In, Ends
  <2>4. \A k : ~Holds(u, c, k)
    BY <1>1, <1>8, Terms
  <2>5. QED
    BY <1>4, <1>8, <2>2, <2>3, <2>4
<1>9. CASE open[u] = c
  <2>1. events' = events
    BY <1>9 DEF Tap
  <2>2. QED
    BY <1>2, <1>4, <1>9, <2>1
<1>10. QED
  BY <1>7, <1>8, <1>9

LEMMA RoomsTap ==
  ASSUME RoomsInv, NEW u \in Users, NEW c \in Chats, Tap(u, c) PROVE RoomsInv'
<1>1. /\ events' \in [Users -> Seq(Keys)]
      /\ \A v \in Users \ {u} : events'[v] = events[v] /\ open'[v] = open[v]
      /\ open'[u] = c /\ open' \in [Users -> Chats \union {NoKey}]
      /\ open[u] = c => events'[u] = events[u]
      /\ open[u] # c => \A k : In(events'[u], k) => NewestIs(u, c, k)
  BY TapEvents
<1>2. UNCHANGED <<server, nextKey, upload, tiles, torn>>
  BY DEF Tap
<1>3. backdated' \subseteq Users \X Chats
  BY DEF Tap, RoomsInv, TypeOK
<1>4. /\ TypeOK' /\ NoDanglingKeys' /\ WritesBacked' /\ KeysUsed' /\ TilesHeld'
      /\ \A v \in Users, d \in Chats : \A k : Holds(v, d, k)' <=> Holds(v, d, k)
  <2>1. CASE tiles[u][c] = 0
    <3>1. outbox' = outbox
      BY <2>1 DEF Tap
    <3>2. UNCHANGED <<server, outbox, nextKey>>
      BY <1>2, <3>1
    <3>3. /\ NoDanglingKeys' /\ WritesBacked' /\ KeysUsed'
          /\ \A v \in Users, d \in Chats : \A k : Holds(v, d, k)' <=> Holds(v, d, k)
          /\ \A v \in Users, d \in Chats : \A k : SummaryBecomes(v, d, k)' <=> SummaryBecomes(v, d, k)
      BY <3>2, NothingWritten
    <3>4. TypeOK'
      BY <1>1, <1>2, <1>3, <3>1 DEF RoomsInv, TypeOK, server
    <3>5. TilesHeld'
      BY <1>2, <3>3 DEF RoomsInv, TilesHeld
    <3>6. QED
      BY <3>3, <3>4, <3>5
  <2>2. CASE tiles[u][c] # 0
    <3> DEFINE key == tiles[u][c]
    <3>1. outbox' = [outbox EXCEPT ![u] = Append(@, Write("lastSeen", c, key))]
      BY <2>2 DEF Tap
    <3>2. key \in Keys
      BY <2>2 DEF RoomsInv, TypeOK
    <3>3. Holds(u, c, key)
      BY <3>2 DEF RoomsInv, TilesHeld
    <3> HIDE DEF key
    <3>4. TypeOK' /\ NoDanglingKeys' /\ WritesBacked' /\ KeysUsed' /\ TilesHeld'
      BY <1>1, <1>2, <1>3, <3>1, <3>2, <3>3, RoomsMark
    <3>5. \A v \in Users, d \in Chats : \A k : Holds(v, d, k)' <=> Holds(v, d, k)
      BY <1>2, <3>1, <3>2, <3>3, MarkEffect
    <3>6. QED
      BY <3>4, <3>5
  <2>3. QED
    BY <2>1, <2>2
<1>5. EventsHeld'
  <2>1. EventsHeld
    BY DEF RoomsInv
  <2>2. ASSUME NEW v \in Users
        PROVE  /\ events'[v] # <<>> => open'[v] # NoKey
               /\ \A d \in Chats, k \in Keys :
                    open'[v] = d /\ In(events'[v], k) => Holds(v, d, k)'
    BY <1>1, <1>4, <2>1, ChatRoomsAssumption DEF EventsHeld, NewestIs
  <2>3. QED
    BY <2>2 DEF EventsHeld
<1>6. QED
  BY <1>4, <1>5 DEF RoomsInv

\* The events a message raises when it is stored.
LEMMA ApplyEvents ==
  ASSUME RoomsInv, NEW u \in Users, Apply(u), NEW w, w = Head(outbox[u]), NEW v \in Users
  PROVE  /\ events' \in [Users -> Seq(Keys)]
         /\ \/ events'[v] = events[v]
            \/ /\ w.field = "message" /\ v # u /\ open[v] = w.chat
               /\ \A j \in Known(v, w.chat) : j < w.key
               /\ events'[v] = Append(events[v], w.key)
         /\ events'[v] = events[v] /\ w.field = "message" /\ v # u /\ open[v] = w.chat =>
              \E j \in Known(v, w.chat) : ~(j < w.key)
<1>1. events \in [Users -> Seq(Keys)]
  BY DEF RoomsInv, TypeOK
<1>2. w \in Writes
  BY ApplyEffect
<1>3. w.key \in Keys
  BY <1>2 DEF Writes
<1>4. events' = [x \in Users |->
        IF /\ w.field = "message" /\ x # u /\ open[x] = w.chat
           /\ \A j \in Known(x, w.chat) : j < w.key
        THEN Append(events[x], w.key)
        ELSE events[x]]
  BY DEF Apply
<1>5. \A x \in Users : events[x] \in Seq(Keys) /\ Append(events[x], w.key) \in Seq(Keys)
  BY <1>1, <1>3
<1>6. events' \in [Users -> Seq(Keys)]
  BY <1>4, <1>5
<1>7. events'[v] = IF /\ w.field = "message" /\ v # u /\ open[v] = w.chat
                      /\ \A j \in Known(v, w.chat) : j < w.key
                   THEN Append(events[v], w.key)
                   ELSE events[v]
  BY <1>4
<1>8. Append(events[v], w.key) # events[v]
  <2>1. Len(Append(events[v], w.key)) = Len(events[v]) + 1 /\ Len(events[v]) \in Nat
    BY <1>1, <1>3
  <2>2. QED
    BY <2>1
<1>9. QED
  BY <1>6, <1>7, <1>8

LEMMA RoomsApply == ASSUME RoomsInv, NEW u \in Users, Apply(u) PROVE RoomsInv'
<1> DEFINE w == Head(outbox[u])
<1>0. w = Head(outbox[u])
  OBVIOUS
<1> HIDE DEF w
<1>1. /\ w \in Writes
      /\ outbox' \in [Users -> Seq(Writes)]
      /\ stored' \in [Chats -> SUBSET Keys]
      /\ WritesBacked'
      /\ w.field # "message" => w.key \in stored[w.chat]
  BY <1>0, ApplyEffect
<1>2. ASSUME NEW d \in Chats
      PROVE  stored'[d] = IF w.field = "message" /\ w.chat = d
                          THEN stored[d] \union {w.key} ELSE stored[d]
  <2>1. stored' = IF w.field # "message" THEN stored
                  ELSE [stored EXCEPT ![w.chat] = @ \union {w.key}]
    BY <1>0 DEF Apply
  <2>2. stored \in [Chats -> SUBSET Keys]
    BY DEF RoomsInv, TypeOK
  <2>3. QED
    BY <2>1, <2>2
<1>3. /\ \A d \in Chats : \A k : Holds(u, d, k)' <=> Holds(u, d, k)
      /\ \A v \in Users \ {u}, d \in Chats : \A k : Holds(v, d, k)' <=>
           Holds(v, d, k) \/ (w.field = "message" /\ w.chat = d /\ w.key = k)
  BY <1>0, ApplyEffect
<1>4. w.chat \in Chats /\ w.key \in Keys /\ w.field \in Fields
  BY <1>1 DEF Writes
<1>5. UNCHANGED <<nextKey, open, upload, tiles, torn, backdated>>
  BY DEF Apply
<1>6. /\ lastMessage \in [Chats -> Keys \union {0}]
      /\ lastTimeStamp \in [Chats -> Keys \union {0}]
      /\ lastSeen \in [Chats -> [Users -> Keys \union {0}]]
  BY DEF RoomsInv, TypeOK
<1>7. /\ lastMessage' = IF w.field # "lastMessage" THEN lastMessage
                        ELSE [lastMessage EXCEPT ![w.chat] = w.key]
      /\ lastTimeStamp' = IF w.field # "lastTimeStamp" THEN lastTimeStamp
                          ELSE [lastTimeStamp EXCEPT ![w.chat] = w.key]
      /\ lastSeen' = IF w.field # "lastSeen" THEN lastSeen
                     ELSE [lastSeen EXCEPT ![w.chat][u] = w.key]
  BY <1>0 DEF Apply
<1>8. TypeOK'
  <2>1. /\ lastMessage' \in [Chats -> Keys \union {0}]
        /\ lastTimeStamp' \in [Chats -> Keys \union {0}]
    BY <1>4, <1>6, <1>7
  <2>2. lastSeen' \in [Chats -> [Users -> Keys \union {0}]]
    BY <1>4, <1>6, <1>7
  <2>3. events' \in [Users -> Seq(Keys)]
    BY <1>0, ApplyEvents
  <2>4. QED
    BY <1>1, <1>5, <2>1, <2>2, <2>3 DEF RoomsInv, TypeOK
<1>9. NoDanglingKeys'
  <2>1. NoDanglingKeys
    BY DEF RoomsInv
  <2> SUFFICES ASSUME NEW d \in Chats
               PROVE  /\ lastMessage'[d] \in stored'[d] \union {0}
                      /\ lastTimeStamp'[d] \in stored'[d] \union {0}
                      /\ \A v \in Users : lastSeen'[d][v] \in stored'[d] \union {0}
    BY DEF NoDanglingKeys
  <2>2. stored[d] \subseteq stored'[d]
    BY <1>2
  <2>3. lastMessage'[d] = lastMessage[d]
          \/ (w.field # "message" /\ w.chat = d /\ lastMessage'[d] = w.key)
    BY <1>4, <1>6, <1>7
  <2>4. lastTimeStamp'[d] = lastTimeStamp[d]
          \/ (w.field # "message" /\ w.chat = d /\ lastTimeStamp'[d] = w.key)
    BY <1>4, <1>6, <1>7
  <2>5. \A v \in Users : lastSeen'[d][v] = lastSeen[d][v]
          \/ (w.field # "message" /\ w.chat = d /\ lastSeen'[d][v] = w.key)
    BY <1>4, <1>6, <1>7
  <2>6. QED
    BY <1>1, <2>1, <2>2, <2>3, <2>4, <2>5 DEF NoDanglingKeys
<1>10. KeysUsed'
  <2>1. KeysUsed
    BY DEF RoomsInv
  <2>2. w.field = "message" => Holds(u, w.chat, w.key)
    <3>1. outbox[u] \in Seq(Writes) /\ outbox[u] # <<>>
      BY DEF RoomsInv, TypeOK, Apply
    <3>2. 1 \in 1..Len(outbox[u]) /\ outbox[u][1] = w
      BY <1>0, <3>1, Tailed
    <3>3. QED
      BY <3>2 DEF Holds, Has, Sets
  <2>3. QED
    BY <1>3, <1>4, <1>5, <2>1, <2>2 DEF KeysUsed
<1>11. EventsHeld'
  <2>1. EventsHeld
    BY DEF RoomsInv
  <2>2. ASSUME NEW v \in Users
        PROVE  /\ events'[v] # <<>> => open'[v] # NoKey
               /\ \A d \in Chats, k \in Keys :
                    open'[v] = d /\ In(events'[v], k) => Holds(v, d, k)'
    <3>1. CASE events'[v] = events[v]
      BY <1>3, <1>5, <2>1, <3>1 DEF EventsHeld
    <3>2. CASE events'[v] # events[v]
      <4>1. w.field = "message" /\ v # u /\ open[v] = w.chat
              /\ events'[v] = Append(events[v], w.key)
        BY <1>0, <3>2, ApplyEvents
      <4>2. events[v] \in Seq(Keys)
        BY DEF RoomsInv, TypeOK
      <4>3. \A k : In(events'[v], k) <=> In(events[v], k) \/ k = w.key
        BY <1>4, <4>1, <4>2, EventAdded
      <4>4. QED
        BY <1>3, <1>4, <1>5, <2>1, <4>1, <4>3, ChatRoomsAssumption DEF EventsHeld
    <3>3. QED
      BY <3>1, <3>2
  <2>3. QED
    BY <2>2 DEF EventsHeld
<1>12. TilesHeld'
  <2>1. \A v \in Users, d \in Chats : SummaryBecomes(v, d, 0)' => SummaryBecomes(v, d, 0)
    <3>1. w.key # 0
      BY <1>4 DEF Keys
    <3>2. /\ \A d \in Chats : \A k : SummaryBecomes(u, d, k)' <=> SummaryBecomes(u, d, k)
          /\ \A v \in Users \ {u}, d \in Chats : \A k :
               SummaryBecomes(v, d, k)' => SummaryBecomes(v, d, k) \/ k = w.key
      BY <1>0, ApplyEffect
    <3>3. QED
      BY <3>1, <3>2
  <2>2. QED
    BY <1>3, <1>5, <2>1 DEF RoomsInv, TilesHeld
<1>13. QED
  BY <1>1, <1>8, <1>9, <1>10, <1>11, <1>12 DEF RoomsInv

LEMMA RoomsCrash == ASSUME RoomsInv, NEW u \in Users, Crash(u) PROVE RoomsInv'
<1>1. /\ outbox' \in [Users -> Seq(Writes)] /\ WritesBacked'
      /\ \A v \in Users, d \in Chats : \A k : Holds(v, d, k)' => Holds(v, d, k)
      /\ \A v \in Users \ {u}, d \in Chats : \A k : Holds(v, d, k)' <=> Holds(v, d, k)
      /\ \A v \in Users \ {u}, d \in Chats : \A k : SummaryBecomes(v, d, k)' <=> SummaryBecomes(v, d, k)
  BY CrashEffect
<1>2. /\ events \in [Users -> Seq(Keys)] /\ open \in [Users -> Chats \union {NoKey}]
      /\ upload \in [Users -> Chats \union {NoKey}]
      /\ tiles \in [Users -> [Chats -> Keys \union {0}]]
  BY DEF RoomsInv, TypeOK
<1>3. /\ events' = [events EXCEPT ![u] = <<>>] /\ open' = [open EXCEPT ![u] = NoKey]
      /\ upload' = [upload EXCEPT ![u] = NoKey]
      /\ tiles' = [tiles EXCEPT ![u] = [c \in Chats |-> 0]]
      /\ torn' \subseteq Chats
      /\ UNCHANGED <<server, nextKey, backdated>>
  BY DEF Crash, RoomsInv, TypeOK
<1>4. <<>> \in Seq(Keys)
  OBVIOUS
<1>5. /\ events' \in [Users -> Seq(Keys)] /\ open' \in [Users -> Chats \union {NoKey}]
      /\ upload' \in [Users -> Chats \union {NoKey}]
      /\ tiles' \in [Users -> [Chats -> Keys \union {0}]]
      /\ events'[u] = <<>> /\ open'[u] = NoKey
      /\ \A c \in Chats : tiles'[u][c] = 0
      /\ \A v \in Users \ {u} : events'[v] = events[v] /\ open'[v] = open[v] /\ tiles'[v] = tiles[v]
  BY <1>2, <1>3, <1>4
<1>6. TypeOK'
  BY <1>1, <1>3, <1>5 DEF RoomsInv, TypeOK, server
<1>7. NoDanglingKeys'
  BY <1>3 DEF RoomsInv, NoDanglingKeys, server
<1>8. KeysUsed'
  BY <1>1, <1>3 DEF RoomsInv, KeysUsed
<1>9. EventsHeld'
  BY <1>1, <1>5, ChatRoomsAssumption DEF RoomsInv, EventsHeld
<1>10. TilesHeld'
  <2>1. 0 \notin Keys
    BY DEF Keys
  <2>2. QED
    BY <1>1, <1>5, <2>1 DEF RoomsInv, TilesHeld
<1>11. QED
  BY <1>1, <1>6, <1>7, <1>8, <1>9, <1>10 DEF RoomsInv

LEMMA RoomsClose == ASSUME RoomsInv, NEW u \in Users, Close(u) PROVE RoomsInv'
<1>1. UNCHANGED <<server, outbox, nextKey>> /\ UNCHANGED <<upload, tiles, torn, backdated>>
  BY DEF Close
<1>2. events \in [Users -> Seq(Keys)] /\ open \in [Users -> Chats \union {NoKey}]
  BY DEF RoomsInv, TypeOK
<1>3. events' = [events EXCEPT ![u] = <<>>] /\ open' = [open EXCEPT ![u] = NoKey]
  BY DEF Close
<1>4. <<>> \in Seq(Keys)
  OBVIOUS
<1>5. /\ events' \in [Users -> Seq(Keys)] /\ open' \in [Users -> Chats \union {NoKey}]
      /\ events'[u] = <<>> /\ open'[u] = NoKey
      /\ \A v \in Users \ {u} : events'[v] = events[v] /\ open'[v] = open[v]
  BY <1>2, <1>3, <1>4
<1>6. /\ NoDanglingKeys' /\ WritesBacked' /\ KeysUsed'
      /\ \A v \in Users, d \in Chats : \A k : Holds(v, d, k)' <=> Holds(v, d, k)
      /\ \A v \in Users, d \in Chats : \A k : SummaryBecomes(v, d, k)' <=> SummaryBecomes(v, d, k)
  BY <1>1, NothingWritten
<1>7. TypeOK'
  BY <1>1, <1>5 DEF RoomsInv, TypeOK, server
<1>8. EventsHeld'
  BY <1>5, <1>6, ChatRoomsAssumption DEF RoomsInv, EventsHeld
<1>9. TilesHeld'
  BY <1>1, <1>6 DEF RoomsInv, TilesHeld
<1>10. QED
  BY <1>6, <1>7, <1>8, <1>9 DEF RoomsInv

LEMMA RoomsRefresh == ASSUME RoomsInv, NEW u \in Users, Refresh(u) PROVE RoomsInv'
<1>1. /\ UNCHANGED <<server, outbox, nextKey>>
      /\ UNCHANGED <<open, events, upload, torn, backdated>>
  BY DEF Refresh
<1>2. /\ NoDanglingKeys' /\ WritesBacked' /\ KeysUsed'
      /\ \A v \in Users, d \in Chats : \A k : Holds(v, d, k)' <=> Holds(v, d, k)
      /\ \A v \in Users, d \in Chats : \A k : SummaryBecomes(v, d, k)' <=> SummaryBecomes(v, d, k)
  BY <1>1, NothingWritten
<1>3. TypeOK /\ tiles \in [Users -> [Chats -> Keys \union {0}]]
  BY DEF RoomsInv, TypeOK
<1> DEFINE tile(c) == Local(u, "lastMessage", c, lastMessage[c])
<1>4. ASSUME NEW c \in Chats
      PROVE  SummaryBecomes(u, c, tile(c)) /\ tile(c) \in Keys \union {0}
               /\ (tile(c) # 0 => Holds(u, c, tile(c)))
  <2>1. SummaryBecomes(u, c, tile(c))
    BY <1>3, LocalIsFinal DEF SummaryBecomes, Fields
  <2>2. QED
    BY <2>1, SummaryHeld
<1>5. \A c \in Chats : \A k, j : SummaryBecomes(u, c, k) /\ SummaryBecomes(u, c, j) => k = j
  <2>1. outbox[u] \in Seq(Writes)
    BY <1>3 DEF TypeOK
  <2>2. Len(outbox[u]) \in Nat
    BY <2>1
  <2>3. QED
    BY <2>2 DEF SummaryBecomes, Final, Silent
<1> HIDE DEF tile
<1>6. tiles' = [tiles EXCEPT ![u] = [c \in Chats |-> tile(c)]]
  BY DEF Refresh, tile
<1>7. /\ tiles' \in [Users -> [Chats -> Keys \union {0}]]
      /\ \A c \in Chats : tiles'[u][c] = tile(c)
      /\ \A v \in Users \ {u} : tiles'[v] = tiles[v]
  BY <1>3, <1>4, <1>6
<1>8. TypeOK'
  BY <1>1, <1>3, <1>7 DEF TypeOK, server
<1>9. EventsHeld'
  BY <1>1, <1>2 DEF RoomsInv, EventsHeld
<1>10. TilesHeld'
  <2>1. ASSUME NEW c \in Chats, tile(c) \in Keys PROVE ~SummaryBecomes(u, c, 0)
    BY <1>4, <1>5, <2>1 DEF Keys
  <2>2. \A c \in Chats, k \in Keys : tiles'[u][c] = k => Holds(u, c, k) /\ ~SummaryBecomes(u, c, 0)
    BY <1>4, <1>7, <2>1 DEF Keys
  <2>3. QED
    BY <1>2, <1>7, <2>2 DEF RoomsInv, TilesHeld
<1>11. QED
  BY <1>2, <1>8, <1>9, <1>10 DEF RoomsInv

LEMMA RoomsStep == RoomsInv /\ [Next]_vars => RoomsInv'
<1> SUFFICES ASSUME RoomsInv, [Next]_vars PROVE RoomsInv'
  OBVIOUS
<1>1. /\ open \in [Users -> Chats \union {NoKey}]
      /\ upload \in [Users -> Chats \union {NoKey}]
  BY DEF RoomsInv, TypeOK
<1>2. ASSUME NEW u \in Users, SendText(u) PROVE RoomsInv'
  <2>1. open[u] \in Chats /\ Send(u, open[u])
    BY <1>1, <1>2 DEF SendText
  <2>2. UNCHANGED <<server, open, tiles, backdated>> /\ upload' = upload
    BY <1>2 DEF SendText
  <2>3. QED
    BY <1>1, <2>1, <2>2, RoomsSend
<1>3. ASSUME NEW u \in Users, FinishUpload(u) PROVE RoomsInv'
  <2>1. upload[u] \in Chats /\ Send(u, upload[u])
    BY <1>1, <1>3 DEF FinishUpload
  <2>2. UNCHANGED <<server, open, tiles, backdated>>
          /\ upload' = [upload EXCEPT ![u] = NoKey]
    BY <1>3 DEF FinishUpload
  <2>3. upload' \in [Users -> Chats \union {NoKey}]
    BY <1>1, <2>2
  <2>4. QED
    BY <2>1, <2>2, <2>3, RoomsSend
<1>4. ASSUME UNCHANGED <<server, outbox, nextKey>>,
             UNCHANGED <<open, events, tiles, torn, backdated>>,
             upload' \in [Users -> Chats \union {NoKey}]
      PROVE  RoomsInv'
  <2>1. /\ NoDanglingKeys' /\ WritesBacked' /\ KeysUsed'
        /\ \A v \in Users, d \in Chats : \A k : Holds(v, d, k)' <=> Holds(v, d, k)
        /\ \A v \in Users, d \in Chats : \A k : SummaryBecomes(v, d, k)' <=> SummaryBecomes(v, d, k)
    BY <1>4, NothingWritten
  <2>2. TypeOK'
    BY <1>4 DEF RoomsInv, TypeOK, server
  <2>3. EventsHeld' /\ TilesHeld'
    BY <1>4, <2>1 DEF RoomsInv, EventsHeld, TilesHeld
  <2>4. QED
    BY <2>1, <2>2, <2>3 DEF RoomsInv
<1>5. ASSUME NEW u \in Users, StartUpload(u) \/ FailUpload(u) PROVE RoomsInv'
  <2>1. UNCHANGED <<server, outbox, nextKey>> /\ UNCHANGED <<open, events, tiles, torn, backdated>>
    BY <1>5 DEF StartUpload, FailUpload
  <2>2. upload' \in [Users -> Chats \union {NoKey}]
    BY <1>1, <1>5 DEF StartUpload, FailUpload
  <2>3. QED
    BY <1>4, <2>1, <2>2
<1>6. CASE UNCHANGED vars
  <2>1. UNCHANGED <<server, outbox, nextKey>>
    BY <1>6 DEF vars, server
  <2>2. UNCHANGED <<open, events, tiles, torn, backdated>> /\ upload' = upload
    BY <1>6 DEF vars
  <2>3. QED
    BY <1>1, <1>4, <2>1, <2>2
<1>7. QED
  BY <1>2, <1>3, <1>5, <1>6, RoomsHear, RoomsTap, RoomsApply, RoomsCrash, RoomsClose,
     RoomsRefresh DEF Next, Client

LEMMA RoomsCorrect == Spec => []RoomsInv
<1>1. Init => RoomsInv
  BY RoomsInitially
<1>2. QED
  BY <1>1, RoomsStep, PTL DEF Spec

\* Type correctness of ChatRooms.
THEOREM TypeCorrect == Spec => []TypeOK
<1>1. RoomsInv => TypeOK
  BY DEF RoomsInv
<1>2. QED
  BY <1>1, RoomsCorrect, PTL

(***************************************************************************)
(* What the server says of a conversation refers to messages it has,       *)
(* whatever the three writes of the sends and the seen markers of all      *)
(* clients are interleaved with, and whoever dies between them.            *)
(***************************************************************************)
THEOREM KeysAreStored == Spec => []NoDanglingKeys
<1>1. RoomsInv => NoDanglingKeys
  BY DEF RoomsInv
<1>2. QED
  BY <1>1, RoomsCorrect, PTL

-----------------------------------------------------------------------------
(***************************************************************************)
(* SummaryInv is inductive.                                                *)
(***************************************************************************)
LEMMA SummaryKept ==
  ASSUME NEW c \in Chats, SummaryAt(c),
         \A v \in Users : \A k : Holds(v, c, k)' <=> Holds(v, c, k),
         \A v \in Users, f \in Fields \ {"lastSeen"} : Quiet(v, f, c)' <=> Quiet(v, f, c),
         \A v \in Users : \A k : SummaryBecomes(v, c, k)' <=> SummaryBecomes(v, c, k),
         \A v \in Users : \A k : StampBecomes(v, c, k)' <=> StampBecomes(v, c, k)
  PROVE  SummaryAt(c)'
<1>1. \A v \in Users : Sending(v, c)' <=> Sending(v, c)
  BY DEF Sending
<1>2. \A v \in Users : Alone(v, c)' <=> Alone(v, c)
  BY <1>1 DEF Alone
<1>3. \A v \in Users : \A k : NewestIs(v, c, k)' <=> NewestIs(v, c, k)
  BY DEF NewestIs
<1>4. QED
  BY <1>1, <1>2, <1>3 DEF SummaryAt

LEMMA SummarySend ==
  ASSUME RoomsInv, SummaryInv, NEW u \in Users, NEW c \in Chats, Send(u, c), UNCHANGED server
  PROVE  SummaryInv'
<1>1. TypeOK /\ KeysUsed
  BY DEF RoomsInv
<1>2. nextKey \in Keys /\ torn' = IF OthersSending(u, c) THEN torn \union {c} ELSE torn \ {c}
  BY DEF Send
<1>3. \A v \in Users, d \in Chats : \A k : Holds(v, d, k)' <=>
        Holds(v, d, k) \/ (v = u /\ d = c /\ k = nextKey)
  BY SendEffect
<1>4. \A v \in Users, d \in Chats, f \in Fields \ {"lastSeen"} :
        Quiet(v, f, d)' <=> Quiet(v, f, d) /\ ~(v = u /\ d = c)
  BY SendEffect
<1>5. \A v \in Users, d \in Chats : \A k :
        /\ ~(v = u /\ d = c) => (SummaryBecomes(v, d, k)' <=> SummaryBecomes(v, d, k))
        /\ ~(v = u /\ d = c) => (StampBecomes(v, d, k)' <=> StampBecomes(v, d, k))
  BY SendEffect
<1>6. \A k : k = nextKey => SummaryBecomes(u, c, k)' /\ StampBecomes(u, c, k)'
  BY SendEffect
<1>7. ASSUME NEW d \in Chats, d \notin torn', d # c PROVE SummaryAt(d)'
  <2>1. SummaryAt(d)
    BY <1>2, <1>7 DEF SummaryInv
  <2>2. QED
    BY <1>3, <1>4, <1>5, <1>7, <2>1, SummaryKept
<1>8. ASSUME c \notin torn' PROVE SummaryAt(c)'
  <2>1. ~OthersSending(u, c)
    BY <1>2, <1>8
  <2>2. \A v \in Users \ {u} : ~Sending(v, c)
    BY <1>1, <2>1, Terms DEF OthersSending, Sending
  <2>3. \A v \in Users \ {u} : ~Sending(v, c)'
    BY <1>4, <2>2 DEF Sending
  <2>4. Sending(u, c)'
    BY <1>4 DEF Sending, Fields
  <2>5. \A v \in Users : Alone(v, c)' => v = u
    BY <2>4 DEF Alone
  <2>6. \A k \in Keys : NewestIs(u, c, k)' => k = nextKey
    <3>1. \A k : k = nextKey => Holds(u, c, k)'
      BY <1>3
    <3>2. \A k \in Keys : NewestIs(u, c, k)' => nextKey <= k /\ (Holds(u, c, k) \/ k = nextKey)
      BY <1>2, <1>3, <3>1 DEF NewestIs
    <3>3. \A k \in Keys : Holds(u, c, k) => k < nextKey
      BY <1>1 DEF KeysUsed
    <3>4. QED
      BY <1>2, <3>2, <3>3 DEF Keys
  <2>7. QED
    BY <1>6, <2>3, <2>5, <2>6 DEF SummaryAt
<1>9. QED
  BY <1>7, <1>8 DEF SummaryInv

LEMMA SummaryApply ==
  ASSUME RoomsInv, SummaryInv, NEW u \in Users, Apply(u)
  PROVE  SummaryInv'
<1> DEFINE w == Head(outbox[u])
<1>0. w = Head(outbox[u])
  OBVIOUS
<1> HIDE DEF w
<1>1. /\ \A d \in Chats : \A k : Holds(u, d, k)' <=> Holds(u, d, k)
      /\ \A v \in Users \ {u}, d \in Chats : \A k : Holds(v, d, k)' <=>
           Holds(v, d, k) \/ (w.field = "message" /\ w.chat = d /\ w.key = k)
  BY <1>0, ApplyEffect
<1>2. /\ \A d \in Chats, f \in Fields : Quiet(u, f, d) <=>
           Quiet(u, f, d)' /\ ~(w.field = f /\ w.chat = d)
      /\ \A v \in Users \ {u}, d \in Chats, f \in Fields : Quiet(v, f, d)' <=> Quiet(v, f, d)
  BY <1>0, ApplyEffect
<1>3. \A d \in Chats : \A k :
        /\ SummaryBecomes(u, d, k)' <=> SummaryBecomes(u, d, k)
        /\ StampBecomes(u, d, k)' <=> StampBecomes(u, d, k)
  BY <1>0, ApplyEffect
<1>4. \A v \in Users \ {u}, d \in Chats : \A k :
        /\ ~(w.field = "lastMessage" /\ w.chat = d) =>
             (SummaryBecomes(v, d, k)' <=> SummaryBecomes(v, d, k))
        /\ ~(w.field = "lastTimeStamp" /\ w.chat = d) =>
             (StampBecomes(v, d, k)' <=> StampBecomes(v, d, k))
  BY <1>0, ApplyEffect
<1>5. w \in Writes
  BY <1>0, ApplyEffect
<1>6. w.field \in Fields /\ w.chat \in Chats
  BY <1>5 DEF Writes
<1>7. torn' = torn
  BY DEF Apply
<1> SUFFICES ASSUME NEW d \in Chats, d \notin torn PROVE SummaryAt(d)'
  BY <1>7 DEF SummaryInv
<1>8. SummaryAt(d)
  BY DEF SummaryInv
<1>9. CASE ~(w.field # "lastSeen" /\ w.chat = d)
  <2>1. \A v \in Users : \A k : Holds(v, d, k)' <=> Holds(v, d, k)
    BY <1>1, <1>9
  <2>2. \A v \in Users, f \in Fields \ {"lastSeen"} : Quiet(v, f, d)' <=> Quiet(v, f, d)
    BY <1>2, <1>9
  <2>3. \A v \in Users : \A k : SummaryBecomes(v, d, k)' <=> SummaryBecomes(v, d, k)
    BY <1>3, <1>4, <1>9
  <2>4. \A v \in Users : \A k : StampBecomes(v, d, k)' <=> StampBecomes(v, d, k)
    BY <1>3, <1>4, <1>9
  <2>5. QED
    BY <1>8, <2>1, <2>2, <2>3, <2>4, SummaryKept
<1>10. CASE w.field # "lastSeen" /\ w.chat = d
  <2>1. Sending(u, d)
    BY <1>2, <1>6, <1>10 DEF Sending
  <2>2. Alone(u, d)
    BY <1>8, <2>1 DEF SummaryAt, Alone
  <2>3. \A v \in Users : Sending(v, d)' => Sending(v, d)
    BY <1>2 DEF Sending
  <2>4. \A v \in Users \ {u} : ~Sending(v, d)'
    BY <2>2, <2>3 DEF Alone
  <2>5. \A k \in Keys : NewestIs(u, d, k)' => SummaryBecomes(u, d, k)' /\ StampBecomes(u, d, k)'
    <3>1. \A k \in Keys : NewestIs(u, d, k)' <=> NewestIs(u, d, k)
      BY <1>1 DEF NewestIs
    <3>2. QED
      BY <1>3, <1>8, <2>2, <3>1 DEF SummaryAt
  <2>6. ASSUME NEW v \in Users, Alone(v, d)', NEW k \in Keys, NewestIs(v, d, k)', v # u
        PROVE  SummaryBecomes(v, d, k)' /\ StampBecomes(v, d, k)'
    <3>1. ~Sending(u, d)' /\ ~Sending(v, d)'
      BY <2>4, <2>6 DEF Alone
    <3>2. /\ Quiet(u, "message", d)' /\ Quiet(v, "message", d)'
          /\ Quiet(u, "lastMessage", d)' /\ Quiet(v, "lastMessage", d)'
          /\ Quiet(u, "lastTimeStamp", d)' /\ Quiet(v, "lastTimeStamp", d)'
      BY <3>1 DEF Sending, Fields
    <3>3. \A j : Holds(v, d, j)' <=> Holds(u, d, j)'
      BY <3>2 DEF Holds, Has, Quiet, Silent
    <3>4. NewestIs(u, d, k)'
      BY <2>6, <3>3 DEF NewestIs
    <3>5. SummaryBecomes(u, d, k)' /\ StampBecomes(u, d, k)'
      BY <2>5, <3>4
    <3>6. lastMessage'[d] = k /\ lastTimeStamp'[d] = k
      BY <3>2, <3>5 DEF SummaryBecomes, StampBecomes, Final, Quiet, Silent
    <3>7. QED
      BY <3>2, <3>6 DEF SummaryBecomes, StampBecomes, Final, Quiet
  <2>7. QED
    BY <2>4, <2>5, <2>6 DEF SummaryAt
<1>11. QED
  BY <1>9, <1>10

LEMMA SummaryCrash ==
  ASSUME RoomsInv, SummaryInv, NEW u \in Users, Crash(u)
  PROVE  SummaryInv'
<1>1. /\ \A v \in Users \ {u}, d \in Chats : \A k : Holds(v, d, k)' <=> Holds(v, d, k)
      /\ \A d \in Chats, f \in Fields : Quiet(u, f, d)'
      /\ \A d \in Chats : Quiet(u, "message", d) =>
           \A k : Holds(u, d, k)' <=> Holds(u, d, k)
      /\ \A d \in Chats : \A k : Quiet(u, "lastMessage", d) =>
           (SummaryBecomes(u, d, k)' <=> SummaryBecomes(u, d, k))
      /\ \A d \in Chats : \A k : Quiet(u, "lastTimeStamp", d) =>
           (StampBecomes(u, d, k)' <=> StampBecomes(u, d, k))
  BY CrashEffect
<1>2. \A v \in Users \ {u}, d \in Chats, f \in Fields : Quiet(v, f, d)' <=> Quiet(v, f, d)
  BY CrashEffect
<1>3. \A v \in Users \ {u}, d \in Chats : \A k :
        /\ SummaryBecomes(v, d, k)' <=> SummaryBecomes(v, d, k)
        /\ StampBecomes(v, d, k)' <=> StampBecomes(v, d, k)
  BY CrashEffect
<1>4. torn' = torn \union {c \in Chats :
        Issued(u, "lastMessage", c) \union Issued(u, "lastTimeStamp", c) # {}}
  BY DEF Crash
<1> SUFFICES ASSUME NEW d \in Chats, d \notin torn' PROVE SummaryAt(d)'
  BY DEF SummaryInv
<1>5. d \notin torn /\ Issued(u, "lastMessage", d) = {} /\ Issued(u, "lastTimeStamp", d) = {}
  BY <1>4
<1>6. Quiet(u, "lastMessage", d) /\ Quiet(u, "lastTimeStamp", d)
  BY <1>5, Terms DEF RoomsInv, Fields
<1>7. Quiet(u, "message", d)
  BY <1>6 DEF RoomsInv, WritesBacked, Completed, Quiet, Silent, Sets
<1>8. \A f \in Fields \ {"lastSeen"} : Quiet(u, f, d)
  BY <1>6, <1>7 DEF Fields
<1>9. SummaryAt(d)
  BY <1>5 DEF SummaryInv
<1>10. \A v \in Users : \A k : Holds(v, d, k)' <=> Holds(v, d, k)
  BY <1>1, <1>7
<1>11. \A v \in Users, f \in Fields \ {"lastSeen"} : Quiet(v, f, d)' <=> Quiet(v, f, d)
  BY <1>1, <1>2, <1>8
<1>12. /\ \A v \in Users : \A k : SummaryBecomes(v, d, k)' <=> SummaryBecomes(v, d, k)
       /\ \A v \in Users : \A k : StampBecomes(v, d, k)' <=> StampBecomes(v, d, k)
  BY <1>1, <1>3, <1>6
<1>13. QED
  BY <1>9, <1>10, <1>11, <1>12, SummaryKept

LEMMA SummaryStep == RoomsInv /\ SummaryInv /\ [Next]_vars => SummaryInv'
<1> SUFFICES ASSUME RoomsInv, SummaryInv, [Next]_vars PROVE SummaryInv'
  OBVIOUS
<1>1. /\ open \in [Users -> Chats \union {NoKey}]
      /\ upload \in [Users -> Chats \union {NoKey}]
      /\ events \in [Users -> Seq(Keys)]
  BY DEF RoomsInv, TypeOK
<1>2. ASSUME NEW u \in Users, SendText(u) PROVE SummaryInv'
  <2>1. open[u] \in Chats /\ Send(u, open[u]) /\ UNCHANGED server
    BY <1>1, <1>2 DEF SendText
  <2>2. QED
    BY <2>1, SummarySend
<1>3. ASSUME NEW u \in Users, FinishUpload(u) PROVE SummaryInv'
  <2>1. upload[u] \in Chats /\ Send(u, upload[u]) /\ UNCHANGED server
    BY <1>1, <1>3 DEF FinishUpload
  <2>2. QED
    BY <2>1, SummarySend
<1>4. ASSUME UNCHANGED <<server, outbox, nextKey>>, torn' = torn PROVE SummaryInv'
  <2>1. /\ \A v \in Users, d \in Chats : \A k : Holds(v, d, k)' <=> Holds(v, d, k)
        /\ \A v \in Users, d \in Chats, f \in Fields : Quiet(v, f, d)' <=> Quiet(v, f, d)
        /\ \A v \in Users, d \in Chats : \A k : SummaryBecomes(v, d, k)' <=> SummaryBecomes(v, d, k)
        /\ \A v \in Users, d \in Chats : \A k : StampBecomes(v, d, k)' <=> StampBecomes(v, d, k)
    BY <1>4, NothingWritten
  <2>2. ASSUME NEW d \in Chats, d \notin torn PROVE SummaryAt(d)'
    <3>1. SummaryAt(d)
      BY <2>2 DEF SummaryInv
    <3>2. QED
      BY <2>1, <3>1, SummaryKept
  <2>3. QED
    BY <1>4, <2>2 DEF SummaryInv
<1>5. ASSUME NEW u \in Users,
             StartUpload(u) \/ FailUpload(u) \/ Refresh(u) \/ Close(u) PROVE SummaryInv'
  <2>1. UNCHANGED <<server, outbox, nextKey>> /\ torn' = torn
    BY <1>5 DEF StartUpload, FailUpload, Refresh, Close
  <2>2. QED
    BY <1>4, <2>1
<1>6. CASE UNCHANGED vars
  <2>1. UNCHANGED <<server, outbox, nextKey>> /\ torn' = torn
    BY <1>6 DEF vars, server
  <2>2. QED
    BY <1>4, <2>1
<1>7. ASSUME NEW u \in Users, NEW c \in Chats, NEW key \in Keys, Holds(u, c, key),
             UNCHANGED server, torn' = torn,
             outbox' = [outbox EXCEPT ![u] = Append(@, Write("lastSeen", c, key))]
      PROVE  SummaryInv'
  <2>1. /\ \A v \in Users, d \in Chats : \A k : Holds(v, d, k)' <=> Holds(v, d, k)
        /\ \A v \in Users, d \in Chats, f \in Fields \ {"lastSeen"} :
             Quiet(v, f, d)' <=> Quiet(v, f, d)
        /\ \A v \in Users, d \in Chats : \A k :
             /\ SummaryBecomes(v, d, k)' <=> SummaryBecomes(v, d, k)
             /\ StampBecomes(v, d, k)' <=> StampBecomes(v, d, k)
    BY <1>7, MarkEffect
  <2>2. ASSUME NEW d \in Chats, d \notin torn PROVE SummaryAt(d)'
    <3>1. SummaryAt(d)
      BY <2>2 DEF SummaryInv
    <3>2. QED
      BY <2>1, <3>1, SummaryKept
  <2>3. QED
    BY <1>7, <2>2 DEF SummaryInv
<1>8. ASSUME NEW u \in Users, Hear(u) PROVE SummaryInv'
  <2> DEFINE key == Head(events[u])
             c == open[u]
  <2>1. events[u] \in Seq(Keys) /\ events[u] # <<>> /\ EventsHeld
    BY <1>1, <1>8 DEF Hear, RoomsInv
  <2>2. c \in Chats
    BY <1>1, <2>1 DEF EventsHeld
  <2>3. key \in Keys /\ In(events[u], key)
    BY <2>1, EventHeard
  <2>4. UNCHANGED server /\ torn' = torn
          /\ outbox' = [outbox EXCEPT ![u] = Append(@, Write("lastSeen", c, key))]
    BY <1>8 DEF Hear
  <2> HIDE DEF key, c
  <2>5. Holds(u, c, key)
    BY <2>1, <2>2, <2>3 DEF EventsHeld, c
  <2>6. QED
    BY <1>7, <2>2, <2>3, <2>4, <2>5
<1>9. ASSUME NEW u \in Users, NEW c \in Chats, Tap(u, c) PROVE SummaryInv'
  <2> DEFINE key == tiles[u][c]
  <2>1. UNCHANGED <<server, nextKey>> /\ torn' = torn
    BY <1>9 DEF Tap
  <2>2. CASE key = 0
    <3>1. outbox' = outbox
      BY <1>9, <2>2 DEF Tap
    <3>2. QED
      BY <1>4, <2>1, <3>1
  <2>3. CASE key # 0
    <3>1. key \in Keys
      BY <2>3 DEF RoomsInv, TypeOK
    <3>2. Holds(u, c, key)
      BY <3>1 DEF RoomsInv, TilesHeld
    <3>3. outbox' = [outbox EXCEPT ![u] = Append(@, Write("lastSeen", c, key))]
      BY <1>9, <2>3 DEF Tap
    <3> HIDE DEF key
    <3>4. QED
      BY <1>7, <2>1, <3>1, <3>2, <3>3
  <2>4. QED
    BY <2>2, <2>3
<1>10. QED
  BY <1>2, <1>3, <1>5, <1>6, <1>8, <1>9, SummaryApply, SummaryCrash DEF Next, Client

\* A message was sent by someone.
LEMMA SenderExists == Spec => [](\A c \in Chats : stored[c] # {} => Users # {})
<1> DEFINE Sender == \A c \in Chats : stored[c] # {} => Users # {}
<1>1. Init => Sender
  BY DEF Init
<1>2. Sender /\ [Next]_vars => Sender'
  <2>1. Next => Users # {}
    BY DEF Next
  <2>2. QED
    BY <2>1 DEF vars
<1>3. QED
  BY <1>1, <1>2, PTL DEF Spec

\* What a client sees of a conversation to which nothing is on its way.
LEMMA AtRest ==
  ASSUME RoomsInv, NEW c \in Chats, Settled(c), NEW u \in Users
  PROVE  /\ \A k : Holds(u, c, k) <=> k \in stored[c]
         /\ \A k : SummaryBecomes(u, c, k) <=> lastMessage[c] = k
         /\ \A k : StampBecomes(u, c, k) <=> lastTimeStamp[c] = k
         /\ \A k : SeenBecomes(u, c, k) <=> lastSeen[c][u] = k
         /\ Alone(u, c)
<1>1. \A v \in Users, f \in Fields : Quiet(v, f, c)
  BY Terms DEF Settled, RoomsInv
<1>2. /\ Quiet(u, "message", c) /\ Quiet(u, "lastMessage", c)
      /\ Quiet(u, "lastTimeStamp", c) /\ Quiet(u, "lastSeen", c)
  BY <1>1 DEF Fields
<1>3. \A k : Holds(u, c, k) <=> k \in stored[c]
  BY <1>2 DEF Quiet, Silent, Holds, Has
<1>4. /\ \A k : SummaryBecomes(u, c, k) <=> lastMessage[c] = k
      /\ \A k : StampBecomes(u, c, k) <=> lastTimeStamp[c] = k
      /\ \A k : SeenBecomes(u, c, k) <=> lastSeen[c][u] = k
  BY <1>2 DEF Quiet, Silent, Final, SummaryBecomes, StampBecomes, SeenBecomes
<1>5. Alone(u, c)
  BY <1>1 DEF Alone, Sending
<1>6. QED
  BY <1>3, <1>4, <1>5

LEMMA NewestAtRest ==
  ASSUME RoomsInv, SummaryInv, NEW c \in Chats \ torn, Settled(c), stored[c] # {},
         NEW u \in Users
  PROVE  /\ NewestIs(u, c, lastMessage[c])
         /\ {lastMessage[c]} = Newest(stored[c]) /\ lastTimeStamp[c] = lastMessage[c]
<1>1. /\ \A k : Holds(u, c, k) <=> k \in stored[c]
      /\ \A k : SummaryBecomes(u, c, k) <=> lastMessage[c] = k
      /\ \A k : StampBecomes(u, c, k) <=> lastTimeStamp[c] = k
      /\ Alone(u, c)
  BY AtRest
<1>2. stored[c] \subseteq 1..MaxKey
  BY DEF RoomsInv, TypeOK, Keys
<1>3. PICK m \in stored[c] : \A j \in stored[c] : j <= m
  BY <1>2, LastPosition, ChatRoomsAssumption
<1>4. NewestIs(u, c, m) /\ m \in Keys
  BY <1>1, <1>2, <1>3 DEF NewestIs, Keys
<1>5. lastMessage[c] = m /\ lastTimeStamp[c] = m
  BY <1>1, <1>4 DEF SummaryInv, SummaryAt
<1>6. Newest(stored[c]) = {m}
  BY <1>2, <1>3 DEF Newest
<1>7. QED
  BY <1>4, <1>5, <1>6

(***************************************************************************)
(* The summary and the place of a conversation at rest are those of its    *)
(* newest message, unless its last sends overlapped or were cut off.       *)
(***************************************************************************)
THEOREM SummaryShowsNewest == Spec => []SummaryIsNewest
<1> DEFINE Sender == \A c \in Chats : stored[c] # {} => Users # {}
<1>1. RoomsInv /\ SummaryInv /\ Sender => SummaryIsNewest
  <2> SUFFICES ASSUME RoomsInv, SummaryInv, Sender, NEW c \in Chats,
                      Settled(c), c \notin torn, stored[c] # {}
               PROVE  {lastMessage[c]} = Newest(stored[c]) /\ lastTimeStamp[c] = lastMessage[c]
    BY DEF SummaryIsNewest
  <2>1. PICK u \in Users : TRUE
    OBVIOUS
  <2>2. QED
    BY NewestAtRest
<1>2. Init => SummaryInv
  BY RoomsInitially
<1>3. Spec => []Sender
  BY SenderExists
<1>4. QED
  BY <1>1, <1>2, <1>3, RoomsCorrect, SummaryStep, PTL DEF Spec

-----------------------------------------------------------------------------
(***************************************************************************)
(* SeenInv is inductive.                                                   *)
(***************************************************************************)
LEMMA OneNewest ==
  ASSUME NEW u \in Users, NEW c \in Chats, NEW j \in Keys, NEW k \in Keys,
         NewestIs(u, c, j), NewestIs(u, c, k)
  PROVE  j = k
BY DEF NewestIs, Keys

LEMMA SeenKept ==
  ASSUME NEW u \in Users, NEW c \in Chats, SeenAt(u, c),
         \A k : Holds(u, c, k)' <=> Holds(u, c, k),
         \A k : SeenBecomes(u, c, k)' <=> SeenBecomes(u, c, k),
         events'[u] = events[u],
         <<u, c>> \in backdated' <=> <<u, c>> \in backdated,
         tiles[u][c] # 0 => tiles'[u][c] # 0
  PROVE  SeenAt(u, c)'
<1>1. \A k : NewestIs(u, c, k)' <=> NewestIs(u, c, k)
  BY DEF NewestIs
<1>2. QED
  BY <1>1 DEF SeenAt

LEMMA SeenSend ==
  ASSUME RoomsInv, SeenInv, NEW u \in Users, NEW c \in Chats, Send(u, c),
         UNCHANGED <<server, open, tiles, backdated>>
  PROVE  SeenInv'
<1>1. UNCHANGED server
  OBVIOUS
<1>2. \A v \in Users, d \in Chats : \A k : Holds(v, d, k)' <=>
        Holds(v, d, k) \/ (v = u /\ d = c /\ k = nextKey)
  BY <1>1, SendEffect
<1>3. \A v \in Users, d \in Chats : \A k : SeenBecomes(v, d, k)' <=> SeenBecomes(v, d, k)
  BY <1>1, SendEffect
<1>4. nextKey \in Keys /\ events \in [Users -> Seq(Keys)]
  BY DEF Send, RoomsInv, TypeOK
<1>5. events' = IF open[u] = c THEN [events EXCEPT ![u] = Append(@, nextKey)] ELSE events
  BY DEF Send
<1>6. open' = open /\ tiles' = tiles /\ backdated' = backdated
  OBVIOUS
<1> SUFFICES ASSUME NEW v \in Users, NEW d \in Chats, open[v] = d PROVE SeenAt(v, d)'
  BY <1>6 DEF SeenInv
<1>7. SeenAt(v, d)
  BY DEF SeenInv
<1>8. CASE v = u /\ d = c
  <2>1. events'[u] = Append(events[u], nextKey) /\ events[u] \in Seq(Keys)
    BY <1>4, <1>5, <1>8
  <2>2. events'[u] # <<>> /\ \A k : Ends(events'[u], k) <=> k = nextKey
    BY <1>4, <2>1, EventAdded
  <2>3. \A k \in Keys : k = nextKey => NewestIs(u, c, k)'
    <3>1. \A j \in Keys : Holds(u, c, j) => j < nextKey
      BY DEF RoomsInv, KeysUsed
    <3>2. \A j \in Keys : Holds(u, c, j)' => j <= nextKey
      BY <1>2, <1>4, <3>1 DEF Keys
    <3>3. \A k : k = nextKey => Holds(u, c, k)'
      BY <1>2
    <3>4. QED
      BY <3>2, <3>3 DEF NewestIs
  <2>4. QED
    BY <1>6, <1>7, <1>8, <2>2, <2>3 DEF SeenAt
<1>9. CASE ~(v = u /\ d = c)
  <2>1. events'[v] = events[v]
    BY <1>4, <1>5, <1>9
  <2>2. \A k : Holds(v, d, k)' <=> Holds(v, d, k)
    BY <1>2, <1>9
  <2>3. \A k : SeenBecomes(v, d, k)' <=> SeenBecomes(v, d, k)
    BY <1>3
  <2>4. QED
    BY <1>6, <1>7, <2>1, <2>2, <2>3, SeenKept
<1>10. QED
  BY <1>8, <1>9

LEMMA SeenHear == ASSUME RoomsInv, SeenInv, NEW u \in Users, Hear(u) PROVE SeenInv'
<1>1. /\ events \in [Users -> Seq(Keys)] /\ events[u] \in Seq(Keys) /\ events[u] # <<>>
      /\ open \in [Users -> Chats \union {NoKey}] /\ EventsHeld
  BY DEF RoomsInv, TypeOK, Hear
<1>A. PICK c \in Chats : c = open[u]
  BY <1>1 DEF EventsHeld
<1>B. PICK key \in Keys : key = Head(events[u])
  BY <1>1, EventHeard
<1>2. /\ events' = [events EXCEPT ![u] = Tail(@)]
      /\ open' = open /\ tiles' = tiles /\ UNCHANGED server
      /\ outbox' = [outbox EXCEPT ![u] = Append(@, Write("lastSeen", c, key))]
      /\ backdated' = backdated \ {<<u, c>>}
  BY <1>A, <1>B DEF Hear
<1>4. /\ Tail(events[u]) \in Seq(Keys) /\ In(events[u], key)
      /\ Tail(events[u]) = <<>> => Ends(events[u], key)
      /\ \A k : Ends(Tail(events[u]), k) => Ends(events[u], k)
  BY <1>1, <1>B, EventHeard
<1>5. Holds(u, c, key)
  BY <1>1, <1>A, <1>4 DEF EventsHeld
<1>6. \A v \in Users, d \in Chats : \A k : Holds(v, d, k)' <=> Holds(v, d, k)
  BY <1>2, <1>4, <1>5, MarkEffect
<1>7. /\ \A v \in Users, d \in Chats : \A k : ~(v = u /\ d = c) =>
           (SeenBecomes(v, d, k)' <=> SeenBecomes(v, d, k))
      /\ SeenBecomes(u, c, key)'
  <2>1. \A v \in Users, d \in Chats : \A k : SeenBecomes(v, d, k)' <=>
          IF v = u /\ d = c THEN k = key ELSE SeenBecomes(v, d, k)
    BY <1>2, <1>5, MarkEffect, ZenonT(30)
  <2>2. SeenBecomes(u, c, key)'
    BY <2>1
  <2>3. QED
    BY <2>1, <2>2
<1> SUFFICES ASSUME NEW v \in Users, NEW d \in Chats, open[v] = d PROVE SeenAt(v, d)'
  BY <1>2 DEF SeenInv
<1>8. SeenAt(v, d)
  BY DEF SeenInv
<1>9. CASE v = u
  <2>1. d = c
    BY <1>9, <1>A
  <2>2. events'[u] = Tail(events[u])
    BY <1>1, <1>2
  <2>3. \A k \in Keys : NewestIs(u, c, k)' <=> NewestIs(u, c, k)
    BY <1>6 DEF NewestIs
  <2>4. \A k \in Keys : Ends(events'[u], k) => NewestIs(u, c, k)'
    BY <1>4, <1>8, <1>9, <2>1, <2>2, <2>3 DEF SeenAt
  <2>5. ASSUME events'[u] = <<>>, NEW k \in Keys, NewestIs(u, c, k)' PROVE SeenBecomes(u, c, k)'
    <3>1. NewestIs(u, c, key)
      BY <1>4, <1>8, <1>9, <2>1, <2>2, <2>5 DEF SeenAt
    <3>2. k = key
      BY <1>4, <2>3, <2>5, <3>1, OneNewest
    <3>3. QED
      BY <1>7, <3>2
  <2>6. <<u, c>> \notin backdated'
    BY <1>2
  <2>7. QED
    BY <1>9, <2>1, <2>4, <2>5, <2>6 DEF SeenAt
<1>10. CASE v # u
  <2>1. events'[v] = events[v] /\ <<v, d>> # <<u, c>>
    BY <1>1, <1>2, <1>10
  <2>2. QED
    BY <1>2, <1>6, <1>7, <1>8, <1>10, <2>1, SeenKept
<1>11. QED
  BY <1>9, <1>10

LEMMA SeenTap ==
  ASSUME RoomsInv, SeenInv, NEW u \in Users, NEW c \in Chats, Tap(u, c) PROVE SeenInv'
<1> DEFINE key == tiles[u][c]
<1>1. /\ \A v \in Users \ {u} : events'[v] = events[v] /\ open'[v] = open[v]
      /\ open'[u] = c
      /\ open[u] = c => events'[u] = events[u]
      /\ open[u] # c =>
           /\ \A k : Ends(events'[u], k) => NewestIs(u, c, k)
           /\ events'[u] = <<>> => \A k : ~Holds(u, c, k)
  BY TapEvents
<1>2. UNCHANGED <<server, nextKey>> /\ tiles' = tiles
  BY DEF Tap
<1>3. outbox' = IF key = 0 THEN outbox
                ELSE [outbox EXCEPT ![u] = Append(@, Write("lastSeen", c, key))]
  BY DEF Tap
<1>4. backdated' =
        IF key # 0 /\ events'[u] = <<>> /\ key \notin Newest(Known(u, c))
        THEN backdated \union {<<u, c>>}
        ELSE backdated \ {<<u, c>>}
  BY DEF Tap
<1>5. key \in Keys \union {0} /\ 0 \notin Keys
  BY DEF RoomsInv, TypeOK, Keys
<1>6. key # 0 => Holds(u, c, key)
  BY <1>5 DEF RoomsInv, TilesHeld
<1>7. key \in Newest(Known(u, c)) <=> NewestIs(u, c, key)
  BY Terms DEF RoomsInv
<1> HIDE DEF key
<1>8. /\ \A v \in Users, d \in Chats : \A k : Holds(v, d, k)' <=> Holds(v, d, k)
      /\ \A v \in Users, d \in Chats : \A k : ~(v = u /\ d = c) =>
           (SeenBecomes(v, d, k)' <=> SeenBecomes(v, d, k))
      /\ key = 0 => \A k : SeenBecomes(u, c, k)' <=> SeenBecomes(u, c, k)
      /\ key # 0 => \A k : k = key => SeenBecomes(u, c, k)'
  <2>1. CASE key = 0
    <3>1. UNCHANGED <<server, outbox, nextKey>>
      BY <1>2, <1>3, <2>1
    <3>2. /\ \A v \in Users, d \in Chats : \A k : Holds(v, d, k)' <=> Holds(v, d, k)
          /\ \A v \in Users, d \in Chats : \A k : SeenBecomes(v, d, k)' <=> SeenBecomes(v, d, k)
      BY <3>1, NothingWritten
    <3>3. QED
      BY <2>1, <3>2
  <2>2. CASE key # 0
    <3>1. key \in Keys /\ outbox' = [outbox EXCEPT ![u] = Append(@, Write("lastSeen", c, key))]
            /\ UNCHANGED server
      BY <1>2, <1>3, <1>5, <2>2
    <3>2. \A v \in Users, d \in Chats : \A k : Holds(v, d, k)' <=> Holds(v, d, k)
      BY <1>6, <2>2, <3>1, MarkEffect
    <3>3. /\ \A v \in Users, d \in Chats : \A k : ~(v = u /\ d = c) =>
               (SeenBecomes(v, d, k)' <=> SeenBecomes(v, d, k))
          /\ \A k : k = key => SeenBecomes(u, c, k)'
      <4>1. \A v \in Users, d \in Chats : \A k : SeenBecomes(v, d, k)' <=>
              IF v = u /\ d = c THEN k = key ELSE SeenBecomes(v, d, k)
        BY <1>6, <2>2, <3>1, MarkEffect
      <4>2. \A k : k = key => SeenBecomes(u, c, k)'
        BY <4>1
      <4>3. QED
        BY <4>1, <4>2
    <3>4. QED
      BY <2>2, <3>2, <3>3
  <2>3. QED
    BY <2>1, <2>2
<1> SUFFICES ASSUME NEW v \in Users, NEW d \in Chats, open'[v] = d PROVE SeenAt(v, d)'
  BY DEF SeenInv
<1>9. CASE v # u
  <2>1. events'[v] = events[v] /\ open[v] = d /\ <<v, d>> # <<u, c>>
    BY <1>1, <1>9
  <2>2. <<v, d>> \in backdated' <=> <<v, d>> \in backdated
    BY <1>4, <2>1
  <2>3. SeenAt(v, d)
    BY <2>1 DEF SeenInv
  <2>4. /\ \A k : Holds(v, d, k)' <=> Holds(v, d, k)
        /\ \A k : SeenBecomes(v, d, k)' <=> SeenBecomes(v, d, k)
    BY <1>8, <1>9
  <2>5. QED
    BY <1>2, <2>1, <2>2, <2>3, <2>4, SeenKept
<1>10. CASE v = u
  <2>1. d = c
    BY <1>1, <1>10
  <2>2. \A k \in Keys : NewestIs(u, c, k)' <=> NewestIs(u, c, k)
    BY <1>8 DEF NewestIs
  <2>3. open[u] = c => SeenAt(u, c)
    BY DEF SeenInv
  <2>4. \A k \in Keys : Ends(events'[u], k) => NewestIs(u, c, k)'
    BY <1>1, <2>2, <2>3 DEF SeenAt
  <2>5. <<u, c>> \in backdated' <=> key # 0 /\ events'[u] = <<>> /\ ~NewestIs(u, c, key)
    BY <1>4, <1>7
  <2>6. <<u, c>> \in backdated' => tiles'[u][c] # 0
    BY <1>2, <2>5 DEF key
  <2>7. ASSUME events'[u] = <<>>, <<u, c>> \notin backdated', NEW k \in Keys, NewestIs(u, c, k)'
        PROVE  SeenBecomes(u, c, k)'
    <3>1. NewestIs(u, c, k)
      BY <2>2, <2>7
    <3>2. CASE key # 0
      <4>1. NewestIs(u, c, key) /\ key \in Keys
        BY <1>5, <2>5, <2>7, <3>2
      <4>2. k = key
        BY <2>7, <3>1, <4>1, OneNewest
      <4>3. QED
        BY <1>8, <3>2, <4>2
    <3>3. CASE key = 0
      <4>1. open[u] = c
        BY <1>1, <2>7, <3>1 DEF NewestIs
      <4>2. <<u, c>> \notin backdated /\ events[u] = <<>>
        BY <1>1, <2>3, <2>7, <3>3, <4>1 DEF SeenAt, key
      <4>3. SeenBecomes(u, c, k)
        BY <2>3, <2>7, <3>1, <4>1, <4>2 DEF SeenAt
      <4>4. QED
        BY <1>8, <3>3, <4>3
    <3>4. QED
      BY <3>2, <3>3
  <2>8. QED
    BY <1>10, <2>1, <2>4, <2>6, <2>7 DEF SeenAt
<1>11. QED
  BY <1>9, <1>10

LEMMA SeenApply == ASSUME RoomsInv, SeenInv, NEW u \in Users, Apply(u) PROVE SeenInv'
<1> DEFINE w == Head(outbox[u])
<1>0. w = Head(outbox[u])
  OBVIOUS
<1> HIDE DEF w
<1>1. /\ \A d \in Chats : \A k : Holds(u, d, k)' <=> Holds(u, d, k)
      /\ \A v \in Users \ {u}, d \in Chats : \A k : Holds(v, d, k)' <=>
           Holds(v, d, k) \/ (w.field = "message" /\ w.chat = d /\ w.key = k)
  BY <1>0, ApplyEffect
<1>2. \A v \in Users, d \in Chats : \A k : SeenBecomes(v, d, k)' <=> SeenBecomes(v, d, k)
  BY <1>0, ApplyEffect
<1>3. w \in Writes
  BY <1>0, ApplyEffect
<1>4. w.chat \in Chats /\ w.key \in Keys
  BY <1>3 DEF Writes
<1>5. open' = open /\ tiles' = tiles /\ backdated' = backdated
  BY DEF Apply
<1> SUFFICES ASSUME NEW v \in Users, NEW d \in Chats, open[v] = d PROVE SeenAt(v, d)'
  BY <1>5 DEF SeenInv
<1>6. SeenAt(v, d)
  BY DEF SeenInv
<1>7. \/ events'[v] = events[v]
      \/ /\ w.field = "message" /\ v # u /\ open[v] = w.chat
         /\ \A j \in Known(v, w.chat) : j < w.key
         /\ events'[v] = Append(events[v], w.key)
  <2>1. CASE events'[v] # events[v]
    <3>1. w.field = "message" /\ v # u /\ open[v] = w.chat
            /\ events'[v] = Append(events[v], w.key)
      BY <1>0, <2>1, ApplyEvents
    <3>2. \A j \in Known(v, w.chat) : j < w.key
      BY <1>0, <2>1, ApplyEvents
    <3>3. QED
      BY <3>1, <3>2
  <2>2. QED
    BY <2>1
<1>8. CASE ~(w.field = "message" /\ v # u /\ w.chat = d)
  <2>1. events'[v] = events[v]
    BY <1>7, <1>8
  <2>2. \A k : Holds(v, d, k)' <=> Holds(v, d, k)
    BY <1>1, <1>8
  <2>3. QED
    BY <1>2, <1>5, <1>6, <2>1, <2>2, SeenKept
<1>9. CASE w.field = "message" /\ v # u /\ w.chat = d
  <2>1. \A k : Holds(v, d, k)' <=> Holds(v, d, k) \/ w.key = k
    BY <1>1, <1>9
  <2>2. \A k : k \in Known(v, d) <=> Holds(v, d, k)
    BY Terms DEF RoomsInv
  <2>3. CASE events'[v] # events[v]
    <3>1. events'[v] = Append(events[v], w.key) /\ \A j \in Known(v, d) : j < w.key
      BY <1>7, <1>9, <2>3
    <3>2. events[v] \in Seq(Keys)
      BY DEF RoomsInv, TypeOK
    <3>3. events'[v] # <<>> /\ \A k : Ends(events'[v], k) <=> k = w.key
      BY <1>4, <3>1, <3>2, EventAdded
    <3>4. \A k \in Keys : k = w.key => NewestIs(v, d, k)'
      <4>1. \A j \in Keys : Holds(v, d, j)' => j <= w.key
        BY <1>4, <2>1, <2>2, <3>1 DEF Keys
      <4>2. QED
        BY <2>1, <4>1 DEF NewestIs
    <3>5. QED
      BY <1>5, <1>6, <3>3, <3>4 DEF SeenAt
  <2>4. CASE events'[v] = events[v]
    <3>1. PICK j \in Known(v, d) : ~(j < w.key)
      BY <1>0, <1>9, <2>4, ApplyEvents
    <3>2. Holds(v, d, j) /\ j \in Keys
      BY <2>2, Terms DEF RoomsInv
    <3>3. w.key <= j
      BY <1>4, <3>1, <3>2 DEF Keys
    <3>4. ASSUME NEW k \in Keys, NewestIs(v, d, k)' PROVE NewestIs(v, d, k)
      <4>1. j <= k
        BY <2>1, <3>2, <3>4 DEF NewestIs
      <4>2. Holds(v, d, k)
        BY <1>4, <2>1, <3>2, <3>3, <3>4, <4>1 DEF NewestIs, Keys
      <4>3. QED
        BY <2>1, <3>4, <4>2 DEF NewestIs
    <3>5. ASSUME NEW k \in Keys, NewestIs(v, d, k) PROVE NewestIs(v, d, k)'
      <4>1. j <= k
        BY <3>2, <3>5 DEF NewestIs
      <4>2. w.key <= k
        BY <1>4, <3>2, <3>3, <4>1 DEF Keys
      <4>3. QED
        BY <2>1, <3>5, <4>2 DEF NewestIs
    <3>6. QED
      BY <1>2, <1>5, <1>6, <2>4, <3>4, <3>5 DEF SeenAt
  <2>5. QED
    BY <2>3, <2>4
<1>10. QED
  BY <1>8, <1>9

LEMMA SeenStep == RoomsInv /\ SeenInv /\ [Next]_vars => SeenInv'
<1> SUFFICES ASSUME RoomsInv, SeenInv, [Next]_vars PROVE SeenInv'
  OBVIOUS
<1>1. /\ TypeOK
      /\ open \in [Users -> Chats \union {NoKey}] /\ upload \in [Users -> Chats \union {NoKey}]
      /\ events \in [Users -> Seq(Keys)] /\ tiles \in [Users -> [Chats -> Keys \union {0}]]
  BY DEF RoomsInv, TypeOK
<1>2. ASSUME NEW u \in Users, SendText(u) PROVE SeenInv'
  <2>1. open[u] \in Chats /\ Send(u, open[u]) /\ UNCHANGED <<server, open, tiles, backdated>>
    BY <1>1, <1>2 DEF SendText
  <2>2. QED
    BY <2>1, SeenSend
<1>3. ASSUME NEW u \in Users, FinishUpload(u) PROVE SeenInv'
  <2>1. upload[u] \in Chats /\ Send(u, upload[u]) /\ UNCHANGED <<server, open, tiles, backdated>>
    BY <1>1, <1>3 DEF FinishUpload
  <2>2. QED
    BY <2>1, SeenSend
<1>4. ASSUME UNCHANGED <<server, outbox, nextKey>>,
             UNCHANGED <<open, events, tiles, backdated>>
      PROVE  SeenInv'
  <2>1. /\ \A v \in Users, d \in Chats : \A k : Holds(v, d, k)' <=> Holds(v, d, k)
        /\ \A v \in Users, d \in Chats : \A k : SeenBecomes(v, d, k)' <=> SeenBecomes(v, d, k)
    BY <1>4, NothingWritten
  <2>2. ASSUME NEW v \in Users, NEW d \in Chats, open[v] = d PROVE SeenAt(v, d)'
    <3>1. SeenAt(v, d)
      BY <2>2 DEF SeenInv
    <3>2. QED
      BY <1>4, <2>1, <3>1, SeenKept
  <2>3. QED
    BY <1>4, <2>2 DEF SeenInv
<1>5. ASSUME NEW u \in Users, StartUpload(u) \/ FailUpload(u) PROVE SeenInv'
  <2>1. UNCHANGED <<server, outbox, nextKey>> /\ UNCHANGED <<open, events, tiles, backdated>>
    BY <1>5 DEF StartUpload, FailUpload
  <2>2. QED
    BY <1>4, <2>1
<1>6. CASE UNCHANGED vars
  <2>1. UNCHANGED <<server, outbox, nextKey>> /\ UNCHANGED <<open, events, tiles, backdated>>
    BY <1>6 DEF vars, server
  <2>2. QED
    BY <1>4, <2>1
<1>7. ASSUME NEW u \in Users, Refresh(u) PROVE SeenInv'
  <2>1. UNCHANGED <<server, outbox, nextKey>> /\ UNCHANGED <<open, events, backdated>>
    BY <1>7 DEF Refresh
  <2>2. /\ \A v \in Users, d \in Chats : \A k : Holds(v, d, k)' <=> Holds(v, d, k)
        /\ \A v \in Users, d \in Chats : \A k : SeenBecomes(v, d, k)' <=> SeenBecomes(v, d, k)
    BY <2>1, NothingWritten
  <2>3. /\ \A c \in Chats : tiles'[u][c] = Local(u, "lastMessage", c, lastMessage[c])
        /\ \A v \in Users : v # u => tiles'[v] = tiles[v]
    BY <1>1, <1>7 DEF Refresh
  <2>4. ASSUME NEW v \in Users, NEW d \in Chats, tiles[v][d] # 0 PROVE tiles'[v][d] # 0
    <3>1. CASE v # u
      BY <2>3, <2>4, <3>1
    <3>2. CASE v = u
      <4>1. SummaryBecomes(u, d, Local(u, "lastMessage", d, lastMessage[d]))
        BY <1>1, LocalIsFinal DEF SummaryBecomes, Fields
      <4>2. tiles[u][d] \in Keys
        BY <1>1, <2>4, <3>2
      <4>3. ~SummaryBecomes(u, d, 0)
        BY <4>2 DEF RoomsInv, TilesHeld
      <4>4. Local(u, "lastMessage", d, lastMessage[d]) # 0
        BY <4>1, <4>3
      <4>5. QED
        BY <2>3, <3>2, <4>4
    <3>3. QED
      BY <3>1, <3>2
  <2>5. ASSUME NEW v \in Users, NEW d \in Chats, open[v] = d PROVE SeenAt(v, d)'
    <3>1. SeenAt(v, d)
      BY <2>5 DEF SeenInv
    <3>2. QED
      BY <2>1, <2>2, <2>4, <3>1, SeenKept
  <2>6. QED
    BY <2>1, <2>5 DEF SeenInv
<1>8. ASSUME NEW u \in Users, Close(u) PROVE SeenInv'
  <2>1. UNCHANGED <<server, outbox, nextKey>> /\ tiles' = tiles /\ backdated' = backdated
    BY <1>8 DEF Close
  <2>2. /\ \A v \in Users, d \in Chats : \A k : Holds(v, d, k)' <=> Holds(v, d, k)
        /\ \A v \in Users, d \in Chats : \A k : SeenBecomes(v, d, k)' <=> SeenBecomes(v, d, k)
    BY <2>1, NothingWritten
  <2>3. /\ open'[u] = NoKey
        /\ \A v \in Users : v # u => open'[v] = open[v] /\ events'[v] = events[v]
    BY <1>1, <1>8 DEF Close
  <2>4. ASSUME NEW v \in Users, NEW d \in Chats, open'[v] = d PROVE SeenAt(v, d)'
    <3>1. v # u /\ open[v] = d /\ events'[v] = events[v]
      BY <2>3, <2>4, ChatRoomsAssumption
    <3>2. SeenAt(v, d)
      BY <3>1 DEF SeenInv
    <3>3. QED
      BY <2>1, <2>2, <3>1, <3>2, SeenKept
  <2>5. QED
    BY <2>4 DEF SeenInv
<1>9. ASSUME NEW u \in Users, Crash(u) PROVE SeenInv'
  <2>1. \A v \in Users \ {u}, d \in Chats : \A k : Holds(v, d, k)' <=> Holds(v, d, k)
    BY <1>9, CrashEffect
  <2>2. \A v \in Users \ {u}, d \in Chats : \A k : SeenBecomes(v, d, k)' <=> SeenBecomes(v, d, k)
    BY <1>9, CrashEffect
  <2>3. /\ open'[u] = NoKey /\ backdated' = backdated
        /\ \A v \in Users : v # u =>
             open'[v] = open[v] /\ events'[v] = events[v] /\ tiles'[v] = tiles[v]
    BY <1>1, <1>9 DEF Crash
  <2>4. ASSUME NEW v \in Users, NEW d \in Chats, open'[v] = d PROVE SeenAt(v, d)'
    <3>1. v # u /\ open[v] = d /\ events'[v] = events[v] /\ tiles'[v] = tiles[v]
      BY <2>3, <2>4, ChatRoomsAssumption
    <3>2. SeenAt(v, d)
      BY <3>1 DEF SeenInv
    <3>3. QED
      BY <2>1, <2>2, <2>3, <3>1, <3>2, SeenKept
  <2>5. QED
    BY <2>4 DEF SeenInv
<1>10. QED
  BY <1>2, <1>3, <1>5, <1>6, <1>7, <1>8, <1>9, SeenHear, SeenTap, SeenApply DEF Next, Client

(***************************************************************************)
(* A conversation that is open and at rest carries no badge, with the two  *)
(* exceptions the property names.                                          *)
(***************************************************************************)
THEOREM OpenIsRead == Spec => []OpenMeansRead
<1>1. RoomsInv /\ SummaryInv /\ SeenInv => OpenMeansRead
  <2> SUFFICES ASSUME RoomsInv, SummaryInv, SeenInv, NEW u \in Users, NEW c \in Chats,
                      Settled(c), open[u] = c, events[u] = <<>>,
                      c \notin torn, <<u, c>> \notin backdated, lastMessage[c] # 0
               PROVE  lastMessage[c] = lastSeen[c][u]
    BY DEF OpenMeansRead, Badge
  <2>1. lastMessage[c] \in stored[c] /\ lastMessage[c] \in Keys
    BY DEF RoomsInv, NoDanglingKeys, TypeOK
  <2>2. NewestIs(u, c, lastMessage[c])
    BY <2>1, NewestAtRest
  <2>3. SeenBecomes(u, c, lastMessage[c])
    BY <2>1, <2>2 DEF SeenInv, SeenAt
  <2>4. QED
    BY <2>3, AtRest
<1>2. Init => SummaryInv /\ SeenInv
  BY RoomsInitially
<1>3. QED
  BY <1>1, <1>2, RoomsCorrect, SummaryStep, SeenStep, PTL DEF Spec
=============================================================================
