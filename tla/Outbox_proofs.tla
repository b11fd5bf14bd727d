---------------------------- MODULE Outbox_proofs ----------------------------
(***************************************************************************)
(* Theorems about Outbox, for every set of agents and causes and every     *)
(* bound: notices written with their cause are not forgotten, there is one *)
(* copy of each, and only a failed one is overtaken.                       *)
(***************************************************************************)
EXTENDS Outbox, FiniteSetTheorems, SequenceTheorems, TLAPS

USE OutboxAssumption

\* No element twice
Once(s) == \A i, j \in 1 .. Len(s) : s[i] = s[j] => i = j

\* What is in the outbox is nowhere else, and on disk if it was written with its
\* cause; what is owed is in the outbox, given up on, or taken in
BoxInv ==
    /\ Once(outbox) /\ Elements(outbox) \cap dead = {} /\ IsFiniteSet(dead)
    /\ \A n \in Notices :
          /\ rows[n] # 0 => n \in Elements(outbox)
          /\ n \in Elements(outbox) /\ Enqueued[n[1]] = "within" => rows[n] # 0
          /\ n[1] \in Elements(owed) /\ Enqueued[n[1]] = "within" =>
                n \in Elements(outbox) \cup dead \/ Received(n)
          /\ n \in dead \/ attempts[n] < MaxAttempts

\* The running flush is about notices in the outbox, each visited once
FlushInv ==
    /\ pass \subseteq Elements(outbox) /\ sending \notin pass
    /\ sending # Nothing => sending \in Elements(outbox)
    /\ ~flushing => sending = Nothing

\* Everything pushed or given up on is owed, and has a single cause
OwedInv ==
    /\ Once(owed)
    /\ \A n \in Notices :
          n \in Elements(outbox) \cup dead \cup late \cup failed \/ Received(n)
          => n[1] \in Elements(owed)

\* m comes before n to the same agent, and no push of m has failed
Leads(m, n) == m[2] = n[2] /\ HappenedBefore(m, n) /\ m \notin failed

\* Until a restart a notice that leads another one is ahead of it everywhere: in
\* the outbox, in the pass of the running flush, and on its way to the agent
Ahead(m, n) ==
    /\ n \in failed \cup {sending} \/ Received(n) => Received(m)
    /\ m \in Elements(outbox) /\ n \in Elements(outbox) =>
          Place(outbox, m) < Place(outbox, n)
    /\ m \in Elements(outbox) /\ n \in pass => m \in pass \cup {sending}

OrderInv ==
    /\ dead \cup waiting \cup late \subseteq failed
    /\ \A n \in Notices : n[1] \in Elements(owed) =>
          n \in Elements(outbox) \cup dead \/ Received(n)
    /\ \A n \in Notices : n \in Elements(outbox) /\ Received(n) => n \in failed
    /\ \A m, n \in Notices : Leads(m, n) => Ahead(m, n)
    /\ OnlyFailedOvertaken

\* What an agent took in was for it
Addressed == \A a \in Agents : \A n \in Elements(inbox[a]) : n[2] = a

Inv == BoxInv /\ FlushInv /\ OwedInv /\ Addressed /\ (~restarted => OrderInv)

\* Taken in once, as long as the agent remembers all it took in
RememberedOnce == \A a \in Agents : Len(inbox[a]) <= Window => Once(inbox[a])

----------------------------------------------------------------------------
(* Lists without repetition                                                *)

LEMMA ElementsOf ==
    ASSUME NEW S, NEW s \in Seq(S)
    PROVE  /\ Len(s) \in Nat /\ Elements(s) \subseteq S
           /\ \A x : x \in Elements(s) <=> \E i \in 1 .. Len(s) : s[i] = x
  BY DEF Elements

LEMMA PlaceOf ==
    ASSUME NEW S, NEW s \in Seq(S), NEW x \in Elements(s)
    PROVE  /\ Place(s, x) \in 1 .. Len(s) /\ s[Place(s, x)] = x
           /\ Once(s) => \A i \in 1 .. Len(s) : s[i] = x => i = Place(s, x)
  <1>1. \E i \in 1 .. Len(s) : s[i] = x
    BY DEF Elements
  <1> QED  BY <1>1 DEF Place, Once

\* A notice taken off the list: the others stay, in their order
LEMMA WithoutOne ==
    ASSUME NEW S, NEW s \in Seq(S), Once(s), NEW x \in Elements(s)
    PROVE  /\ Without(s, x) \in Seq(S) /\ Once(Without(s, x))
           /\ Elements(Without(s, x)) = Elements(s) \ {x}
           /\ \A y, z \in Elements(s) \ {x} : Place(s, y) < Place(s, z) =>
                 Place(Without(s, x), y) < Place(Without(s, x), z)
  <1> DEFINE w == Without(s, x)
             old(i) == IF i < Place(s, x) THEN i ELSE i + 1
  <1>1. PICK p \in 1 .. Len(s) : p = Place(s, x) /\ s[p] = x
    BY PlaceOf
  <1>2. Len(s) \in Nat /\ Len(s) - 1 \in Nat
    BY <1>1
  <1>3. w = [i \in 1 .. Len(s) - 1 |-> IF i < p THEN s[i] ELSE s[i + 1]]
    BY <1>1 DEF Without
  <1>4. w \in Seq(S) /\ Len(w) = Len(s) - 1
    <2>1. \A i \in 1 .. Len(s) - 1 : (IF i < p THEN s[i] ELSE s[i + 1]) \in S
      BY <1>1, <1>2
    <2>2. w \in [1 .. Len(s) - 1 -> S]
      BY <1>3, <2>1
    <2> QED  BY <1>2, <2>2
  <1>5. \A i \in 1 .. Len(w) : w[i] = s[old(i)] /\ old(i) \in 1 .. Len(s) /\ old(i) # p
    BY <1>1, <1>2, <1>3, <1>4
  <1>6. \A i, j \in 1 .. Len(w) : old(i) = old(j) => i = j
    BY <1>1, <1>2, <1>4
  <1> HIDE DEF w
  <1>7. Once(w)
    BY <1>5, <1>6 DEF Once
  <1>8. ASSUME NEW y PROVE y \in Elements(w) <=> y \in Elements(s) \ {x}
    <2>1. ASSUME y \in Elements(w) PROVE y \in Elements(s) \ {x}
      BY <1>1, <1>5, <2>1 DEF Elements, Once
    <2>2. ASSUME NEW k \in 1 .. Len(s), s[k] = y, y # x PROVE y \in Elements(w)
      <3>1. CASE k < p
        <4>1. k \in 1 .. Len(w) /\ old(k) = k
          BY <1>1, <1>2, <1>4, <3>1
        <4> QED  BY <1>5, <2>2, <4>1 DEF Elements
      <3>2. CASE k > p
        <4>1. k - 1 \in 1 .. Len(w) /\ old(k - 1) = k
          BY <1>1, <1>2, <1>4, <3>2
        <4> QED  BY <1>5, <2>2, <4>1 DEF Elements
      <3> QED  BY <1>1, <1>2, <2>2, <3>1, <3>2
    <2> QED  BY <2>1, <2>2 DEF Elements
  <1>9. ASSUME NEW y \in Elements(s) \ {x}, NEW z \in Elements(s) \ {x},
               Place(s, y) < Place(s, z)
        PROVE  Place(w, y) < Place(w, z)
    <2>1. y \in Elements(w) /\ z \in Elements(w)
      BY <1>8
    <2>2. PICK i \in 1 .. Len(w) : i = Place(w, y) /\ w[i] = y
      BY <1>4, <2>1, PlaceOf, SMTT(60)
    <2>3. PICK j \in 1 .. Len(w) : j = Place(w, z) /\ w[j] = z
      BY <1>4, <2>1, PlaceOf, SMTT(60)
    <2>4. old(i) = Place(s, y) /\ old(j) = Place(s, z)
      BY <1>5, <2>2, <2>3, PlaceOf, SMTT(60)
    <2>5. i < j
      BY <1>1, <1>2, <1>4, <1>9, <2>2, <2>3, <2>4
    <2> QED  BY <2>2, <2>3, <2>5
  <1>10. Elements(w) = Elements(s) \ {x}
    BY <1>8
  <1> QED  BY <1>4, <1>7, <1>9, <1>10 DEF w

\* Lists put one after the other: the places of the first one's are kept
LEMMA Joined ==
    ASSUME NEW S, NEW s \in Seq(S), NEW t \in Seq(S), Once(s), Once(t),
           Elements(s) \cap Elements(t) = {}
    PROVE  /\ s \o t \in Seq(S) /\ Once(s \o t)
           /\ Elements(s \o t) = Elements(s) \cup Elements(t)
           /\ \A y \in Elements(s) : Place(s \o t, y) = Place(s, y)
           /\ \A y \in Elements(s), z \in Elements(t) :
                 Place(s \o t, y) < Place(s \o t, z)
  <1> DEFINE j == s \o t
  <1>1. /\ j \in Seq(S) /\ Len(j) = Len(s) + Len(t) /\ Len(s) \in Nat /\ Len(t) \in Nat
        /\ \A i \in 1 .. Len(j) : j[i] = IF i <= Len(s) THEN s[i] ELSE t[i - Len(s)]
    BY ConcatProperties
  <1> HIDE DEF j
  <1>2. \A i \in 1 .. Len(s) : i \in 1 .. Len(j) /\ j[i] = s[i]
    BY <1>1
  <1>3. ASSUME NEW i \in 1 .. Len(t)
        PROVE  i + Len(s) \in 1 .. Len(j) /\ j[i + Len(s)] = t[i]
    <2>1. i + Len(s) \in 1 .. Len(j) /\ ~(i + Len(s) <= Len(s))
      BY <1>1
    <2>2. (i + Len(s)) - Len(s) = i
      BY <1>1
    <2> QED  BY <1>1, <2>1, <2>2
  <1>4. ASSUME NEW i \in 1 .. Len(j)
        PROVE  \/ i \in 1 .. Len(s) /\ j[i] = s[i]
               \/ i - Len(s) \in 1 .. Len(t) /\ j[i] = t[i - Len(s)]
    <2>1. CASE i <= Len(s)
      BY <1>1, <2>1
    <2>2. CASE ~(i <= Len(s))
      <3>1. i - Len(s) \in 1 .. Len(t)
        BY <1>1, <2>2
      <3> QED  BY <1>1, <2>2, <3>1
    <2> QED  BY <2>1, <2>2
  <1>5. Elements(j) = Elements(s) \cup Elements(t)
    <2>1. \A y : y \in Elements(j) => y \in Elements(s) \cup Elements(t)
      BY <1>4 DEF Elements
    <2>2. \A y : y \in Elements(s) \cup Elements(t) => y \in Elements(j)
      <3>1. ASSUME NEW i \in 1 .. Len(s) PROVE s[i] \in Elements(j)
        BY <1>2 DEF Elements
      <3>2. ASSUME NEW i \in 1 .. Len(t) PROVE t[i] \in Elements(j)
        BY <1>3 DEF Elements
      <3> QED  BY <3>1, <3>2, SMTT(60) DEF Elements
    <2> QED  BY <2>1, <2>2
  <1>6. Once(j)
    <2> SUFFICES ASSUME NEW a \in 1 .. Len(j), NEW b \in 1 .. Len(j), j[a] = j[b]
                 PROVE  a = b
      BY DEF Once
    <2>1. /\ \A i \in 1 .. Len(s) : s[i] \in Elements(s)
          /\ \A i \in 1 .. Len(t) : t[i] \in Elements(t)
      BY DEF Elements
    <2>2. CASE a \in 1 .. Len(s) /\ b \in 1 .. Len(s)
      BY <1>2, <2>2 DEF Once
    <2>3. CASE a - Len(s) \in 1 .. Len(t) /\ b - Len(s) \in 1 .. Len(t)
      <3>1. t[a - Len(s)] = t[b - Len(s)]
        BY <1>1, <2>3
      <3>2. a - Len(s) = b - Len(s)
        BY <2>3, <3>1 DEF Once
      <3> QED  BY <1>1, <3>2
    <2> QED  BY <1>4, <2>1, <2>2, <2>3
  <1>7. ASSUME NEW y \in Elements(s) PROVE Place(j, y) = Place(s, y)
    <2>1. Place(s, y) \in 1 .. Len(s) /\ s[Place(s, y)] = y
      BY PlaceOf
    <2>2. y \in Elements(j)
      BY <1>5
    <2> QED  BY <1>1, <1>2, <1>6, <2>1, <2>2, PlaceOf, SMTT(60)
  <1>8. ASSUME NEW y \in Elements(s), NEW z \in Elements(t)
        PROVE  Place(j, y) < Place(j, z)
    <2>1. PICK q \in 1 .. Len(t) : t[q] = z
      BY DEF Elements
    <2>2. z \in Elements(j) /\ Place(j, z) = q + Len(s)
      <3>1. z \in Elements(j)
        BY <1>5
      <3>2. q + Len(s) \in 1 .. Len(j) /\ j[q + Len(s)] = z
        BY <1>3, <2>1
      <3> QED  BY <1>1, <1>6, <3>1, <3>2, PlaceOf
    <2>3. Place(j, y) \in 1 .. Len(s)
      BY <1>7, PlaceOf
    <2> QED  BY <1>1, <2>2, <2>3
  <1> QED  BY <1>1, <1>5, <1>6, <1>7, <1>8 DEF j

LEMMA AppendedOne ==
    ASSUME NEW S, NEW s \in Seq(S), NEW x \in S
    PROVE  /\ Append(s, x) \in Seq(S)
           /\ Elements(Append(s, x)) = Elements(s) \cup {x}
           /\ Len(Append(s, x)) = Len(s) + 1 /\ Append(s, x)[Len(s) + 1] = x
           /\ \A i \in 1 .. Len(s) : Append(s, x)[i] = s[i]
           /\ Once(s) /\ x \notin Elements(s) => Once(Append(s, x))
  <1> DEFINE a == Append(s, x)
  <1>1. /\ a \in Seq(S) /\ Len(s) \in Nat /\ Len(a) = Len(s) + 1
        /\ \A i \in 1 .. Len(s) : a[i] = s[i]
        /\ a[Len(s) + 1] = x
    OBVIOUS
  <1> HIDE DEF a
  <1>2. \A i : i \in 1 .. Len(a) <=> i \in 1 .. Len(s) \/ i = Len(s) + 1
    BY <1>1
  <1>3. \A y : y \in Elements(a) <=> y \in Elements(s) \/ y = x
    BY <1>1, <1>2 DEF Elements
  <1>4. Once(s) /\ x \notin Elements(s) => Once(a)
    BY <1>1, <1>2 DEF Once, Elements
  <1> QED  BY <1>1, <1>3, <1>4 DEF a

\* The length of a list without repetition counts its elements
LEMMA CountsElements ==
    ASSUME NEW S, NEW s \in Seq(S)
    PROVE  /\ IsFiniteSet(Elements(s))
           /\ Once(s) <=> Cardinality(Elements(s)) = Len(s)
  <1>1. /\ Len(s) \in Nat /\ s \in [1 .. Len(s) -> Elements(s)]
    BY LenProperties DEF Elements
  <1>2. s \in Surjection(1 .. Len(s), Elements(s))
    BY <1>1 DEF Surjection, Elements
  <1>3. IsFiniteSet(1 .. Len(s)) /\ Cardinality(1 .. Len(s)) = Len(s)
    BY <1>1, FS_Interval, SMTT(60)
  <1>4. /\ IsFiniteSet(Elements(s))
        /\ Cardinality(Elements(s)) = Len(s) <=> s \in Injection(1 .. Len(s), Elements(s))
    BY <1>2, <1>3, FS_Surjection
  <1>5. s \in Injection(1 .. Len(s), Elements(s)) <=> Once(s)
    BY <1>1 DEF Injection, IsInjective, Once
  <1> QED  BY <1>4, <1>5

\* What a finite set is arranged to
LEMMA Arranged ==
    ASSUME NEW S, NEW T \in SUBSET S, IsFiniteSet(T), NEW s \in Arrangements(T)
    PROVE  s \in Seq(S) /\ Elements(s) = T /\ Once(s)
  <1>1. Cardinality(T) \in Nat /\ s \in [1 .. Cardinality(T) -> T] /\ Elements(s) = T
    BY FS_CardinalityType DEF Arrangements
  <1>2. s \in Seq(S) /\ Len(s) = Cardinality(T)
    BY <1>1
  <1> QED  BY <1>1, <1>2, CountsElements

\* Of a list's elements one comes first
LEMMA FirstOf ==
    ASSUME NEW S, NEW s \in Seq(S), NEW T \in SUBSET Elements(s), T # {}
    PROVE  /\ First(s, T) \in T
           /\ \A m \in T : Place(s, First(s, T)) <= Place(s, m)
  <1> DEFINE P == {Place(s, m) : m \in T}
  <1>1. P \subseteq Nat /\ P # {}
    BY PlaceOf
  <1>2. PICK p \in P : \A q \in P : ~(<<q, p>> \in OpToRel(<, Nat))
    BY <1>1, NatLessThanWellFounded, WFMin
  <1>3. \A q \in P : ~(q < p)
    BY <1>1, <1>2 DEF OpToRel
  <1>4. PICK n \in T : p = Place(s, n)
    OBVIOUS
  <1>5. ASSUME NEW m \in T PROVE Place(s, n) <= Place(s, m)
    <2>1. Place(s, m) \in P /\ Place(s, m) \in Nat /\ Place(s, n) \in Nat
      BY PlaceOf
    <2>2. ~(Place(s, m) < Place(s, n))
      BY <1>3, <1>4, <2>1
    <2> QED  BY <2>1, <2>2
  <1> QED  BY <1>5 DEF First

----------------------------------------------------------------------------
(* Notices, the store and the flush                                        *)

LEMMA NoticesInOrder ==
    ASSUME NEW c \in Causes
    PROVE  /\ Len(NoticesOf(c)) = Len(Recipients[c]) /\ Len(Recipients[c]) \in Nat
           /\ \A i \in 1 .. Len(Recipients[c]) :
                 NoticesOf(c)[i] = <<c, Recipients[c][i]>> /\ Recipients[c][i] \in Agents
           /\ \A n \in Elements(NoticesOf(c)) : n[1] = c /\ n[2] \in Agents
  <1>1. Len(Recipients[c]) \in Nat
    OBVIOUS
  <1>2. \A i \in 1 .. Len(Recipients[c]) :
           NoticesOf(c)[i] = <<c, Recipients[c][i]>> /\ Recipients[c][i] \in Agents
    BY DEF NoticesOf
  <1>3. Len(NoticesOf(c)) = Len(Recipients[c])
    BY <1>1 DEF NoticesOf
  <1>4. \A n \in Elements(NoticesOf(c)) : n[1] = c /\ n[2] \in Agents
    BY <1>2, <1>3 DEF Elements
  <1> QED  BY <1>1, <1>2, <1>3, <1>4

LEMMA NoticeIs ==
    ASSUME NEW n \in Notices
    PROVE  n[1] \in Causes /\ n[2] \in Agents /\ n # Nothing
  <1>1. PICK c \in Causes : n \in Elements(NoticesOf(c))
    BY DEF Notices
  <1>2. PICK i \in 1 .. Len(NoticesOf(c)) : NoticesOf(c)[i] = n
    BY <1>1 DEF Elements
  <1>3. n = <<c, Recipients[c][i]>>
    BY <1>2, NoticesInOrder
  <1>4. n # <<>>
    BY <1>3
  <1> QED  BY <1>1, <1>4, NoticesInOrder DEF Nothing

\* A cause owes each of its recipients one notice
LEMMA NoticesOfCause ==
    ASSUME NEW c \in Causes
    PROVE  /\ NoticesOf(c) \in Seq(Notices) /\ Once(NoticesOf(c))
           /\ \A n \in Notices : n \in Elements(NoticesOf(c)) <=> n[1] = c
  <1> DEFINE s == NoticesOf(c)
  <1>1. /\ Len(s) = Len(Recipients[c]) /\ Len(s) \in Nat
        /\ \A i \in 1 .. Len(s) : s[i] = <<c, Recipients[c][i]>>
    BY NoticesInOrder
  <1>2. s \in Seq(Notices)
    <2>1. \A i \in 1 .. Len(Recipients[c]) : s[i] \in Notices
      BY <1>1 DEF Notices, Elements
    <2>2. s \in [1 .. Len(Recipients[c]) -> Notices]
      BY <2>1 DEF NoticesOf
    <2> HIDE DEF s
    <2> QED  BY <1>1, <2>2
  <1>3. Once(s)
    BY <1>1 DEF Once
  <1>4. ASSUME NEW n \in Notices PROVE n \in Elements(s) <=> n[1] = c
    <2>1. PICK d \in Causes : n \in Elements(NoticesOf(d))
      BY DEF Notices
    <2> QED  BY <2>1, NoticesInOrder
  <1> QED  BY <1>2, <1>3, <1>4

LEMMA Persists ==
    ASSUME NEW box \in Seq(Notices), NEW changed, rows \in [Notices -> Nat],
           Persist(box, changed)
    PROVE  /\ rows' \in [Notices -> Nat]
           /\ \A n \in Notices : rows'[n] # 0 <=> n \in Elements(box)
  <1>1. ASSUME NEW n \in Notices
        PROVE  rows'[n] \in Nat /\ (rows'[n] # 0 <=> n \in Elements(box))
    <2>1. CASE n \notin Elements(box)
      BY <2>1 DEF Persist
    <2>2. CASE n \in Elements(box)
      <3>1. Place(box, n) \in Nat \ {0}
        BY <2>2, PlaceOf
      <3> QED  BY <2>2, <3>1 DEF Persist
    <2> QED  BY <2>1, <2>2
  <1>2. rows' \in [Notices -> Nat]
    <2>1. rows' = [n \in Notices |-> rows'[n]]
      BY DEF Persist
    <2> QED  BY <1>1, <2>1
  <1> QED  BY <1>1, <1>2

\* A started venue owes what its store holds
LEMMA Reloads ==
    ASSUME NEW table \in [Notices -> Nat], NEW box \in Seq(Notices),
           \A n \in Notices : table[n] # 0 => n \in Elements(box),
           NEW s \in Loads(table)
    PROVE  /\ s \in Seq(Notices) /\ Once(s)
           /\ \A n \in Notices : n \in Elements(s) <=> table[n] # 0
  <1> DEFINE T == {n \in Notices : table[n] # 0}
  <1>1. IsFiniteSet(T) /\ T \in SUBSET Notices
    <2>1. T \in SUBSET Elements(box)
      OBVIOUS
    <2> QED  BY <2>1, CountsElements, FS_Subset
  <1>2. s \in Arrangements(T)
    BY DEF Loads
  <1> HIDE DEF T
  <1>3. s \in Seq(Notices) /\ Elements(s) = T /\ Once(s)
    BY <1>1, <1>2, Arranged
  <1> QED  BY <1>3 DEF T

LEMMA Pushes ==
    ASSUME NEW box \in Seq(Notices), NEW todo \in SUBSET Elements(box), Push(box, todo)
    PROVE  /\ flushing' \in BOOLEAN
           /\ ~flushing' => sending' = Nothing
           /\ sending' # Nothing => sending' \in todo
           /\ pass' = todo \ {sending'}
           /\ sending' = Nothing => todo = {}
           /\ sending' # Nothing =>
                 \A m \in todo : Place(box, sending') <= Place(box, m)
  <1> Elements(box) \subseteq Notices
    BY ElementsOf
  <1>1. CASE todo = {}
    BY <1>1, NoticeIs DEF Push
  <1>2. CASE todo # {}
    <2>1. /\ flushing' = TRUE /\ sending' = First(box, todo)
          /\ pass' = todo \ {sending'}
      BY <1>2 DEF Push
    <2>2. /\ sending' \in todo
          /\ \A m \in todo : Place(box, sending') <= Place(box, m)
      BY <1>2, <2>1, FirstOf
    <2> QED  BY <2>1, <2>2, NoticeIs
  <1> QED  BY <1>1, <1>2

\* A notice that leads another one of the pass is pushed before it
LEMMA PushesLeader ==
    ASSUME NEW box \in Seq(Notices), NEW todo \in SUBSET Elements(box),
           Push(box, todo), NEW m \in Notices, NEW n \in Notices,
           m \in Elements(box) /\ n \in Elements(box) => Place(box, m) < Place(box, n),
           m \in Elements(box) /\ n \in todo => m \in todo
    PROVE  /\ n = sending' => m \notin Elements(box)
           /\ m \in Elements(box) /\ n \in pass' => m \in pass' \cup {sending'}
  <1>1. m \in Elements(box) => Place(box, m) \in Nat
    BY PlaceOf
  <1>2. n \in Elements(box) => Place(box, n) \in Nat
    BY PlaceOf
  <1>3. n # Nothing
    BY NoticeIs
  <1> QED  BY <1>1, <1>2, <1>3, Pushes

LEMMA TakesIn ==
    ASSUME TypeOK, NEW n \in Notices, TakeIn(n)
    PROVE  /\ inbox' \in [Agents -> Seq(Notices)]
           /\ \A k \in Notices : Received(k)' <=> Received(k) \/ k = n
           /\ \/ inbox' = inbox
              \/ /\ ~Seen(n[2], n)
                 /\ \A a \in Agents : inbox'[a] = IF a = n[2] THEN Append(inbox[a], n)
                                                  ELSE inbox[a]
  <1> n[2] \in Agents /\ inbox \in [Agents -> Seq(Notices)]
    BY NoticeIs DEF TypeOK
  <1>1. CASE Seen(n[2], n) /\ inbox' = inbox
    <2>1. Received(n)
      BY <1>1 DEF Seen, Received, Elements
    <2> QED  BY <1>1, <2>1 DEF Received
  <1>2. CASE ~Seen(n[2], n) /\ inbox' = [inbox EXCEPT ![n[2]] = Append(@, n)]
    <2>1. \A a \in Agents : inbox'[a] = IF a = n[2] THEN Append(inbox[a], n)
                                        ELSE inbox[a]
      BY <1>2
    <2>2. /\ Append(inbox[n[2]], n) \in Seq(Notices)
          /\ Elements(Append(inbox[n[2]], n)) = Elements(inbox[n[2]]) \cup {n}
      BY AppendedOne
    <2>3. inbox' \in [Agents -> Seq(Notices)]
      BY <1>2, <2>2
    <2>4. ASSUME NEW k \in Notices PROVE Received(k)' <=> Received(k) \/ k = n
      <3>1. k[2] \in Agents
        BY NoticeIs
      <3>2. CASE k[2] = n[2]
        <4>1. Elements(inbox'[k[2]]) = Elements(inbox[k[2]]) \cup {n}
          BY <2>1, <2>2, <3>1, <3>2
        <4> QED  BY <4>1 DEF Received
      <3>3. CASE k[2] # n[2]
        <4>1. inbox'[k[2]] = inbox[k[2]]
          BY <2>1, <3>1, <3>3
        <4> QED  BY <3>3, <4>1 DEF Received
      <3> QED  BY <3>2, <3>3
    <2> QED  BY <1>2, <2>1, <2>3, <2>4
  <1> QED  BY <1>1, <1>2 DEF TakeIn

----------------------------------------------------------------------------
(* Type correctness                                                        *)

LEMMA TypeInit == Init => TypeOK
  <1> SUFFICES ASSUME Init PROVE TypeOK
    OBVIOUS
  <1>1. owed \in Seq(Causes) /\ outbox \in Seq(Notices)
    BY DEF Init
  <1>2. inbox \in [Agents -> Seq(Notices)]
    BY EmptySeq DEF Init
  <1>3. rows \in [Notices -> Nat] /\ attempts \in [Notices -> 0 .. MaxAttempts]
    BY DEF Init
  <1>4. /\ dead \subseteq Notices /\ waiting \subseteq Notices /\ failed \subseteq Notices
        /\ pass \subseteq Notices /\ blocked \subseteq Agents /\ late \subseteq Notices
        /\ sending \in Notices \cup {Nothing}
    BY DEF Init
  <1>5. flushing \in BOOLEAN /\ restarted \in BOOLEAN
    BY DEF Init
  <1>6. turns \in 0 .. MaxTurns
    BY DEF Init
  <1> QED  BY <1>1, <1>2, <1>3, <1>4, <1>5, <1>6 DEF TypeOK

LEMMA TypeFlush ==
    ASSUME TypeOK, NEW box \in Seq(Notices), Flush(box)
    PROVE  /\ flushing' \in BOOLEAN /\ pass' \subseteq Notices
           /\ blocked' \subseteq Agents /\ sending' \in Notices \cup {Nothing}
  <1>1. CASE flushing /\ UNCHANGED flushVars
    BY <1>1 DEF TypeOK, flushVars
  <1>2. CASE ~flushing /\ blocked' = {} /\ Push(box, Due(box))
    <2>1. Due(box) \in SUBSET Elements(box) /\ Elements(box) \subseteq Notices
      BY ElementsOf DEF Due
    <2> QED  BY <1>2, <2>1, Pushes
  <1> QED  BY <1>1, <1>2 DEF Flush

LEMMA TypeRestart ==
    ASSUME TypeOK, NEW table \in [Notices -> Nat], NEW box \in Seq(Notices),
           \A n \in Notices : table[n] # 0 => n \in Elements(box), Restart(table)
    PROVE  /\ outbox' \in Seq(Notices) /\ turns' \in 0 .. MaxTurns
           /\ restarted' \in BOOLEAN /\ flushing' \in BOOLEAN /\ late' \subseteq Notices
           /\ pass' \subseteq Notices /\ blocked' \subseteq Agents
           /\ sending' \in Notices \cup {Nothing}
  <1>1. late' \subseteq Notices
    BY DEF Restart, Unanswered, TypeOK
  <1>2. outbox' \in Seq(Notices)
    BY Reloads DEF Restart
  <1>3. turns' \in 0 .. MaxTurns
    BY DEF Restart, TypeOK
  <1> QED  BY <1>1, <1>2, <1>3 DEF Restart

LEMMA TypeNext ==
    ASSUME TypeOK, BoxInv, FlushInv, Next
    PROVE  TypeOK'
  <1>1. ASSUME NEW c \in Causes, Owe(c) PROVE TypeOK'
    <2>1. outbox' \in Seq(Notices)
      BY <1>1, NoticesOfCause, ConcatProperties DEF Owe, TypeOK
    <2>2. rows' \in [Notices -> Nat]
      BY <1>1, <2>1, Persists DEF Owe, TypeOK
    <2>3. owed' \in Seq(Causes)
      BY <1>1 DEF Owe, TypeOK
    <2>4. /\ flushing' \in BOOLEAN /\ pass' \subseteq Notices
          /\ blocked' \subseteq Agents /\ sending' \in Notices \cup {Nothing}
      BY <1>1, <2>1, TypeFlush DEF Owe
    <2> QED  BY <1>1, <2>1, <2>2, <2>3, <2>4 DEF Owe, TypeOK
  <1>2. CASE Heartbeat
    <2>1. rows' \in [Notices -> Nat]
      BY <1>2, Persists DEF Heartbeat, TypeOK
    <2> QED  BY <1>2, <2>1 DEF Heartbeat, TypeOK, flushVars
  <1>3. CASE FlushJob
    <2>1. /\ flushing' \in BOOLEAN /\ pass' \subseteq Notices
          /\ blocked' \subseteq Agents /\ sending' \in Notices \cup {Nothing}
      BY <1>3, TypeFlush DEF FlushJob, TypeOK
    <2> QED  BY <1>3, <2>1 DEF FlushJob, TypeOK, boxVars
  <1>4. CASE Delivered
    <2> DEFINE todo == {m \in pass : m[2] \notin blocked}
    <2>1. PICK n \in Notices : n = sending /\ n \in Elements(outbox) /\ TakeIn(n)
      BY <1>4 DEF Delivered, TypeOK, FlushInv
    <2>2. /\ outbox' = Without(outbox, n) /\ outbox' \in Seq(Notices)
          /\ Elements(outbox') = Elements(outbox) \ {n}
      BY <1>4, <2>1, WithoutOne DEF Delivered, TypeOK, BoxInv
    <2>3. todo \in SUBSET Elements(outbox')
      BY <2>1, <2>2 DEF FlushInv
    <2>4. Push(outbox', todo)
      BY <1>4 DEF Delivered
    <2> HIDE DEF todo
    <2>5. flushing' \in BOOLEAN /\ pass' \subseteq Notices /\ sending' \in Notices \cup {Nothing}
      BY <2>2, <2>3, <2>4, Pushes, ElementsOf
    <2>6. rows' \in [Notices -> Nat]
      BY <1>4, <2>2, Persists DEF Delivered, TypeOK
    <2>7. inbox' \in [Agents -> Seq(Notices)]
      BY <2>1, TakesIn
    <2> QED  BY <1>4, <2>2, <2>5, <2>6, <2>7 DEF Delivered, TypeOK
  <1>5. CASE Undelivered
    <2> DEFINE todo == {m \in pass : m[2] \notin blocked \cup {sending[2]}}
    <2>1. PICK n \in Notices : n = sending /\ n \in Elements(outbox)
      BY <1>5 DEF Undelivered, TypeOK, FlushInv
    <2>2. /\ outbox' \in {Without(outbox, n), outbox} /\ outbox' \in Seq(Notices)
          /\ Elements(outbox) \ {n} \subseteq Elements(outbox')
      BY <1>5, <2>1, WithoutOne DEF Undelivered, GiveUp, TypeOK, BoxInv
    <2>3. todo \in SUBSET Elements(outbox')
      BY <2>1, <2>2 DEF FlushInv
    <2>4. Push(outbox', todo)
      BY <1>5 DEF Undelivered
    <2> HIDE DEF todo
    <2>5. flushing' \in BOOLEAN /\ pass' \subseteq Notices /\ sending' \in Notices \cup {Nothing}
      BY <2>2, <2>3, <2>4, Pushes, ElementsOf
    <2>6. rows' \in [Notices -> Nat]
      BY <1>5, <2>2, Persists DEF Undelivered, TypeOK
    <2>7. attempts' \in [Notices -> 0 .. MaxAttempts]
      <3>1. n \notin dead /\ attempts[n] < MaxAttempts
        BY <2>1 DEF BoxInv
      <3>2. attempts[n] + 1 \in 0 .. MaxAttempts
        BY <3>1 DEF TypeOK
      <3> QED  BY <1>5, <2>1, <3>2 DEF Undelivered, TypeOK
    <2>8. /\ dead' \subseteq Notices /\ waiting' \subseteq Notices
          /\ failed' \subseteq Notices /\ late' \subseteq Notices
          /\ blocked' \subseteq Agents
      BY <1>5, <2>1, NoticeIs DEF Undelivered, GiveUp, Unanswered, TypeOK
    <2> QED  BY <1>5, <2>2, <2>5, <2>6, <2>7, <2>8 DEF Undelivered, TypeOK
  <1>6. ASSUME NEW n \in Notices, BackoffEnds(n) PROVE TypeOK'
    BY <1>6 DEF BackoffEnds, TypeOK, boxVars, flushVars
  <1>7. ASSUME NEW n \in Notices, ArriveLate(n) PROVE TypeOK'
    <2>1. inbox' \in [Agents -> Seq(Notices)]
      BY <1>7, TakesIn DEF ArriveLate
    <2> QED  BY <1>7, <2>1 DEF ArriveLate, TypeOK, boxVars, flushVars
  <1>8. ASSUME NEW letters \in {dead} \cup {{n} : n \in dead}, Retry(letters)
        PROVE  TypeOK'
    <2>1. letters \in SUBSET dead
      OBVIOUS
    <2>2. PICK s \in Arrangements(letters) : outbox' = outbox \o s
      BY <1>8 DEF Retry
    <2>3. s \in Seq(Notices)
      <3>1. IsFiniteSet(letters) /\ letters \in SUBSET Notices
        BY <2>1, FS_Subset DEF BoxInv, TypeOK
      <3> QED  BY <2>2, <3>1, Arranged
    <2>4. outbox' \in Seq(Notices)
      BY <2>2, <2>3, ConcatProperties DEF TypeOK
    <2>5. rows' \in [Notices -> Nat]
      BY <1>8, <2>4, Persists DEF Retry, TypeOK
    <2>6. attempts' \in [Notices -> 0 .. MaxAttempts]
      BY <1>8 DEF Retry, TypeOK
    <2>7. dead' \subseteq Notices /\ turns' \in 0 .. MaxTurns
      BY <1>8, <2>1, SMTT(60) DEF Retry, TypeOK
    <2> QED  BY <1>8, <2>4, <2>5, <2>6, <2>7 DEF Retry, TypeOK, flushVars
  <1>9. CASE Crash
    <2>1. /\ outbox' \in Seq(Notices) /\ turns' \in 0 .. MaxTurns
          /\ restarted' \in BOOLEAN /\ flushing' \in BOOLEAN /\ late' \subseteq Notices
          /\ pass' \subseteq Notices /\ blocked' \subseteq Agents
          /\ sending' \in Notices \cup {Nothing}
      BY <1>9, TypeRestart DEF Crash, TypeOK, BoxInv
    <2> QED  BY <1>9, <2>1 DEF Crash, TypeOK
  <1>10. ASSUME NEW c \in Causes, CrashBeforeForward(c) PROVE TypeOK'
    <2>1. /\ rows' \in [Notices -> Nat]
          /\ \A n \in Notices : rows'[n] # 0 => n \in Elements(outbox)
      BY <1>10, Persists DEF CrashBeforeForward, TypeOK
    <2>2. Restart(rows')
      BY <1>10 DEF CrashBeforeForward
    <2>3. /\ outbox' \in Seq(Notices) /\ turns' \in 0 .. MaxTurns
          /\ restarted' \in BOOLEAN /\ flushing' \in BOOLEAN /\ late' \subseteq Notices
          /\ pass' \subseteq Notices /\ blocked' \subseteq Agents
          /\ sending' \in Notices \cup {Nothing}
      BY <2>1, <2>2, TypeRestart DEF TypeOK
    <2>4. owed' \in Seq(Causes)
      BY <1>10 DEF CrashBeforeForward, TypeOK
    <2> QED  BY <1>10, <2>1, <2>3, <2>4 DEF CrashBeforeForward, TypeOK
  <1> QED  BY <1>1, <1>2, <1>3, <1>4, <1>5, <1>6, <1>7, <1>8, <1>9, <1>10 DEF Next

----------------------------------------------------------------------------
(* What the steps do to the outbox                                         *)

\* The notices of a new cause go to the end
LEMMA Owes ==
    ASSUME TypeOK, BoxInv, OwedInv, NEW c \in Causes, Owe(c)
    PROVE  /\ outbox' \in Seq(Notices) /\ Once(outbox')
           /\ \A n \in Notices :
                 /\ n \in Elements(outbox') <=> n \in Elements(outbox) \/ n[1] = c
                 /\ n[1] = c => n \notin Elements(outbox)
           /\ \A n \in Elements(outbox) : Place(outbox', n) = Place(outbox, n)
           /\ \A m \in Elements(outbox), n \in Notices :
                 n[1] = c => Place(outbox', m) < Place(outbox', n)
           /\ c \notin Elements(owed) /\ owed' = Append(owed, c)
           /\ Elements(owed') = Elements(owed) \cup {c} /\ Once(owed')
  <1>1. c \notin Elements(owed) /\ owed' = Append(owed, c)
    BY DEF Owe
  <1>2. Elements(owed') = Elements(owed) \cup {c} /\ Once(owed')
    BY <1>1, AppendedOne DEF TypeOK, OwedInv
  <1>3. \A n \in Notices : n[1] = c => n \notin Elements(outbox)
    BY <1>1 DEF OwedInv
  <1>4. /\ outbox' = outbox \o NoticesOf(c) /\ outbox \in Seq(Notices) /\ Once(outbox)
        /\ NoticesOf(c) \in Seq(Notices) /\ Once(NoticesOf(c))
        /\ \A n \in Notices : n \in Elements(NoticesOf(c)) <=> n[1] = c
    BY NoticesOfCause DEF Owe, TypeOK, BoxInv
  <1>5. Elements(outbox) \cap Elements(NoticesOf(c)) = {}
    BY <1>3, <1>4, ElementsOf
  <1>6. /\ outbox' \in Seq(Notices) /\ Once(outbox')
        /\ Elements(outbox') = Elements(outbox) \cup Elements(NoticesOf(c))
        /\ \A y \in Elements(outbox) : Place(outbox', y) = Place(outbox, y)
        /\ \A y \in Elements(outbox), z \in Elements(NoticesOf(c)) :
              Place(outbox', y) < Place(outbox', z)
    BY <1>4, <1>5, Joined
  <1> QED  BY <1>1, <1>2, <1>3, <1>4, <1>6

\* A push answered: its notice leaves the outbox, the pass goes on with the rest
LEMMA Delivers ==
    ASSUME TypeOK, BoxInv, FlushInv, Delivered
    PROVE  \E n \in Notices :
             /\ n = sending /\ n \in Elements(outbox) /\ TakeIn(n)
             /\ outbox' \in Seq(Notices) /\ Once(outbox')
             /\ Elements(outbox') = Elements(outbox) \ {n}
             /\ \A y, z \in Elements(outbox') : Place(outbox, y) < Place(outbox, z) =>
                   Place(outbox', y) < Place(outbox', z)
             /\ {m \in pass : m[2] \notin blocked} \in SUBSET Elements(outbox')
             /\ Push(outbox', {m \in pass : m[2] \notin blocked})
             /\ \A m \in Notices : rows'[m] # 0 <=> m \in Elements(outbox')
  <1>1. PICK n \in Notices : n = sending /\ n \in Elements(outbox) /\ TakeIn(n)
    BY DEF Delivered, TypeOK, FlushInv
  <1>2. /\ outbox' \in Seq(Notices) /\ Once(outbox')
        /\ Elements(outbox') = Elements(outbox) \ {n}
        /\ \A y, z \in Elements(outbox') : Place(outbox, y) < Place(outbox, z) =>
              Place(outbox', y) < Place(outbox', z)
    BY <1>1, WithoutOne DEF Delivered, TypeOK, BoxInv
  <1>3. {m \in pass : m[2] \notin blocked} \in SUBSET Elements(outbox')
    BY <1>1, <1>2 DEF FlushInv
  <1>4. Persist(outbox', {}) /\ Push(outbox', {m \in pass : m[2] \notin blocked})
    BY DEF Delivered
  <1>5. \A m \in Notices : rows'[m] # 0 <=> m \in Elements(outbox')
    BY <1>2, <1>4, Persists DEF TypeOK
  <1> QED  BY <1>1, <1>2, <1>3, <1>4, <1>5

\* A push failed: its notice stays or is given up on, and the agent's others wait
LEMMA Fails ==
    ASSUME TypeOK, BoxInv, FlushInv, Undelivered
    PROVE  \E n \in Notices, todo \in SUBSET Elements(outbox') :
             /\ n = sending /\ n \in Elements(outbox) /\ failed' = failed \cup {n}
             /\ outbox' \in Seq(Notices) /\ Once(outbox')
             /\ \/ outbox' = outbox /\ dead' = dead /\ waiting' = waiting \cup {n}
                   /\ attempts'[n] < MaxAttempts
                \/ Elements(outbox') = Elements(outbox) \ {n} /\ dead' = dead \cup {n}
                   /\ waiting' = waiting
             /\ \A y, z \in Elements(outbox') : Place(outbox, y) < Place(outbox, z) =>
                   Place(outbox', y) < Place(outbox', z)
             /\ \A m \in Notices : m # n => attempts'[m] = attempts[m]
             /\ todo = {m \in pass : m[2] \notin blocked \cup {n[2]}}
             /\ Push(outbox', todo)
             /\ late' \subseteq late \cup {n}
             /\ \A m \in Notices : rows'[m] # 0 <=> m \in Elements(outbox')
  <1>1. PICK n \in Notices : n = sending /\ n \in Elements(outbox)
    BY DEF Undelivered, TypeOK, FlushInv
  <1> DEFINE todo == {m \in pass : m[2] \notin blocked \cup {n[2]}}
  <1>2. /\ failed' = failed \cup {n} /\ Push(outbox', todo) /\ Persist(outbox', {n})
        /\ late' \subseteq late \cup {n}
    BY <1>1 DEF Undelivered, Unanswered
  <1>3. \A m \in Notices : m # n => attempts'[m] = attempts[m]
    BY <1>1 DEF Undelivered, TypeOK
  <1>4. attempts'[n] \in Nat
    BY <1>1 DEF Undelivered, TypeOK
  <1>5. CASE GiveUp(n) /\ waiting' = waiting
    <2>1. /\ outbox' \in Seq(Notices) /\ Once(outbox') /\ dead' = dead \cup {n}
          /\ Elements(outbox') = Elements(outbox) \ {n}
          /\ \A y, z \in Elements(outbox') : Place(outbox, y) < Place(outbox, z) =>
                Place(outbox', y) < Place(outbox', z)
      BY <1>1, <1>5, WithoutOne DEF GiveUp, TypeOK, BoxInv
    <2>2. todo \in SUBSET Elements(outbox')
      BY <1>1, <2>1 DEF FlushInv
    <2>3. \A m \in Notices : rows'[m] # 0 <=> m \in Elements(outbox')
      BY <1>2, <2>1, Persists DEF TypeOK
    <2> HIDE DEF todo
    <2> QED  BY <1>1, <1>2, <1>3, <1>5, <2>1, <2>2, <2>3 DEF todo
  <1>6. CASE /\ ~Exhausted(attempts'[n]) /\ waiting' = waiting \cup {n}
             /\ UNCHANGED <<outbox, dead>>
    <2>1. attempts'[n] < MaxAttempts
      BY <1>4, <1>6 DEF Exhausted
    <2>2. todo \in SUBSET Elements(outbox')
      BY <1>1, <1>6 DEF FlushInv
    <2>3. \A m \in Notices : rows'[m] # 0 <=> m \in Elements(outbox')
      BY <1>2, <1>6, Persists DEF TypeOK
    <2>4. outbox' \in Seq(Notices) /\ Once(outbox')
      BY <1>6 DEF TypeOK, BoxInv
    <2> HIDE DEF todo
    <2> QED  BY <1>1, <1>2, <1>3, <1>6, <2>1, <2>2, <2>3, <2>4 DEF todo
  <1> QED  BY <1>1, <1>5, <1>6 DEF Undelivered

\* Dead letters go to the end of the outbox, with no failed attempt
LEMMA PutsBack ==
    ASSUME TypeOK, BoxInv, NEW letters \in {dead} \cup {{n} : n \in dead},
           Retry(letters)
    PROVE  /\ letters \subseteq dead /\ dead' = dead \ letters
           /\ outbox' \in Seq(Notices) /\ Once(outbox')
           /\ Elements(outbox') = Elements(outbox) \cup letters
           /\ \A y \in Elements(outbox) : Place(outbox', y) = Place(outbox, y)
           /\ \A y \in Elements(outbox), z \in letters :
                 Place(outbox', y) < Place(outbox', z)
           /\ \A n \in Notices :
                 attempts'[n] = IF n \in letters THEN 0 ELSE attempts[n]
           /\ \A n \in Notices : rows'[n] # 0 <=> n \in Elements(outbox')
  <1>1. letters \in SUBSET dead /\ dead \in SUBSET Notices /\ IsFiniteSet(letters)
    BY FS_Subset DEF BoxInv, TypeOK
  <1>2. PICK s \in Arrangements(letters) : outbox' = outbox \o s
    BY DEF Retry
  <1>3. s \in Seq(Notices) /\ Elements(s) = letters /\ Once(s)
    BY <1>1, <1>2, Arranged
  <1>4. outbox \in Seq(Notices) /\ Once(outbox) /\ Elements(outbox) \cap letters = {}
    BY <1>1 DEF TypeOK, BoxInv
  <1>5. /\ outbox' \in Seq(Notices) /\ Once(outbox')
        /\ Elements(outbox') = Elements(outbox) \cup letters
        /\ \A y \in Elements(outbox) : Place(outbox', y) = Place(outbox, y)
        /\ \A y \in Elements(outbox), z \in letters :
              Place(outbox', y) < Place(outbox', z)
    BY <1>2, <1>3, <1>4, Joined
  <1>6. \A n \in Notices : rows'[n] # 0 <=> n \in Elements(outbox')
    BY <1>5, Persists DEF Retry, TypeOK
  <1> QED  BY <1>1, <1>5, <1>6 DEF Retry, TypeOK

\* The venue is started again: what its store holds is the outbox
LEMMA Restarts ==
    ASSUME TypeOK, NEW table \in [Notices -> Nat],
           \A n \in Notices : table[n] # 0 => n \in Elements(outbox), Restart(table)
    PROVE  /\ Once(outbox') /\ pass' = {} /\ sending' = Nothing /\ ~flushing'
           /\ restarted' /\ late' \subseteq late \cup ({sending} \ {Nothing})
           /\ \A n \in Notices : n \in Elements(outbox') <=> table[n] # 0
  <1>1. outbox \in Seq(Notices)
    BY DEF TypeOK
  <1>2. Once(outbox') /\ \A n \in Notices : n \in Elements(outbox') <=> table[n] # 0
    BY <1>1, Reloads DEF Restart
  <1>3. late' \subseteq late \cup ({sending} \ {Nothing})
    BY DEF Restart, Unanswered
  <1> QED  BY <1>2, <1>3 DEF Restart

----------------------------------------------------------------------------
(* The invariants                                                          *)

\* A step that neither owes, pushes, takes in nor restarts
LEMMA BoxFrame ==
    ASSUME TypeOK, BoxInv, UNCHANGED <<owed, outbox, dead, attempts>>,
           \/ rows' = rows
           \/ \A n \in Notices : rows'[n] # 0 <=> n \in Elements(outbox),
           \A n \in Notices : Received(n) => Received(n)'
    PROVE  BoxInv'
  BY DEF BoxInv

LEMMA BoxNext ==
    ASSUME TypeOK, BoxInv, FlushInv, OwedInv, Next
    PROVE  BoxInv'
  <1>1. ASSUME NEW c \in Causes, Owe(c) PROVE BoxInv'
    <2>1. UNCHANGED <<dead, attempts, inbox>>
      BY <1>1 DEF Owe
    <2>2. \A n \in Notices : Received(n)' <=> Received(n)
      BY <2>1 DEF Received
    <2>3. \A n \in Notices : n[1] = c => n \notin dead
      BY <1>1 DEF OwedInv, Owe
    <2>4. \A n \in Notices :
             rows'[n] # 0 <=>
               n \in Elements(IF Enqueued[c] = "unsaved" THEN outbox ELSE outbox')
      BY <1>1, Owes, Persists DEF Owe, TypeOK
    <2>5. Elements(outbox') \cap dead' = {}
      <3>1. Elements(outbox') \subseteq Notices
        BY <1>1, Owes, ElementsOf
      <3> QED  BY <1>1, <2>1, <2>3, <3>1, Owes DEF BoxInv
    <2>6. ASSUME NEW n \in Notices
          PROVE  /\ rows'[n] # 0 => n \in Elements(outbox')
                 /\ n \in Elements(outbox') /\ Enqueued[n[1]] = "within" => rows'[n] # 0
      BY <1>1, <2>4, Owes DEF BoxInv
    <2>7. ASSUME NEW n \in Notices, n[1] \in Elements(owed'), Enqueued[n[1]] = "within"
          PROVE  n \in Elements(outbox') \cup dead' \/ Received(n)'
      BY <1>1, <2>1, <2>2, <2>7, Owes DEF BoxInv
    <2> QED  BY <1>1, <2>1, <2>5, <2>6, <2>7, Owes DEF BoxInv
  <1>2. CASE Heartbeat
    <2>1. \A n \in Notices : rows'[n] # 0 <=> n \in Elements(outbox)
      BY <1>2, Persists DEF Heartbeat, TypeOK
    <2> QED  BY <1>2, <2>1, BoxFrame DEF Heartbeat, Received
  <1>3. CASE FlushJob
    BY <1>3, BoxFrame DEF FlushJob, boxVars, Received
  <1>4. CASE Delivered
    <2>1. PICK n \in Notices :
             /\ n = sending /\ n \in Elements(outbox) /\ TakeIn(n) /\ Once(outbox')
             /\ Elements(outbox') = Elements(outbox) \ {n}
             /\ \A m \in Notices : rows'[m] # 0 <=> m \in Elements(outbox')
      BY <1>4, Delivers
    <2>2. \A k \in Notices : Received(k)' <=> Received(k) \/ k = n
      BY <2>1, TakesIn
    <2>3. UNCHANGED <<owed, dead, attempts>>
      BY <1>4 DEF Delivered
    <2> QED  BY <2>1, <2>2, <2>3 DEF BoxInv
  <1>5. CASE Undelivered
    <2>1. PICK n \in Notices :
             /\ n = sending /\ n \in Elements(outbox) /\ Once(outbox')
             /\ \/ outbox' = outbox /\ dead' = dead /\ attempts'[n] < MaxAttempts
                \/ Elements(outbox') = Elements(outbox) \ {n} /\ dead' = dead \cup {n}
             /\ \A m \in Notices : m # n => attempts'[m] = attempts[m]
             /\ \A m \in Notices : rows'[m] # 0 <=> m \in Elements(outbox')
      BY <1>5, Fails
    <2>2. UNCHANGED <<owed, inbox>>
      BY <1>5 DEF Undelivered
    <2>3. \A k \in Notices : Received(k)' <=> Received(k)
      BY <2>2 DEF Received
    <2>4. IsFiniteSet(dead')
      BY <2>1, FS_AddElement DEF BoxInv
    <2>5. Elements(outbox') \cap dead' = {}
      BY <2>1 DEF BoxInv
    <2>6. ASSUME NEW m \in Notices
          PROVE  /\ m[1] \in Elements(owed') /\ Enqueued[m[1]] = "within" =>
                       m \in Elements(outbox') \cup dead' \/ Received(m)'
                 /\ m \in dead' \/ attempts'[m] < MaxAttempts
      BY <2>1, <2>2, <2>3 DEF BoxInv
    <2> QED  BY <2>1, <2>4, <2>5, <2>6 DEF BoxInv
  <1>6. ASSUME NEW n \in Notices, BackoffEnds(n) PROVE BoxInv'
    BY <1>6, BoxFrame DEF BackoffEnds, boxVars, Received
  <1>7. ASSUME NEW n \in Notices, ArriveLate(n) PROVE BoxInv'
    <2>1. \A k \in Notices : Received(k)' <=> Received(k) \/ k = n
      BY <1>7, TakesIn DEF ArriveLate
    <2> QED  BY <1>7, <2>1, BoxFrame DEF ArriveLate, boxVars
  <1>8. ASSUME NEW letters \in {dead} \cup {{n} : n \in dead}, Retry(letters)
        PROVE  BoxInv'
    <2>1. UNCHANGED <<owed, inbox>>
      BY <1>8 DEF Retry
    <2>2. \A k \in Notices : Received(k)' <=> Received(k)
      BY <2>1 DEF Received
    <2>3. IsFiniteSet(dead')
      BY <1>8, PutsBack, FS_Subset DEF BoxInv
    <2>4. ASSUME NEW m \in Notices
          PROVE  /\ m[1] \in Elements(owed') /\ Enqueued[m[1]] = "within" =>
                       m \in Elements(outbox') \cup dead' \/ Received(m)'
                 /\ m \in dead' \/ attempts'[m] < MaxAttempts
      BY <1>8, <2>1, <2>2, PutsBack DEF BoxInv
    <2>5. Elements(outbox') \cap dead' = {}
      BY <1>8, PutsBack DEF BoxInv
    <2> QED  BY <1>8, <2>3, <2>4, <2>5, PutsBack DEF BoxInv
  <1>9. CASE Crash
    <2>1. /\ Once(outbox')
          /\ \A n \in Notices : n \in Elements(outbox') <=> rows[n] # 0
      BY <1>9, Restarts DEF Crash, TypeOK, BoxInv
    <2>2. UNCHANGED <<owed, dead, rows, attempts, inbox>>
      BY <1>9 DEF Crash
    <2>3. \A k \in Notices : Received(k)' <=> Received(k)
      BY <2>2 DEF Received
    <2>4. Elements(outbox') \cap dead' = {}
      BY <2>1, <2>2 DEF BoxInv, TypeOK
    <2> QED  BY <2>1, <2>2, <2>3, <2>4 DEF BoxInv
  <1>10. ASSUME NEW c \in Causes, CrashBeforeForward(c) PROVE BoxInv'
    <2>1. /\ rows' \in [Notices -> Nat]
          /\ \A n \in Notices : rows'[n] # 0 <=> n \in Elements(outbox)
      BY <1>10, Persists DEF CrashBeforeForward, TypeOK
    <2>2. Restart(rows')
      BY <1>10 DEF CrashBeforeForward
    <2>3. /\ Once(outbox')
          /\ \A n \in Notices : n \in Elements(outbox') <=> rows'[n] # 0
      BY <2>1, <2>2, Restarts
    <2>4. /\ UNCHANGED <<dead, attempts, inbox>> /\ Enqueued[c] = "after"
          /\ Elements(owed') = Elements(owed) \cup {c}
      BY <1>10, AppendedOne DEF CrashBeforeForward, TypeOK
    <2>5. \A k \in Notices : Received(k)' <=> Received(k)
      BY <2>4 DEF Received
    <2>6. Elements(outbox') \cap dead' = {}
      BY <2>1, <2>3, <2>4 DEF BoxInv, TypeOK
    <2>7. ASSUME NEW n \in Notices, n[1] \in Elements(owed'), Enqueued[n[1]] = "within"
          PROVE  n \in Elements(outbox') \cup dead' \/ Received(n)'
      BY <2>1, <2>3, <2>4, <2>5, <2>7 DEF BoxInv
    <2> QED  BY <2>1, <2>3, <2>4, <2>6, <2>7 DEF BoxInv
  <1> QED  BY <1>1, <1>2, <1>3, <1>4, <1>5, <1>6, <1>7, <1>8, <1>9, <1>10 DEF Next

LEMMA FlushNext ==
    ASSUME TypeOK, BoxInv, FlushInv, OwedInv, Next
    PROVE  FlushInv'
  <1>1. ASSUME NEW box \in Seq(Notices), Elements(outbox) \subseteq Elements(box),
               outbox' = box, Flush(box)
        PROVE  FlushInv'
    <2>1. CASE flushing /\ UNCHANGED flushVars
      BY <1>1, <2>1 DEF FlushInv, flushVars
    <2>2. CASE Push(box, Due(box))
      <3>1. Due(box) \in SUBSET Elements(box)
        BY DEF Due
      <3> QED  BY <1>1, <2>2, <3>1, Pushes DEF FlushInv
    <2> QED  BY <1>1, <2>1, <2>2 DEF Flush
  <1>2. ASSUME NEW c \in Causes, Owe(c) PROVE FlushInv'
    <2>1. outbox' \in Seq(Notices) /\ Elements(outbox) \subseteq Elements(outbox')
      BY <1>2, Owes, ElementsOf DEF TypeOK
    <2> QED  BY <1>1, <1>2, <2>1 DEF Owe
  <1>3. CASE FlushJob
    BY <1>1, <1>3 DEF FlushJob, boxVars, TypeOK
  <1>4. CASE Delivered
    <2>1. PICK todo \in SUBSET Elements(outbox') :
             outbox' \in Seq(Notices) /\ Push(outbox', todo)
      BY <1>4, Delivers
    <2> QED  BY <2>1, Pushes DEF FlushInv
  <1>5. CASE Undelivered
    <2>1. PICK todo \in SUBSET Elements(outbox') :
             outbox' \in Seq(Notices) /\ Push(outbox', todo)
      BY <1>5, Fails
    <2> QED  BY <2>1, Pushes DEF FlushInv
  <1>6. ASSUME NEW letters \in {dead} \cup {{n} : n \in dead}, Retry(letters)
        PROVE  FlushInv'
    BY <1>6, PutsBack, SMTT(60) DEF Retry, FlushInv, flushVars
  <1>7. CASE Heartbeat \/ (\E n \in Notices : BackoffEnds(n) \/ ArriveLate(n))
    BY <1>7 DEF Heartbeat, BackoffEnds, ArriveLate, FlushInv, boxVars, flushVars
  <1>8. CASE Crash \/ \E c \in Causes : CrashBeforeForward(c)
    <2>1. pass' = {} /\ sending' = Nothing
      BY <1>8 DEF Crash, CrashBeforeForward, Restart
    <2> QED  BY <2>1 DEF FlushInv
  <1> QED  BY <1>2, <1>3, <1>4, <1>5, <1>6, <1>7, <1>8 DEF Next

LEMMA OwedNext ==
    ASSUME TypeOK, BoxInv, FlushInv, OwedInv, Next
    PROVE  OwedInv'
  <1>1. ASSUME NEW c \in Causes, Owe(c) PROVE OwedInv'
    <2>1. UNCHANGED <<dead, late, failed, inbox>>
      BY <1>1 DEF Owe
    <2>2. \A n \in Notices : Received(n)' <=> Received(n)
      BY <2>1 DEF Received
    <2> QED  BY <1>1, <2>1, <2>2, Owes DEF OwedInv
  <1>2. CASE FlushJob \/ Heartbeat \/ \E n \in Notices : BackoffEnds(n)
    BY <1>2 DEF FlushJob, Heartbeat, BackoffEnds, boxVars, OwedInv, Received
  <1>3. CASE Delivered
    <2>1. PICK n \in Notices :
             /\ n \in Elements(outbox) /\ TakeIn(n)
             /\ Elements(outbox') = Elements(outbox) \ {n}
      BY <1>3, Delivers
    <2>2. \A k \in Notices : Received(k)' <=> Received(k) \/ k = n
      BY <2>1, TakesIn
    <2>3. UNCHANGED <<owed, dead, late, failed>>
      BY <1>3 DEF Delivered
    <2> QED  BY <2>1, <2>2, <2>3 DEF OwedInv
  <1>4. CASE Undelivered
    <2>1. PICK n \in Notices :
             /\ n \in Elements(outbox) /\ failed' = failed \cup {n}
             /\ \/ outbox' = outbox /\ dead' = dead
                \/ Elements(outbox') = Elements(outbox) \ {n} /\ dead' = dead \cup {n}
             /\ late' \subseteq late \cup {n}
      BY <1>4, Fails
    <2>2. UNCHANGED <<owed, inbox>>
      BY <1>4 DEF Undelivered
    <2>3. \A n2 \in Notices : Received(n2)' <=> Received(n2)
      BY <2>2 DEF Received
    <2> QED  BY <2>1, <2>2, <2>3 DEF OwedInv
  <1>5. ASSUME NEW n \in Notices, ArriveLate(n) PROVE OwedInv'
    <2>1. \A k \in Notices : Received(k)' <=> Received(k) \/ k = n
      BY <1>5, TakesIn DEF ArriveLate
    <2> QED  BY <1>5, <2>1 DEF ArriveLate, boxVars, OwedInv
  <1>6. ASSUME NEW letters \in {dead} \cup {{n} : n \in dead}, Retry(letters)
        PROVE  OwedInv'
    <2>1. UNCHANGED <<owed, late, failed, inbox>>
      BY <1>6 DEF Retry
    <2>2. \A n \in Notices : Received(n)' <=> Received(n)
      BY <2>1 DEF Received
    <2> QED  BY <1>6, <2>1, <2>2, PutsBack DEF OwedInv
  <1>7. CASE Crash
    <2>1. /\ late' \subseteq late \cup ({sending} \ {Nothing})
          /\ \A n \in Notices : n \in Elements(outbox') <=> rows[n] # 0
      BY <1>7, Restarts DEF Crash, TypeOK, BoxInv
    <2>2. UNCHANGED <<owed, dead, failed, inbox>>
      BY <1>7 DEF Crash
    <2>3. \A n \in Notices : Received(n)' <=> Received(n)
      BY <2>2 DEF Received
    <2> QED  BY <2>1, <2>2, <2>3 DEF OwedInv, BoxInv, FlushInv
  <1>8. ASSUME NEW c \in Causes, CrashBeforeForward(c) PROVE OwedInv'
    <2>1. /\ rows' \in [Notices -> Nat] /\ Restart(rows')
          /\ \A n \in Notices : rows'[n] # 0 <=> n \in Elements(outbox)
      BY <1>8, Persists DEF CrashBeforeForward, TypeOK
    <2>2. /\ late' \subseteq late \cup ({sending} \ {Nothing})
          /\ \A n \in Notices : n \in Elements(outbox') <=> rows'[n] # 0
      BY <2>1, Restarts
    <2>3. /\ UNCHANGED <<dead, failed, inbox>> /\ owed' = Append(owed, c)
          /\ c \notin Elements(owed)
      BY <1>8 DEF CrashBeforeForward
    <2>4. Elements(owed') = Elements(owed) \cup {c} /\ Once(owed')
      BY <2>3, AppendedOne DEF TypeOK, OwedInv
    <2>5. \A n \in Notices : Received(n)' <=> Received(n)
      BY <2>3 DEF Received
    <2> QED  BY <2>1, <2>2, <2>3, <2>4, <2>5 DEF OwedInv, FlushInv
  <1> QED  BY <1>1, <1>2, <1>3, <1>4, <1>5, <1>6, <1>7, <1>8 DEF Next

LEMMA AddressedNext ==
    ASSUME TypeOK, FlushInv, Addressed, Next
    PROVE  Addressed'
  <1>1. ASSUME NEW n \in Notices, TakeIn(n) PROVE Addressed'
    <2>1. CASE inbox' = inbox
      BY <2>1 DEF Addressed
    <2>2. CASE \A a \in Agents : inbox'[a] = IF a = n[2] THEN Append(inbox[a], n)
                                             ELSE inbox[a]
      <3>1. ASSUME NEW a \in Agents, NEW k \in Elements(inbox'[a]) PROVE k[2] = a
        <4>1. CASE a # n[2]
          BY <2>2, <3>1, <4>1 DEF Addressed
        <4>2. CASE a = n[2]
          <5>1. Elements(inbox'[a]) = Elements(inbox[a]) \cup {n}
            BY <2>2, <4>2, AppendedOne DEF TypeOK
          <5> QED  BY <3>1, <4>2, <5>1 DEF Addressed
        <4> QED  BY <4>1, <4>2
      <3> QED  BY <3>1 DEF Addressed
    <2> QED  BY <1>1, <2>1, <2>2, TakesIn
  <1>2. CASE Delivered
    <2>1. sending \in Notices /\ TakeIn(sending)
      BY <1>2 DEF Delivered, TypeOK
    <2> QED  BY <1>1, <2>1
  <1>3. ASSUME NEW n \in Notices, ArriveLate(n) PROVE Addressed'
    BY <1>1, <1>3 DEF ArriveLate
  <1>4. CASE inbox' = inbox
    BY <1>4 DEF Addressed
  <1> QED
    BY <1>2, <1>3, <1>4
    DEF Next, Owe, Heartbeat, FlushJob, Undelivered, BackoffEnds, Retry, Crash,
        CrashBeforeForward

\* What leads another notice is owed, and no more notices lead than before unless
\* a cause is added
LEMMA LeadsKept ==
    ASSUME NEW m, NEW n, UNCHANGED owed, failed \subseteq failed', Leads(m, n)'
    PROVE  Leads(m, n) /\ m \notin failed'
  BY DEF Leads, HappenedBefore

LEMMA LeaderOwed ==
    ASSUME NEW m, NEW n, Leads(m, n)
    PROVE  m[1] \in Elements(owed) /\ n[1] \in Elements(owed)
  BY DEF Leads, HappenedBefore, Elements

\* The agent's record stays in order when nothing is taken in, and when what is
\* taken in leads nothing the agent has
LEMMA RecordKept ==
    ASSUME OnlyFailedOvertaken, ~restarted, UNCHANGED inbox, failed \subseteq failed',
           \A a \in Agents : \A i, j \in 1 .. Len(inbox[a]) :
              HappenedBefore(inbox[a][j], inbox[a][i])' =>
              HappenedBefore(inbox[a][j], inbox[a][i])
    PROVE  OnlyFailedOvertaken'
  BY DEF OnlyFailedOvertaken

LEMMA RecordExtended ==
    ASSUME TypeOK, Addressed, OnlyFailedOvertaken, ~restarted,
           UNCHANGED <<owed, failed>>, NEW n \in Notices, TakeIn(n),
           \A k \in Notices : Leads(n, k) => ~Received(k)
    PROVE  OnlyFailedOvertaken'
  <1> n[2] \in Agents /\ inbox \in [Agents -> Seq(Notices)]
    BY NoticeIs DEF TypeOK
  <1>1. \A k, l : HappenedBefore(k, l)' <=> HappenedBefore(k, l)
    BY DEF HappenedBefore
  <1>2. CASE inbox' = inbox
    BY <1>1, <1>2, RecordKept
  <1>3. CASE \A a \in Agents : inbox'[a] = IF a = n[2] THEN Append(inbox[a], n)
                                           ELSE inbox[a]
    <2>1. ASSUME NEW a \in Agents, NEW i \in 1 .. Len(inbox'[a]),
                 NEW j \in 1 .. Len(inbox'[a]), i < j,
                 HappenedBefore(inbox'[a][j], inbox'[a][i])
          PROVE  inbox'[a][j] \in failed
      <3>1. CASE a # n[2]
        BY <1>3, <2>1, <3>1 DEF OnlyFailedOvertaken
      <3>2. CASE a = n[2]
        <4> DEFINE s == inbox[a]
        <4>0. s \in Seq(Notices) /\ inbox'[a] = Append(s, n)
          BY <1>3, <3>2
        <4>1. /\ s \in Seq(Notices) /\ Len(s) \in Nat /\ Len(inbox'[a]) = Len(s) + 1
              /\ inbox'[a][Len(s) + 1] = n
              /\ \A q \in 1 .. Len(s) : inbox'[a][q] = s[q]
          <5> HIDE DEF s
          <5> QED  BY <4>0, AppendedOne
        <4>2. i \in 1 .. Len(s) /\ inbox'[a][i] = s[i]
          BY <2>1, <4>1
        <4>3. CASE j \in 1 .. Len(s)
          BY <2>1, <4>1, <4>2, <4>3 DEF OnlyFailedOvertaken
        <4>4. CASE j = Len(s) + 1
          <5>1. s[i] \in Elements(inbox[a]) /\ s[i] \in Notices
            BY <4>1, <4>2 DEF Elements
          <5>2. Received(s[i]) /\ s[i][2] = n[2]
            BY <3>2, <5>1 DEF Addressed, Received
          <5>3. HappenedBefore(n, s[i])
            BY <2>1, <4>1, <4>2, <4>4
          <5>4. ~Leads(n, s[i])
            BY <5>1, <5>2
          <5> QED  BY <4>1, <4>4, <5>2, <5>3, <5>4 DEF Leads
        <4> QED  BY <2>1, <4>1, <4>3, <4>4
      <3> QED  BY <3>1, <3>2
    <2> QED  BY <1>1, <2>1 DEF OnlyFailedOvertaken
  <1> QED  BY <1>2, <1>3, TakesIn

\* What holds of an order-keeping step that pushes the next notice of a pass: it
\* leads no notice it should follow
LEMMA PushInOrder ==
    ASSUME outbox' \in Seq(Notices), NEW todo \in SUBSET Elements(outbox'),
           Push(outbox', todo), NEW m \in Notices, NEW n \in Notices, Leads(m, n)',
           (dead \subseteq failed)',
           (\A k \in Notices : k[1] \in Elements(owed) =>
               k \in Elements(outbox) \cup dead \/ Received(k))',
           m \in Elements(outbox') /\ n \in Elements(outbox') =>
              Place(outbox', m) < Place(outbox', n),
           m \in Elements(outbox') /\ n \in todo => m \in todo
    PROVE  /\ n = sending' => Received(m)'
           /\ m \in Elements(outbox') /\ n \in pass' => m \in pass' \cup {sending'}
  <1>1. m[1] \in Elements(owed')
    BY DEF Leads, HappenedBefore, Elements
  <1>2. m \notin dead'
    BY DEF Leads
  <1>3. m \in Elements(outbox') \/ Received(m)'
    BY <1>1, <1>2
  <1>4. /\ n = sending' => m \notin Elements(outbox')
        /\ m \in Elements(outbox') /\ n \in pass' => m \in pass' \cup {sending'}
    BY PushesLeader
  <1> QED  BY <1>3, <1>4

LEMMA OrderOwe ==
    ASSUME TypeOK, BoxInv, FlushInv, OwedInv, Addressed, OrderInv, ~restarted,
           NEW c \in Causes, Owe(c)
    PROVE  OrderInv'
  <1>1. UNCHANGED <<dead, waiting, late, failed, inbox, restarted>>
    BY DEF Owe
  <1>2. \A n \in Notices : Received(n)' <=> Received(n)
    BY <1>1 DEF Received
  <1>3. (dead \cup waiting \cup late \subseteq failed)'
    BY <1>1 DEF OrderInv
  <1>4. \A n \in Notices : n[1] \in Elements(owed') =>
           n \in Elements(outbox') \cup dead' \/ Received(n)'
    BY <1>1, <1>2, Owes DEF OrderInv
  <1>5. \A n \in Notices : n \in Elements(outbox') /\ Received(n)' => n \in failed'
    BY <1>1, <1>2, Owes DEF OrderInv, OwedInv
  <1>6. ASSUME NEW m, NEW n, HappenedBefore(m, n)'
        PROVE  /\ m[1] \in Elements(owed)
               /\ HappenedBefore(m, n) \/ n[1] = c
    <2>1. PICK i, j \in 1 .. Len(owed') : i < j /\ owed'[i] = m[1] /\ owed'[j] = n[1]
      BY <1>6 DEF HappenedBefore
    <2>2. /\ Len(owed) \in Nat /\ Len(owed') = Len(owed) + 1
          /\ \A k \in 1 .. Len(owed) : owed'[k] = owed[k]
          /\ owed'[Len(owed) + 1] = c
      <3>1. owed \in Seq(Causes) /\ owed' = Append(owed, c)
        BY DEF Owe, TypeOK
      <3> QED  BY <3>1, AppendedOne
    <2>3. i \in 1 .. Len(owed) /\ owed[i] = m[1]
      BY <2>1, <2>2
    <2>4. CASE j \in 1 .. Len(owed)
      BY <2>1, <2>2, <2>3, <2>4 DEF HappenedBefore, Elements
    <2>5. CASE j = Len(owed) + 1
      BY <2>1, <2>2, <2>3, <2>5 DEF Elements
    <2> QED  BY <2>1, <2>2, <2>4, <2>5
  <1>7. ASSUME NEW m \in Notices, NEW n \in Notices, Leads(m, n)'
        PROVE  Ahead(m, n)'
    <2>1. /\ m[1] \in Elements(owed) /\ m[1] # c /\ m \notin failed'
          /\ Leads(m, n) \/ n[1] = c
      BY <1>1, <1>6, <1>7, Owes DEF Leads
    <2>2. Leads(m, n) => Ahead(m, n)
      BY DEF OrderInv
    <2>3. m \in Elements(outbox') => m \in Elements(outbox)
      BY <2>1, Owes
    <2>4. n[1] = c => n \notin Elements(outbox) \cup failed /\ ~Received(n)
      BY Owes DEF OwedInv
    <2>5. n \in failed' \/ Received(n)' => Received(m)'
      BY <1>1, <1>2, <2>1, <2>2, <2>4 DEF Ahead
    <2>6. m \in Elements(outbox') /\ n \in Elements(outbox') =>
             Place(outbox', m) < Place(outbox', n)
      BY <2>1, <2>2, <2>3, Owes DEF Ahead
    <2>7. CASE flushing /\ UNCHANGED flushVars
      BY <1>2, <2>1, <2>2, <2>3, <2>4, <2>5, <2>6, <2>7, NoticeIs
      DEF flushVars, FlushInv, Ahead
    <2>8. CASE Push(outbox', Due(outbox'))
      <3>1. outbox' \in Seq(Notices) /\ Due(outbox') \in SUBSET Elements(outbox')
        BY Owes DEF Due
      <3>2. m \in Elements(outbox') /\ n \in Due(outbox') => m \in Due(outbox')
        BY <1>1, <2>1 DEF Due, OrderInv
      <3>3. /\ n = sending' => Received(m)'
            /\ m \in Elements(outbox') /\ n \in pass' => m \in pass' \cup {sending'}
        BY <1>3, <1>4, <1>7, <2>6, <2>8, <3>1, <3>2, PushInOrder
      <3> QED  BY <2>5, <2>6, <3>3 DEF Ahead
    <2> QED  BY <2>7, <2>8 DEF Owe, Flush
  <1>8. OnlyFailedOvertaken'
    <2>1. ASSUME NEW a \in Agents, NEW i \in 1 .. Len(inbox[a]),
                 NEW j \in 1 .. Len(inbox[a]),
                 HappenedBefore(inbox[a][j], inbox[a][i])'
          PROVE  HappenedBefore(inbox[a][j], inbox[a][i])
      <3>1. inbox[a][i] \in Elements(inbox[a]) /\ inbox[a][i] \in Notices
        BY SMTT(60) DEF Elements, TypeOK
      <3>2. Received(inbox[a][i])
        BY <3>1 DEF Received, Addressed
      <3>3. inbox[a][i][1] \in Elements(owed) /\ c \notin Elements(owed)
        BY <3>1, <3>2 DEF OwedInv, Owe
      <3>4. ASSUME NEW k, NEW l, k = inbox[a][j], l = inbox[a][i]
            PROVE  HappenedBefore(k, l) \/ l[1] = c
        <4>1. HappenedBefore(k, l)'
          BY <1>1, <2>1, <3>4 DEF HappenedBefore
        <4> QED  BY <1>6, <4>1
      <3> QED  BY <3>3, <3>4
    <2> QED  BY <1>1, <2>1, RecordKept DEF OrderInv
  <1> QED  BY <1>3, <1>4, <1>5, <1>7, <1>8 DEF OrderInv

LEMMA OrderFlushJob ==
    ASSUME TypeOK, BoxInv, FlushInv, OrderInv, ~restarted, FlushJob
    PROVE  OrderInv'
  <1>1. UNCHANGED <<owed, outbox, dead, waiting, late, failed, inbox, restarted>>
    BY DEF FlushJob, boxVars
  <1>2. \A n \in Notices : Received(n)' <=> Received(n)
    BY <1>1 DEF Received
  <1>3. \A m, n \in Notices : Leads(m, n)' <=> Leads(m, n)
    BY <1>1 DEF Leads, HappenedBefore
  <1>4. OnlyFailedOvertaken'
    BY <1>1, RecordKept DEF OrderInv, HappenedBefore
  <1>5. ASSUME NEW m \in Notices, NEW n \in Notices, Leads(m, n)'
        PROVE  Ahead(m, n)'
    <2>1. Push(outbox', Due(outbox')) /\ outbox' \in Seq(Notices)
      BY <1>1 DEF FlushJob, Flush, TypeOK
    <2>2. Due(outbox') \in SUBSET Elements(outbox')
      BY DEF Due
    <2>3. Ahead(m, n) /\ m \notin failed
      BY <1>1, <1>3, <1>5 DEF OrderInv, Leads
    <2>4. m \in Elements(outbox') /\ n \in Due(outbox') => m \in Due(outbox')
      BY <1>1, <2>3 DEF Due, OrderInv
    <2>5. m \in Elements(outbox') /\ n \in Elements(outbox') =>
             Place(outbox', m) < Place(outbox', n)
      BY <1>1, <2>3 DEF Ahead
    <2>6. /\ (dead \subseteq failed)'
          /\ (\A k \in Notices : k[1] \in Elements(owed) =>
                 k \in Elements(outbox) \cup dead \/ Received(k))'
      BY <1>1, <1>2 DEF OrderInv
    <2>7. /\ n = sending' => Received(m)'
          /\ m \in Elements(outbox') /\ n \in pass' => m \in pass' \cup {sending'}
      BY <1>5, <2>1, <2>2, <2>4, <2>5, <2>6, PushInOrder
    <2> QED  BY <1>1, <1>2, <2>3, <2>5, <2>7 DEF Ahead
  <1> QED  BY <1>1, <1>2, <1>4, <1>5 DEF OrderInv

LEMMA OrderDelivered ==
    ASSUME TypeOK, BoxInv, FlushInv, Addressed, OrderInv, ~restarted, Delivered
    PROVE  OrderInv'
  <1>1. UNCHANGED <<owed, dead, waiting, late, failed, restarted>>
    BY DEF Delivered
  <1>2. PICK k \in Notices :
           /\ k = sending /\ k \in Elements(outbox) /\ TakeIn(k)
           /\ outbox' \in Seq(Notices)
           /\ Elements(outbox') = Elements(outbox) \ {k}
           /\ \A y, z \in Elements(outbox') : Place(outbox, y) < Place(outbox, z) =>
                 Place(outbox', y) < Place(outbox', z)
           /\ {m \in pass : m[2] \notin blocked} \in SUBSET Elements(outbox')
           /\ Push(outbox', {m \in pass : m[2] \notin blocked})
    BY Delivers
  <1>3. \A n \in Notices : Received(n)' <=> Received(n) \/ n = k
    BY <1>2, TakesIn
  <1>4. /\ (dead \cup waiting \cup late \subseteq failed)'
        /\ (\A n \in Notices : n[1] \in Elements(owed) =>
               n \in Elements(outbox) \cup dead \/ Received(n))'
        /\ (\A n \in Notices : n \in Elements(outbox) /\ Received(n) => n \in failed)'
    BY <1>1, <1>2, <1>3 DEF OrderInv
  <1>5. ASSUME NEW m \in Notices, NEW n \in Notices, Leads(m, n)'
        PROVE  Ahead(m, n)'
    <2> DEFINE todo == {l \in pass : l[2] \notin blocked}
    <2>1. Leads(m, n) /\ Ahead(m, n) /\ m[2] = n[2]
      BY <1>1, <1>5, LeadsKept DEF OrderInv, Leads
    <2>2. m \in Elements(outbox') /\ n \in Elements(outbox') =>
             Place(outbox', m) < Place(outbox', n)
      BY <1>2, <2>1 DEF Ahead
    <2>3. m \in Elements(outbox') /\ n \in todo => m \in todo
      BY <1>2, <2>1 DEF Ahead, FlushInv
    <2>4. todo \in SUBSET Elements(outbox') /\ Push(outbox', todo)
      BY <1>2
    <2> HIDE DEF todo
    <2>5. /\ n = sending' => Received(m)'
          /\ m \in Elements(outbox') /\ n \in pass' => m \in pass' \cup {sending'}
      BY <1>2, <1>4, <1>5, <2>2, <2>3, <2>4, PushInOrder
    <2>6. n \in failed' \/ Received(n)' => Received(m)'
      BY <1>1, <1>2, <1>3, <2>1 DEF Ahead
    <2> QED  BY <2>2, <2>5, <2>6 DEF Ahead
  <1>6. OnlyFailedOvertaken'
    <2>1. \A n \in Notices : Leads(k, n) => ~Received(n)
      BY <1>2 DEF OrderInv, Ahead, Leads
    <2> QED  BY <1>1, <1>2, <2>1, RecordExtended DEF OrderInv
  <1> QED  BY <1>4, <1>5, <1>6 DEF OrderInv

LEMMA OrderUndelivered ==
    ASSUME TypeOK, BoxInv, FlushInv, OrderInv, ~restarted, Undelivered
    PROVE  OrderInv'
  <1>1. UNCHANGED <<owed, inbox, restarted>>
    BY DEF Undelivered
  <1>2. PICK k \in Notices, todo \in SUBSET Elements(outbox') :
           /\ k = sending /\ k \in Elements(outbox) /\ failed' = failed \cup {k}
           /\ outbox' \in Seq(Notices)
           /\ \/ outbox' = outbox /\ dead' = dead /\ waiting' = waiting \cup {k}
              \/ Elements(outbox') = Elements(outbox) \ {k} /\ dead' = dead \cup {k}
                 /\ waiting' = waiting
           /\ \A y, z \in Elements(outbox') : Place(outbox, y) < Place(outbox, z) =>
                 Place(outbox', y) < Place(outbox', z)
           /\ todo = {m \in pass : m[2] \notin blocked \cup {k[2]}}
           /\ Push(outbox', todo)
           /\ late' \subseteq late \cup {k}
    BY Fails
  <1>3. \A n \in Notices : Received(n)' <=> Received(n)
    BY <1>1 DEF Received
  <1>4. /\ (dead \cup waiting \cup late \subseteq failed)'
        /\ (\A n \in Notices : n[1] \in Elements(owed) =>
               n \in Elements(outbox) \cup dead \/ Received(n))'
        /\ (\A n \in Notices : n \in Elements(outbox) /\ Received(n) => n \in failed)'
    BY <1>1, <1>2, <1>3 DEF OrderInv
  <1>5. ASSUME NEW m \in Notices, NEW n \in Notices, Leads(m, n)'
        PROVE  Ahead(m, n)'
    <2>1. Leads(m, n) /\ Ahead(m, n) /\ m[2] = n[2] /\ m # k
      BY <1>1, <1>2, <1>5, LeadsKept DEF OrderInv, Leads
    <2>2. m \in Elements(outbox') /\ n \in Elements(outbox') =>
             Place(outbox', m) < Place(outbox', n)
      BY <1>2, <2>1 DEF Ahead
    <2>3. m \in Elements(outbox') /\ n \in todo => m \in todo
      BY <1>2, <2>1 DEF Ahead, FlushInv
    <2>4. /\ n = sending' => Received(m)'
          /\ m \in Elements(outbox') /\ n \in pass' => m \in pass' \cup {sending'}
      BY <1>2, <1>4, <1>5, <2>2, <2>3, PushInOrder
    <2>5. n \in failed' \/ Received(n)' => Received(m)'
      BY <1>2, <1>3, <2>1 DEF Ahead
    <2> QED  BY <2>2, <2>4, <2>5 DEF Ahead
  <1>6. OnlyFailedOvertaken'
    BY <1>1, <1>2, RecordKept DEF OrderInv, HappenedBefore
  <1> QED  BY <1>4, <1>5, <1>6 DEF OrderInv

LEMMA OrderArriveLate ==
    ASSUME TypeOK, Addressed, OrderInv, ~restarted,
           NEW k \in Notices, ArriveLate(k)
    PROVE  OrderInv'
  <1>1. /\ UNCHANGED <<owed, outbox, dead, waiting, failed, pass, sending, restarted>>
        /\ k \in late /\ TakeIn(k) /\ late' = late \ {k}
    BY DEF ArriveLate, boxVars, flushVars
  <1>2. k \in failed /\ \A n \in Notices : Received(n)' <=> Received(n) \/ n = k
    BY <1>1, TakesIn DEF OrderInv
  <1>3. ASSUME NEW m \in Notices, NEW n \in Notices, Leads(m, n)'
        PROVE  Ahead(m, n)'
    <2>1. Ahead(m, n)
      BY <1>1, <1>3, LeadsKept DEF OrderInv
    <2> QED  BY <1>1, <1>2, <2>1 DEF Ahead
  <1>4. OnlyFailedOvertaken'
    <2>1. \A n \in Notices : Leads(k, n) => ~Received(n)
      BY <1>2 DEF Leads
    <2> QED  BY <1>1, <2>1, RecordExtended DEF OrderInv
  <1> QED  BY <1>1, <1>2, <1>3, <1>4 DEF OrderInv

LEMMA OrderRetry ==
    ASSUME TypeOK, BoxInv, FlushInv, OrderInv, ~restarted,
           NEW letters \in {dead} \cup {{n} : n \in dead}, Retry(letters)
    PROVE  OrderInv'
  <1>1. UNCHANGED <<owed, waiting, late, failed, inbox, pass, sending, restarted>>
    BY DEF Retry, flushVars
  <1>2. \A n \in Notices : Received(n)' <=> Received(n)
    BY <1>1 DEF Received
  <1>3. /\ letters \subseteq dead /\ dead' = dead \ letters
        /\ Elements(outbox') = Elements(outbox) \cup letters
        /\ \A y \in Elements(outbox) : Place(outbox', y) = Place(outbox, y)
        /\ \A y \in Elements(outbox), z \in letters :
              Place(outbox', y) < Place(outbox', z)
    BY PutsBack
  <1>4. /\ (dead \cup waiting \cup late \subseteq failed)'
        /\ (\A n \in Notices : n[1] \in Elements(owed) =>
               n \in Elements(outbox) \cup dead \/ Received(n))'
        /\ (\A n \in Notices : n \in Elements(outbox) /\ Received(n) => n \in failed)'
    BY <1>1, <1>2, <1>3 DEF OrderInv
  <1>5. ASSUME NEW m \in Notices, NEW n \in Notices, Leads(m, n)'
        PROVE  Ahead(m, n)'
    <2>1. Leads(m, n) /\ Ahead(m, n) /\ m \notin letters
      BY <1>1, <1>3, <1>5, LeadsKept DEF OrderInv, Leads
    <2>2. m \in Elements(outbox') /\ n \in Elements(outbox') =>
             Place(outbox', m) < Place(outbox', n)
      BY <1>3, <2>1 DEF Ahead
    <2> QED  BY <1>1, <1>2, <1>3, <2>1, <2>2 DEF Ahead
  <1>6. OnlyFailedOvertaken'
    BY <1>1, RecordKept DEF OrderInv, HappenedBefore
  <1> QED  BY <1>4, <1>5, <1>6 DEF OrderInv

LEMMA OrderNext ==
    ASSUME TypeOK, BoxInv, FlushInv, OwedInv, Addressed, ~restarted => OrderInv, Next
    PROVE  ~restarted' => OrderInv'
  <1> SUFFICES ASSUME ~restarted' PROVE OrderInv'
    OBVIOUS
  <1>1. CASE Crash \/ \E c \in Causes : CrashBeforeForward(c)
    BY <1>1 DEF Crash, CrashBeforeForward, Restart
  <1>2. (~restarted /\ OrderInv) \/ restarted' # restarted
    OBVIOUS
  <1>3. CASE \E c \in Causes : Owe(c)
    BY <1>2, <1>3, OrderOwe DEF Owe
  <1>4. CASE FlushJob
    BY <1>2, <1>4, OrderFlushJob DEF FlushJob
  <1>5. CASE Delivered
    BY <1>2, <1>5, OrderDelivered DEF Delivered
  <1>6. CASE Undelivered
    BY <1>2, <1>6, OrderUndelivered DEF Undelivered
  <1>7. CASE \E n \in Notices : ArriveLate(n)
    BY <1>2, <1>7, OrderArriveLate DEF ArriveLate
  <1>8. CASE \E letters \in {dead} \cup {{n} : n \in dead} : Retry(letters)
    BY <1>2, <1>8, OrderRetry DEF Retry
  <1>9. CASE Heartbeat \/ \E n \in Notices : BackoffEnds(n)
    <2>1. /\ UNCHANGED <<owed, outbox, dead, late, failed, inbox, pass, sending, restarted>>
          /\ waiting' \subseteq waiting
      BY <1>9 DEF Heartbeat, BackoffEnds, boxVars, flushVars
    <2>2. \A n \in Notices : Received(n)' <=> Received(n)
      BY <2>1 DEF Received
    <2>3. \A m, n \in Notices : Leads(m, n)' => Leads(m, n)
      BY <2>1 DEF Leads, HappenedBefore
    <2>4. OnlyFailedOvertaken'
      BY <1>2, <2>1, RecordKept DEF OrderInv, HappenedBefore
    <2> QED  BY <1>2, <2>1, <2>2, <2>3, <2>4 DEF OrderInv, Ahead
  <1> QED  BY <1>1, <1>3, <1>4, <1>5, <1>6, <1>7, <1>8, <1>9 DEF Next

\* A notice is taken in again only after Window others
LEMMA RememberedNext ==
    ASSUME TypeOK, RememberedOnce, Next
    PROVE  RememberedOnce'
  <1>1. ASSUME NEW n \in Notices, TakeIn(n) PROVE RememberedOnce'
    <2>1. CASE inbox' = inbox
      BY <2>1 DEF RememberedOnce
    <2>2. CASE /\ ~Seen(n[2], n)
               /\ \A a \in Agents : inbox'[a] = IF a = n[2] THEN Append(inbox[a], n)
                                                ELSE inbox[a]
      <3>1. ASSUME NEW a \in Agents, Len(inbox'[a]) <= Window PROVE Once(inbox'[a])
        <4>1. CASE a # n[2]
          BY <2>2, <3>1, <4>1 DEF RememberedOnce
        <4>2. CASE a = n[2]
          <5>1. inbox[a] \in Seq(Notices) /\ inbox'[a] = Append(inbox[a], n)
            BY <2>2, <4>2 DEF TypeOK
          <5>2. Len(inbox[a]) \in Nat /\ Len(inbox'[a]) = Len(inbox[a]) + 1
            BY <5>1
          <5>3. Len(inbox[a]) <= Window /\ Once(inbox[a])
            BY <3>1, <5>2 DEF RememberedOnce
          <5>4. n \notin Elements(inbox[a])
            <6>1. \A i \in 1 .. Len(inbox[a]) : i > Len(inbox[a]) - Window
              BY <3>1, <5>2
            <6> QED  BY <2>2, <4>2, <6>1 DEF Seen, Elements
          <5> QED  BY <5>1, <5>3, <5>4, AppendedOne
        <4> QED  BY <4>1, <4>2
      <3> QED  BY <3>1 DEF RememberedOnce
    <2> QED  BY <1>1, <2>1, <2>2, TakesIn
  <1>2. CASE Delivered
    BY <1>1, <1>2 DEF Delivered, TypeOK
  <1>3. ASSUME NEW n \in Notices, ArriveLate(n) PROVE RememberedOnce'
    BY <1>1, <1>3 DEF ArriveLate
  <1>4. CASE inbox' = inbox
    BY <1>4 DEF RememberedOnce
  <1> QED
    BY <1>2, <1>3, <1>4
    DEF Next, Owe, Heartbeat, FlushJob, Undelivered, BackoffEnds, Retry, Crash,
        CrashBeforeForward

----------------------------------------------------------------------------
(* Theorems                                                                *)

LEMMA InvInit == Init => Inv /\ RememberedOnce
  <1> SUFFICES ASSUME Init PROVE Inv /\ RememberedOnce
    OBVIOUS
  <1>1. /\ Elements(owed) = {} /\ Elements(outbox) = {} /\ Once(owed) /\ Once(outbox)
        /\ \A a \in Agents : Elements(inbox[a]) = {} /\ Once(inbox[a])
    BY DEF Init, Elements, Once
  <1>2. \A n \in Notices : ~Received(n)
    BY <1>1, NoticeIs DEF Received
  <1>3. BoxInv
    BY <1>1, <1>2, FS_EmptySet DEF Init, BoxInv
  <1>4. FlushInv
    BY NoticeIs DEF Init, FlushInv
  <1>5. OwedInv
    BY <1>1, <1>2 DEF Init, OwedInv
  <1>6. OnlyFailedOvertaken
    BY DEF Init, OnlyFailedOvertaken
  <1>7. OrderInv
    <2>1. \A m, n : ~Leads(m, n)
      BY DEF Init, Leads, HappenedBefore
    <2> QED  BY <1>1, <1>2, <1>6, <2>1 DEF Init, OrderInv
  <1> QED  BY <1>1, <1>3, <1>4, <1>5, <1>7 DEF Inv, Addressed, RememberedOnce

LEMMA InvNext ==
    TypeOK /\ Inv /\ RememberedOnce /\ [Next]_vars => (TypeOK /\ Inv /\ RememberedOnce)'
  <1> SUFFICES ASSUME TypeOK, Inv, RememberedOnce, [Next]_vars
               PROVE  (TypeOK /\ Inv /\ RememberedOnce)'
    OBVIOUS
  <1>1. CASE Next
    BY <1>1, TypeNext, BoxNext, FlushNext, OwedNext, AddressedNext, OrderNext, RememberedNext
    DEF Inv
  <1>2. CASE UNCHANGED vars
    <2>1. \A n \in Notices : Received(n)' <=> Received(n)
      BY <1>2 DEF vars, Received
    <2>2. TypeOK' /\ Addressed' /\ RememberedOnce'
      BY <1>2 DEF vars, boxVars, flushVars, TypeOK, Inv, Addressed, RememberedOnce
    <2>3. BoxInv' /\ FlushInv' /\ OwedInv'
      BY <1>2, <2>1 DEF vars, boxVars, flushVars, Inv, BoxInv, FlushInv, OwedInv
    <2>4. \A m, n \in Notices : Leads(m, n)' <=> Leads(m, n)
      BY <1>2 DEF vars, boxVars, Leads, HappenedBefore
    <2>5. ASSUME OrderInv PROVE OrderInv'
      <3>1. OnlyFailedOvertaken'
        BY <1>2, <2>5
        DEF vars, boxVars, OrderInv, OnlyFailedOvertaken, HappenedBefore
      <3> QED
        BY <1>2, <2>1, <2>4, <2>5, <3>1 DEF vars, boxVars, flushVars, OrderInv, Ahead
    <2> QED  BY <1>2, <2>2, <2>3, <2>5 DEF vars, Inv
  <1> QED  BY <1>1, <1>2

LEMMA InvAlways == Spec => [](TypeOK /\ Inv /\ RememberedOnce)
  BY TypeInit, InvInit, InvNext, PTL DEF Spec

\* Every variable keeps its type, under every interleaving of state changes, pushes,
\* retries and crashes
THEOREM TypeCorrect == Spec => []TypeOK
  BY InvAlways, PTL

\* A notice written with its cause is on disk until its agent took it in, whatever
\* crashes and lost answers come in between (enqueue, flushOutbox, loadFromStore)
THEOREM NoneForgotten == Spec => []NeverForgotten
  <1>1. Inv => NeverForgotten
    BY DEF Inv, BoxInv, NeverForgotten, OnDisk
  <1> QED  BY <1>1, InvAlways, PTL

\* A notice is never in the outbox twice, nor both there and a dead letter
\* (flushOutbox, retryDeadLetter, retryAllDeadLetters)
THEOREM SingleCopy == Spec => []OneCopy
  <1>1. TypeOK /\ Inv => OneCopy
    BY CountsElements DEF TypeOK, Inv, BoxInv, OneCopy
  <1> QED  BY <1>1, InvAlways, PTL

\* Until the venue is restarted an agent hears of what happened in its order, but
\* for notices a push of which has failed (flushOutbox, enqueue)
THEOREM InOrder == Spec => []OnlyFailedOvertaken
  <1>1. Inv => OnlyFailedOvertaken
    BY DEF Inv, OrderInv, OnlyFailedOvertaken
  <1> QED  BY <1>1, InvAlways, PTL

\* However often a notice is pushed, an agent hands it on once as long as it has taken
\* in no more than it remembers (markSeen)
THEOREM OnceWhileRemembered ==
    Spec => [](\A a \in Agents : Len(inbox[a]) <= Window =>
                  Cardinality(Elements(inbox[a])) = Len(inbox[a]))
  <1>1. TypeOK /\ RememberedOnce =>
           \A a \in Agents : Len(inbox[a]) <= Window =>
              Cardinality(Elements(inbox[a])) = Len(inbox[a])
    BY CountsElements DEF TypeOK, RememberedOnce
  <1> QED  BY <1>1, InvAlways, PTL

NoticesFor(a) == {n \in Notices : n[2] = a}

\* An agent remembers every notice there is for it
AllRemembered ==
    \A a \in Agents :
        IsFiniteSet(NoticesFor(a)) /\ Cardinality(NoticesFor(a)) <= Window

\* When no agent is sent more notices than it remembers, each notice is in one
\* place, handed on once, and overtaken until a restart only when a push of it has
\* failed (flushOutbox, retryDeadLetter, markSeen)
THEOREM OnceInOrder ==
    ASSUME AllRemembered
    PROVE  Spec => []OnceAndInOrder
  <1> DEFINE InWindow == \A a \in Agents : Once(inbox[a]) /\ Len(inbox[a]) <= Window
  <1>1. Init => InWindow
    BY DEF Init, Once
  <1>2. TypeOK /\ Addressed' /\ TypeOK' /\ InWindow /\ [Next]_vars => InWindow'
    <2> SUFFICES ASSUME TypeOK, Addressed', TypeOK', InWindow, [Next]_vars PROVE InWindow'
      OBVIOUS
    <2>1. ASSUME NEW n \in Notices, TakeIn(n) PROVE InWindow'
      <3>1. CASE inbox' = inbox
        BY <3>1
      <3>2. CASE /\ ~Seen(n[2], n)
                 /\ \A a \in Agents : inbox'[a] = IF a = n[2] THEN Append(inbox[a], n)
                                                  ELSE inbox[a]
        <4>1. ASSUME NEW a \in Agents PROVE Once(inbox'[a]) /\ Len(inbox'[a]) <= Window
          <5>1. CASE a # n[2]
            BY <3>2, <5>1
          <5>2. CASE a = n[2]
            <6>1. inbox[a] \in Seq(Notices) /\ inbox'[a] = Append(inbox[a], n)
              BY <3>2, <5>2 DEF TypeOK
            <6>2. Len(inbox[a]) \in Nat /\ Once(inbox[a]) /\ Len(inbox[a]) <= Window
              BY <6>1
            <6>3. \A i \in 1 .. Len(inbox[a]) : i > Len(inbox[a]) - Window
              BY <6>2
            <6>4. n \notin Elements(inbox[a])
              BY <3>2, <5>2, <6>3 DEF Seen, Elements
            <6>5. Once(inbox'[a]) /\ inbox'[a] \in Seq(Notices)
              BY <6>1, <6>2, <6>4, AppendedOne
            <6>6. /\ Elements(inbox'[a]) \subseteq NoticesFor(a)
                  /\ IsFiniteSet(NoticesFor(a)) /\ Cardinality(NoticesFor(a)) <= Window
              BY <6>5, ElementsOf DEF Addressed, NoticesFor, AllRemembered
            <6>7. Cardinality(Elements(inbox'[a])) <= Cardinality(NoticesFor(a))
              BY <6>6, FS_Subset
            <6>8. Cardinality(Elements(inbox'[a])) = Len(inbox'[a])
              BY <6>5, CountsElements
            <6>9. Len(inbox'[a]) \in Nat /\ Cardinality(NoticesFor(a)) \in Nat
              BY <6>5, <6>6, FS_CardinalityType
            <6> QED  BY <6>5, <6>6, <6>7, <6>8, <6>9
          <5> QED  BY <5>1, <5>2
        <4> QED  BY <4>1
      <3> QED  BY <2>1, <3>1, <3>2, TakesIn
    <2>2. CASE Delivered
      BY <2>1, <2>2 DEF Delivered, TypeOK
    <2>3. ASSUME NEW n \in Notices, ArriveLate(n) PROVE InWindow'
      BY <2>1, <2>3 DEF ArriveLate
    <2>4. CASE inbox' = inbox
      BY <2>4
    <2> QED
      BY <2>2, <2>3, <2>4
      DEF Next, Owe, Heartbeat, FlushJob, Undelivered, BackoffEnds, Retry, Crash,
          CrashBeforeForward, vars
  <1>3. TypeOK /\ Inv /\ InWindow => OnceAndInOrder
    <2>1. ASSUME TypeOK, Inv PROVE OneCopy /\ OnlyFailedOvertaken
      BY <2>1, CountsElements
      DEF TypeOK, Inv, BoxInv, OrderInv, OneCopy, OnlyFailedOvertaken
    <2>2. ASSUME TypeOK, InWindow PROVE TakenInOnce
      BY <2>2, CountsElements DEF TypeOK, TakenInOnce
    <2> QED  BY <2>1, <2>2 DEF OnceAndInOrder
  <1>4. Inv => Addressed
    BY DEF Inv
  <1> QED  BY <1>1, <1>2, <1>3, <1>4, InvAlways, PTL DEF Spec
=============================================================================
