---------------------------- MODULE Witness_proofs ----------------------------
(***************************************************************************)
(* No witness convicts an honest venue: for any number of witnesses, of    *)
(* overlapping polls of each, and of entries.  The invariant: as long as   *)
(* the venue is honest there is one book, and everything a witness has     *)
(* verified, signed or is about to sign is a prefix of it; two prefixes of *)
(* one length are equal, so that no receipt contradicts another.           *)
(* Of the console: a company is claimed by one client, and its credential  *)
(* is issued under the principal who proved control of it, for any clients *)
(* and companies.                                                          *)
(***************************************************************************)
EXTENDS Witness, MCConsole, FiniteSetTheorems, SequenceTheorems,
        WellFoundedInduction, TLAPS

\* What a poll in flight carries is the beginning of the chain
SoundPoll == [stage : {"entries", "receipt"}, head : Prefixes(ledger), last : Chain]

OneBook ==
    /\ ledger \in Chain
    /\ drawn \in Nat
    /\ fork.to = {}
    /\ last \in [Witnesses -> Chain]
    /\ seen \in [Witnesses -> SUBSET Prefixes(ledger)]
    /\ receipts \in [Witnesses -> Seq(Prefixes(ledger))]
    /\ poll \in [Witnesses -> [Polls -> SoundPoll \cup {NoPoll}]]
    /\ proofs = [w \in Witnesses |-> {}]
    /\ halted = [w \in Witnesses |-> FALSE]
    /\ mail = {}

IInv == honest => OneBook

----------------------------------------------------------------------------
(* Prefixes of a chain                                                     *)

\* A prefix is the subsequence up to its own length
LEMMA PrefixOf ==
    ASSUME NEW c \in Chain, NEW h \in Prefixes(c)
    PROVE  /\ h \in Chain /\ Len(h) \in 0 .. Len(c)
           /\ h = SubSeq(c, 1, Len(h))
<1>1. PICK n \in 0 .. Len(c) : h = SubSeq(c, 1, n)
  BY DEF Prefixes
<1>2. \A i \in 1 .. n : c[i] \in Entry
  BY DEF Chain
<1>3. h \in Seq(Entry) /\ Len(h) = n
  BY <1>1, <1>2, SubSeqProperties
<1> QED BY <1>1, <1>3 DEF Chain

\* Prefixes of one length are equal
LEMMA PrefixesAgree ==
    ASSUME NEW c \in Chain, NEW g \in Prefixes(c), NEW h \in Prefixes(c),
           Len(g) = Len(h)
    PROVE  g = h
  BY PrefixOf

\* To be a prefix it is enough to be a subsequence from the start
LEMMA PrefixIntro ==
    ASSUME NEW c, NEW n \in 0 .. Len(c)
    PROVE  SubSeq(c, 1, n) \in Prefixes(c)
  BY Zenon DEF Prefixes

\* The whole chain is a prefix of itself
LEMMA WholeIsPrefix ==
    ASSUME NEW c \in Chain
    PROVE  c \in Prefixes(c)
<1>1. c = SubSeq(c, 1, Len(c))
  BY SubSeqFull DEF Chain
<1>2. Len(c) \in 0 .. Len(c)
  BY DEF Chain
<1>3. SubSeq(c, 1, Len(c)) \in Prefixes(c)
  BY <1>2, PrefixIntro
<1> QED BY <1>1, <1>3, Zenon

\* A prefix of a prefix is a prefix
LEMMA PrefixOfPrefix ==
    ASSUME NEW c \in Chain, NEW h \in Prefixes(c), NEW i \in 1 .. Len(h)
    PROVE  SubSeq(h, 1, i) \in Prefixes(c)
<1> DEFINE n == Len(h)
<1>1. n \in 1 .. Len(c) /\ h = SubSeq(c, 1, n) /\ i \in 1 .. n
  BY PrefixOf DEF Chain
<1>2. SubSeq(SubSeq(c, 1, n), 1, i) = SubSeq(c, 1, i)
  <2> HIDE DEF n
  <2>1. c \in Seq(Entry) /\ 1 \in 1 .. Len(c) /\ 1 \in 1 .. (n - 1 + 1)
    BY <1>1 DEF Chain
  <2>2. i \in 1 .. (n - 1 + 1)
    BY <1>1
  <2>3. SubSeq(SubSeq(c, 1, n), 1, i) = SubSeq(c, 1 + 1 - 1, 1 + i - 1)
    BY <1>1, <2>1, <2>2, SubSeqOfSubSeq
  <2> QED BY <2>3, <1>1
<1>3. SubSeq(c, 1, i) \in Prefixes(c)
  <2>1. i \in 0 .. Len(c)
    BY <1>1 DEF Chain
  <2> QED BY <2>1, PrefixIntro
<1> QED BY <1>1, <1>2, <1>3, Zenon

\* The prefixes of a chain are prefixes of what it grows into
LEMMA PrefixesGrow ==
    ASSUME NEW c \in Chain, NEW e \in Entry
    PROVE  /\ Append(c, e) \in Chain
           /\ Prefixes(c) \subseteq Prefixes(Append(c, e))
<1>1. Append(c, e) \in Seq(Entry) /\ Len(Append(c, e)) = Len(c) + 1
  BY DEF Chain
<1>2. ASSUME NEW n \in 0 .. Len(c)
      PROVE  SubSeq(c, 1, n) = SubSeq(Append(c, e), 1, n)
  <2>1. CASE n = 0
    BY <2>1, SubSeqEmpty
  <2>2. CASE n # 0
    <3>1. Append(c, e) = c \o <<e>>
      BY DEF Chain
    <3>2. n \in 1 .. Len(c) /\ 1 \in 1 .. Len(c)
      BY <2>2 DEF Chain
    <3> QED BY <3>1, <3>2, SubSeqOfConcat1 DEF Chain
  <2> QED BY <2>1, <2>2
<1> QED BY <1>1, <1>2 DEF Prefixes, Chain

----------------------------------------------------------------------------
(* The invariant                                                           *)

LEMMA Initially == Init => IInv
<1> SUFFICES ASSUME Init PROVE OneBook
  BY DEF IInv
<1>1. ledger \in Chain
  BY DEF Init, Chain, Genesis, Entry
<1> QED BY <1>1 DEF Init, OneBook, Chain

\* Sequences of heads, and polls, keep their types when the chain grows
LEMMA Monotone ==
    ASSUME NEW S, NEW T, S \subseteq T
    PROVE  Seq(S) \subseteq Seq(T)
  OBVIOUS

\* The venue appends to the one book, or stops being honest
LEMMA VenueStep ==
    ASSUME IInv, Venue
    PROVE  IInv'
<1> SUFFICES ASSUME OneBook, NEW accepted \in BOOLEAN, Record(accepted)
             PROVE  OneBook'
  BY DEF IInv, Venue, Record, Equivocate
<1> DEFINE e == [id |-> drawn + 1, status |-> accepted]
<1>1. e \in Entry /\ ledger' = Append(ledger, e) /\ drawn' \in Nat
  BY DEF OneBook, Record, Entry
<1>2. ledger' \in Chain /\ Prefixes(ledger) \subseteq Prefixes(ledger')
  BY <1>1, PrefixesGrow DEF OneBook
<1>3. Seq(Prefixes(ledger)) \subseteq Seq(Prefixes(ledger'))
  BY <1>2, Monotone
<1>4. UNCHANGED <<fork, last, seen, receipts, poll, proofs, halted, mail>>
  BY DEF Venue, Record, chainVars
<1>5. receipts' \in [Witnesses -> Seq(Prefixes(ledger'))]
  BY <1>3, <1>4 DEF OneBook
<1>6. seen' \in [Witnesses -> SUBSET Prefixes(ledger')]
  BY <1>2, <1>4 DEF OneBook
<1>7. poll' \in [Witnesses -> [Polls -> SoundPoll' \cup {NoPoll}]]
  <2>1. SoundPoll \subseteq SoundPoll'
    BY <1>2 DEF SoundPoll
  <2> QED BY <2>1, <1>4 DEF OneBook
<1> QED BY <1>1, <1>2, <1>4, <1>5, <1>6, <1>7 DEF OneBook, SoundPoll

\* What witness w does in slot s keeps everything it holds within the one book
LEMMA PollStep ==
    ASSUME IInv, NEW w \in Witnesses, NEW s \in Polls,
           \/ PollHead(w, s) \/ PollEntries(w, s)
           \/ PollCosign(w, s) \/ PollSkip(w, s)
    PROVE  IInv'
<1> SUFFICES ASSUME OneBook PROVE OneBook'
  BY DEF IInv, PollHead, PollEntries, PollCosign, PollSkip, venueVars
<1> USE DEF venueVars, chainVars
<1>0. SoundPoll' = SoundPoll /\ Prefixes(ledger)' = Prefixes(ledger)
  BY DEF SoundPoll, PollHead, PollEntries, PollCosign, PollSkip
<1>1. CASE PollHead(w, s)
  <2>1. ViewOf(w) = ledger
    BY DEF ViewOf, OneBook
  <2>2. [stage |-> "entries", head |-> ledger, last |-> last[w]] \in SoundPoll
    BY WholeIsPrefix DEF OneBook, SoundPoll
  <2>3. poll' \in [Witnesses -> [Polls -> SoundPoll \cup {NoPoll}]]
    BY <1>1, <2>1, <2>2 DEF PollHead, Goes, OneBook
  <2> QED BY <1>0, <1>1, <2>3 DEF PollHead, OneBook
<1>2. CASE PollEntries(w, s)
  <2>1. poll[w][s] \in SoundPoll
    BY <1>2 DEF PollEntries, OneBook, NoPoll
  <2>2. [poll[w][s] EXCEPT !.stage = "receipt"] \in SoundPoll
    BY <2>1 DEF SoundPoll
  <2>3. poll' \in [Witnesses -> [Polls -> SoundPoll \cup {NoPoll}]]
    BY <1>2, <2>2 DEF PollEntries, Goes, OneBook
  <2> QED BY <1>0, <1>2, <2>3 DEF PollEntries, OneBook
<1>3. CASE PollCosign(w, s)
  <2> DEFINE p == poll[w][s]
  <2>1. p \in SoundPoll
    BY <1>3 DEF PollCosign, OneBook, NoPoll
  <2>2. p.head \in Prefixes(ledger) /\ p.head \in Chain /\ p.last \in Chain
    BY <2>1, PrefixOf DEF SoundPoll, OneBook
  <2>3. Remembers(seen[w], p) \subseteq Prefixes(ledger)
    <3>1. \A i \in NewPositions(p) : i \in 1 .. Len(p.head)
      BY <2>2 DEF NewPositions, Chain
    <3>2. \A i \in NewPositions(p) : SubSeq(p.head, 1, i) \in Prefixes(ledger)
      BY <2>2, <3>1, PrefixOfPrefix DEF OneBook
    <3>3. seen[w] \subseteq Prefixes(ledger)
      BY DEF OneBook
    <3> QED BY <3>2, <3>3, Zenon DEF Remembers
  <2>4. seen' \in [Witnesses -> SUBSET Prefixes(ledger)]
    BY <1>3, <2>3 DEF PollCosign, OneBook
  <2>5. receipts' \in [Witnesses -> Seq(Prefixes(ledger))]
    BY <1>3, <2>2 DEF PollCosign, OneBook
  <2>6. last' \in [Witnesses -> Chain]
    BY <1>3, <2>2 DEF PollCosign, OneBook
  <2>7. poll' \in [Witnesses -> [Polls -> SoundPoll \cup {NoPoll}]]
    BY <1>3 DEF PollCosign, Goes, OneBook
  <2> QED BY <1>0, <1>3, <2>4, <2>5, <2>6, <2>7 DEF PollCosign, OneBook
<1>4. CASE PollSkip(w, s)
  BY <1>0, <1>4 DEF PollSkip, Goes, OneBook
<1> QED BY <1>1, <1>2, <1>3, <1>4

\* A receipt for a verified position is one for a prefix
LEMMA SignForStep ==
    ASSUME IInv, NEW w \in Witnesses, NEW p \in Witnesses, SignFor(w, p)
    PROVE  IInv'
<1> SUFFICES ASSUME OneBook PROVE OneBook'
  BY DEF IInv, SignFor, venueVars
<1> USE DEF venueVars, chainVars
<1>1. PICK h \in seen[w] : Sign(w, h)
  BY DEF SignFor
<1>2. h \in Prefixes(ledger)
  BY DEF OneBook
<1>3. receipts' \in [Witnesses -> Seq(Prefixes(ledger))]
  BY <1>1, <1>2 DEF Sign, OneBook
<1> QED BY <1>3 DEF SignFor, OneBook, SoundPoll

\* In one book nothing a witness has signed contradicts what another has verified
LEMMA GossipStep ==
    ASSUME IInv, honest, NEW w \in Witnesses, NEW p \in Witnesses,
           NEW head \in HeadsOf(w)
    PROVE  ~Gossip(w, p, head)
<1>1. OneBook
  BY DEF IInv
<1>2. head \in Prefixes(ledger)
  <2>1. receipts[w] \in Seq(Prefixes(ledger))
    BY <1>1 DEF OneBook
  <2> QED BY <2>1 DEF HeadsOf, ToSet
<1>3. \A h \in seen[p] : Len(h) = Len(head) => h = head
  BY <1>1, <1>2, PrefixesAgree DEF OneBook
<1> QED BY <1>3 DEF Gossip, Contradicts

\* The invariant is inductive
LEMMA Inductive == IInv /\ [Next]_vars => IInv'
<1> SUFFICES ASSUME IInv, [Next]_vars PROVE IInv'
  OBVIOUS
<1>1. CASE Venue
  BY <1>1, VenueStep
<1>2. ASSUME NEW w \in Witnesses, NEW s \in Polls,
             \/ PollHead(w, s) \/ PollEntries(w, s)
             \/ PollCosign(w, s) \/ PollSkip(w, s)
      PROVE  IInv'
  BY <1>2, PollStep
<1>3. ASSUME NEW w \in Witnesses, NEW p \in Witnesses, SignFor(w, p)
      PROVE  IInv'
  BY <1>3, SignForStep
<1>4. ASSUME NEW w \in Witnesses, NEW p \in Witnesses, NEW head \in HeadsOf(w),
             Gossip(w, p, head)
      PROVE  IInv'
  <2>1. honest' = honest
    BY <1>4 DEF Gossip, venueVars
  <2> QED BY <1>4, <2>1, GossipStep DEF IInv
<1>5. ASSUME NEW m \in mail, ReceiveProof(m) \/ Lose(m)
      PROVE  IInv'
  <2>1. honest' = honest
    BY <1>5 DEF ReceiveProof, Lose, venueVars
  <2> QED BY <1>5, <2>1 DEF IInv, OneBook
<1>6. CASE UNCHANGED vars
  BY <1>6 DEF vars, venueVars, chainVars, IInv, OneBook, SoundPoll
<1> QED BY <1>1, <1>2, <1>3, <1>4, <1>5, <1>6 DEF Next

\* No witness ever holds a proof against an honest venue, or halts
\* (NoFalseProof: receiveGossip, receiveProof, poll)
THEOREM NoneConvicted == Spec => []NoFalseProof
<1>1. IInv => NoFalseProof
  BY DEF IInv, OneBook, NoFalseProof
<1> QED BY <1>1, Initially, Inductive, PTL DEF Spec

----------------------------------------------------------------------------
(* Type correctness, whatever the venue does                               *)

\* The positions kept are in one order: one is the first, one the second, ...
LEMMA KeptInOrder ==
    ASSUME ledger \in Chain
    PROVE  /\ IsFiniteSet(Kept) /\ Cardinality(Kept) \in Nat
           /\ \A k \in 1 .. Cardinality(Kept) :
                 \E i \in Kept : Cardinality({j \in Kept : j <= i}) = k
<1> DEFINE upTo(i) == {j \in Kept : j <= i}
           rank == [i \in Kept |-> Cardinality(upTo(i))]
<1>1. Len(ledger) \in Nat /\ Kept \in SUBSET (1 .. Len(ledger)) /\ Kept \subseteq Nat
  BY DEF Chain, Kept
<1>2. IsFiniteSet(Kept) /\ Cardinality(Kept) \in Nat
  <2>1. IsFiniteSet(1 .. Len(ledger))
    BY <1>1, FS_Interval
  <2> QED BY <1>1, <2>1, FS_Subset, FS_CardinalityType
<1> DEFINE n == Cardinality(Kept)
<1>3. ASSUME NEW i \in Kept
      PROVE  /\ IsFiniteSet(upTo(i)) /\ Cardinality(upTo(i)) \in 1 .. n
  <2>1. upTo(i) \in SUBSET Kept /\ i \in upTo(i)
    BY <1>1
  <2>2. IsFiniteSet(upTo(i)) /\ Cardinality(upTo(i)) <= n
    BY <1>2, <2>1, FS_Subset
  <2>3. Cardinality(upTo(i)) \in Nat /\ Cardinality(upTo(i)) # 0
    <3> HIDE DEF upTo
    <3> QED BY <2>1, <2>2, FS_CardinalityType, FS_EmptySet
  <2> QED BY <1>2, <2>2, <2>3
<1>4. ASSUME NEW i \in Kept, NEW k \in Kept, i < k
      PROVE  Cardinality(upTo(i)) # Cardinality(upTo(k))
  <2>1. upTo(i) \in SUBSET upTo(k) /\ k \in upTo(k) /\ k \notin upTo(i)
    <3>1. \A j \in Kept : j \in Nat
      BY <1>1
    <3>2. \A j \in Kept : j <= i => j <= k
      BY <1>4, <3>1
    <3>3. k <= k /\ ~(k <= i)
      BY <1>4, <3>1
    <3> QED BY <3>2, <3>3
  <2>2. IsFiniteSet(upTo(k))
    BY <1>3
  <2> HIDE DEF upTo
  <2> QED BY <2>1, <2>2, FS_Subset
<1>5. rank \in Injection(Kept, 1 .. n)
  <2>1. rank \in [Kept -> 1 .. n]
    BY <1>3
  <2>2. \A i, k \in Kept : rank[i] = rank[k] => i = k
    <3> HIDE DEF upTo
    <3>1. \A i, k \in Kept : i < k \/ k < i \/ i = k
      BY <1>1
    <3> QED BY <1>4, <3>1
  <2> QED BY <2>1, <2>2 DEF Injection, IsInjective
<1>6. IsFiniteSet(1 .. n) /\ Cardinality(1 .. n) = n
  BY <1>2, FS_Interval
<1> HIDE DEF rank
<1>7. rank \in Surjection(Kept, 1 .. n)
  BY <1>5, <1>6, FS_Injection
<1>8. \A k \in 1 .. n : \E i \in Kept : rank[i] = k
  BY <1>7 DEF Surjection
<1> QED BY <1>2, <1>8 DEF rank

\* What a witness is shown is a chain
LEMMA ViewTyped ==
    ASSUME TypeOK, NEW w \in Witnesses
    PROVE  ViewOf(w) \in Chain
<1>1. ForkView \in Chain
  <2>1. ASSUME NEW k \in 1 .. Cardinality(Kept)
        PROVE  ledger[CHOOSE i \in Kept : Cardinality({j \in Kept : j <= i}) = k] \in Entry
    <3>1. (CHOOSE i \in Kept : Cardinality({j \in Kept : j <= i}) = k) \in Kept
      BY KeptInOrder DEF TypeOK
    <3> HIDE DEF Kept
    <3>2. \A i \in Kept : ledger[i] \in Entry
      BY DEF Kept, TypeOK, Chain
    <3> QED BY <3>1, <3>2
  <2>2. ForkView \in [1 .. Cardinality(Kept) -> Entry]
    BY <2>1 DEF ForkView
  <2>3. Cardinality(Kept) \in Nat
    BY KeptInOrder DEF TypeOK
  <2> HIDE DEF ForkView
  <2> QED BY <2>2, <2>3 DEF Chain
<1> QED BY <1>1 DEF ViewOf, TypeOK

LEMMA TypeNext == TypeOK /\ [Next]_vars => TypeOK'
<1> SUFFICES ASSUME TypeOK, [Next]_vars PROVE TypeOK'
  OBVIOUS
<1> USE DEF venueVars, chainVars
<1>1. CASE Venue
  <2>1. ASSUME NEW accepted \in BOOLEAN, Record(accepted) PROVE TypeOK'
    <3>1. drawn' \in 0 .. MaxEntries /\ [id |-> drawn + 1, status |-> accepted] \in Entry
      BY <2>1, WitnessAssumption DEF Record, TypeOK, Entry
    <3>2. ledger' \in Chain
      BY <2>1, <3>1 DEF Record, TypeOK, Chain
    <3> QED BY <1>1, <2>1, <3>1, <3>2 DEF Venue, Record, TypeOK
  <2>2. ASSUME NEW from \in 1 .. Len(ledger), Equivocate(from) PROVE TypeOK'
    <3>1. from \in Nat
      BY DEF TypeOK, Chain
    <3>2. fork' \in [from : Nat, to : SUBSET Witnesses] /\ honest' \in BOOLEAN
      BY <2>2, <3>1, WitnessAssumption DEF Equivocate
    <3> QED BY <1>1, <2>2, <3>2 DEF Venue, Equivocate, TypeOK
  <2> QED BY <1>1, <2>1, <2>2 DEF Venue
<1>2. ASSUME NEW w \in Witnesses, NEW s \in Polls,
             \/ PollHead(w, s) \/ PollEntries(w, s)
             \/ PollCosign(w, s) \/ PollSkip(w, s)
      PROVE  TypeOK'
  <2>1. CASE PollHead(w, s)
    <3>1. ViewOf(w) \in NonEmpty /\ last[w] \in Chain
      <4>1. ViewOf(w) \in Chain /\ last[w] \in Chain
        BY ViewTyped DEF TypeOK
      <4>2. Len(ViewOf(w)) >= Len(last[w]) /\ ViewOf(w) # last[w]
        BY <2>1 DEF PollHead
      <4>3. ViewOf(w) # <<>>
        BY <4>1, <4>2 DEF Chain
      <4> QED BY <4>1, <4>3 DEF NonEmpty
    <3>2. [stage |-> "entries", head |-> ViewOf(w), last |-> last[w]] \in Poll
      BY <3>1 DEF Poll
    <3>3. poll' \in [Witnesses -> [Polls -> Poll \cup {NoPoll}]]
      BY <2>1, <3>2 DEF PollHead, Goes, TypeOK
    <3> QED BY <2>1, <3>3 DEF PollHead, TypeOK
  <2>2. CASE PollEntries(w, s)
    <3>1. poll[w][s] \in Poll
      BY <2>2 DEF PollEntries, TypeOK, NoPoll
    <3>2. [poll[w][s] EXCEPT !.stage = "receipt"] \in Poll
      BY <3>1 DEF Poll
    <3>3. poll' \in [Witnesses -> [Polls -> Poll \cup {NoPoll}]]
      BY <2>2, <3>2 DEF PollEntries, Goes, TypeOK
    <3> QED BY <2>2, <3>3 DEF PollEntries, TypeOK
  <2>3. CASE PollCosign(w, s)
    <3> DEFINE p == poll[w][s]
    <3>1. p \in Poll
      BY <2>3 DEF PollCosign, TypeOK, NoPoll
    <3>2. p.head \in NonEmpty /\ p.head \in Chain /\ p.last \in Chain
      BY <3>1 DEF Poll, NonEmpty
    <3>3. Remembers(seen[w], p) \subseteq NonEmpty
      <4>1. ASSUME NEW i \in NewPositions(p) PROVE SubSeq(p.head, 1, i) \in NonEmpty
        <5>1. i \in 1 .. Len(p.head)
          BY <3>2 DEF NewPositions, Chain
        <5>2. \A j \in 1 .. i : p.head[j] \in Entry
          BY <3>2, <5>1 DEF Chain
        <5>3. SubSeq(p.head, 1, i) \in Seq(Entry) /\ Len(SubSeq(p.head, 1, i)) = i
          BY <5>1, <5>2, SubSeqProperties
        <5> QED BY <5>1, <5>3 DEF NonEmpty, Chain
      <4>2. seen[w] \subseteq NonEmpty
        BY DEF TypeOK
      <4> QED BY <4>1, <4>2, Zenon DEF Remembers
    <3>4. seen' \in [Witnesses -> SUBSET NonEmpty]
      BY <2>3, <3>3 DEF PollCosign, TypeOK
    <3>5. receipts' \in [Witnesses -> Seq(NonEmpty)]
      BY <2>3, <3>2 DEF PollCosign, TypeOK
    <3>6. last' \in [Witnesses -> Chain]
      BY <2>3, <3>2 DEF PollCosign, TypeOK
    <3>7. poll' \in [Witnesses -> [Polls -> Poll \cup {NoPoll}]]
      BY <2>3 DEF PollCosign, Goes, TypeOK
    <3> QED BY <2>3, <3>4, <3>5, <3>6, <3>7 DEF PollCosign, TypeOK
  <2>4. CASE PollSkip(w, s)
    BY <2>4 DEF PollSkip, Goes, TypeOK
  <2> QED BY <1>2, <2>1, <2>2, <2>3, <2>4
<1>3. ASSUME NEW w \in Witnesses, NEW h \in NonEmpty, Sign(w, h)
      PROVE  receipts' \in [Witnesses -> Seq(NonEmpty)]
  BY <1>3 DEF Sign, TypeOK
<1>4. ASSUME NEW w \in Witnesses, NEW p \in Witnesses, SignFor(w, p)
      PROVE  TypeOK'
  <2>1. PICK h \in seen[w] : Sign(w, h)
    BY <1>4 DEF SignFor
  <2>2. receipts' \in [Witnesses -> Seq(NonEmpty)]
    BY <1>3, <2>1 DEF TypeOK
  <2> QED BY <1>4, <2>2 DEF SignFor, TypeOK
<1>5. ASSUME NEW w \in Witnesses, NEW p \in Witnesses, NEW head \in HeadsOf(w),
             Gossip(w, p, head)
      PROVE  TypeOK'
  <2>1. \A q \in Witnesses : HeadsOf(q) \subseteq NonEmpty
    BY DEF TypeOK, HeadsOf, ToSet
  <2>2. PICK h \in Contradicts(p, head) : \E mine \in Shown(p, h) \ {head} :
           /\ Sign(p, mine)
           /\ proofs' = [proofs EXCEPT ![p] = @ \cup {<<mine, head>>}]
           /\ halted' = [halted EXCEPT ![p] = TRUE]
           /\ mail' = mail \cup {[to |-> q, proof |-> <<mine, head>>] : q \in Peers(p)}
    BY <1>5 DEF Gossip
  <2>3. PICK mine \in Shown(p, h) :
           /\ Sign(p, mine)
           /\ proofs' = [proofs EXCEPT ![p] = @ \cup {<<mine, head>>}]
           /\ halted' = [halted EXCEPT ![p] = TRUE]
           /\ mail' = mail \cup {[to |-> q, proof |-> <<mine, head>>] : q \in Peers(p)}
    BY <2>2
  <2>4. h \in NonEmpty
    BY DEF Contradicts, TypeOK
  <2>5. mine \in NonEmpty /\ mine \in Chain /\ head \in Chain
    BY <2>1, <2>4 DEF Shown, NonEmpty
  <2>6. receipts' \in [Witnesses -> Seq(NonEmpty)]
    BY <1>3, <2>3, <2>5
  <2>7. /\ proofs' \in [Witnesses -> SUBSET (Chain \X Chain)]
        /\ halted' \in [Witnesses -> BOOLEAN] /\ mail' \subseteq Mail
    BY <2>3, <2>5 DEF TypeOK, Mail, Peers
  <2> QED BY <1>5, <2>6, <2>7 DEF Gossip, TypeOK
<1>6. ASSUME NEW m \in mail, ReceiveProof(m) \/ Lose(m)
      PROVE  TypeOK'
  <2>1. m.to \in Witnesses /\ m.proof \in Chain \X Chain /\ mail \ {m} \subseteq Mail
    BY DEF TypeOK, Mail
  <2>2. CASE ReceiveProof(m)
    <3>1. proofs' \in [Witnesses -> SUBSET (Chain \X Chain)]
      BY <2>1, <2>2 DEF ReceiveProof, TypeOK
    <3> QED BY <2>1, <2>2, <3>1 DEF ReceiveProof, TypeOK
  <2>3. CASE Lose(m)
    BY <2>1, <2>3 DEF Lose, TypeOK
  <2> QED BY <1>6, <2>2, <2>3
<1>7. CASE UNCHANGED vars
  BY <1>7 DEF vars, TypeOK
<1> QED BY <1>1, <1>2, <1>4, <1>5, <1>6, <1>7 DEF Next

\* Every variable keeps its type, also when the venue shows a second book
THEOREM TypeCorrect == Spec => []TypeOK
<1>1. Init => TypeOK
  <2> SUFFICES ASSUME Init PROVE TypeOK
    OBVIOUS
  <2>1. ledger \in Chain
    BY DEF Init, Chain, Genesis, Entry
  <2>2. receipts \in [Witnesses -> Seq(NonEmpty)] /\ last \in [Witnesses -> Chain]
    BY EmptySeq DEF Init, Chain
  <2> QED BY <2>1, <2>2, WitnessAssumption DEF Init, TypeOK
<1> QED BY <1>1, TypeNext, PTL DEF Spec

----------------------------------------------------------------------------
(* One history, whatever the venue does                                    *)

\* A prefix of a chain begins like the chain, and its prefixes are prefixes of it
LEMMA PrefixGrows ==
    ASSUME NEW s \in Chain, NEW t \in Chain, IsPrefix(s, t)
    PROVE  s \in Prefixes(t) /\ Prefixes(s) \subseteq Prefixes(t)
<1>1. Len(s) \in 0 .. Len(t) /\ SubSeq(s, 1, Len(s)) = SubSeq(t, 1, Len(s))
  BY DEF IsPrefix, Chain
<1>2. s = SubSeq(s, 1, Len(s))
  BY SubSeqFull DEF Chain
<1>3. s \in Prefixes(t)
  <2>1. SubSeq(t, 1, Len(s)) \in Prefixes(t)
    BY <1>1, PrefixIntro
  <2> QED BY <1>1, <1>2, <2>1
<1>4. ASSUME NEW h \in Prefixes(s) PROVE h \in Prefixes(t)
  <2>1. Len(h) \in 0 .. Len(s) /\ h = SubSeq(s, 1, Len(h))
    BY PrefixOf
  <2>2. CASE Len(h) = 0
    <3>1. SubSeq(s, 1, 0) = <<>> /\ SubSeq(t, 1, 0) = <<>>
      BY SubSeqEmpty, <1>1 DEF Chain
    <3>2. SubSeq(t, 1, 0) \in Prefixes(t)
      BY <1>1, PrefixIntro DEF Chain
    <3> QED BY <2>1, <2>2, <3>1, <3>2
  <2>3. CASE Len(h) \in 1 .. Len(s)
    <3>1. SubSeq(s, 1, Len(h)) \in Prefixes(t)
      BY <1>3, <2>3, PrefixOfPrefix
    <3> QED BY <2>1, <3>1
  <2> QED BY <2>1, <2>2, <2>3 DEF Chain
<1> QED BY <1>3, <1>4

\* Of two prefixes of one chain one begins the other
LEMMA PrefixesOrdered ==
    ASSUME NEW c \in Chain, NEW g \in Prefixes(c), NEW h \in Prefixes(c)
    PROVE  IsPrefix(g, h) \/ IsPrefix(h, g)
<1>1. ASSUME NEW a \in Prefixes(c), NEW b \in Prefixes(c), Len(a) <= Len(b)
      PROVE  IsPrefix(a, b)
  <2>1. /\ a \in Chain /\ Len(a) \in 0 .. Len(b) /\ Len(b) \in 0 .. Len(c)
        /\ a = SubSeq(c, 1, Len(a)) /\ b = SubSeq(c, 1, Len(b))
    BY <1>1, PrefixOf DEF Chain
  <2>2. SubSeq(b, 1, Len(a)) = SubSeq(c, 1, Len(a))
    <3>1. CASE Len(a) = 0
      BY <2>1, <3>1, SubSeqEmpty DEF Chain
    <3>2. CASE Len(a) \in 1 .. Len(b)
      <4> DEFINE n == Len(b)
                 i == Len(a)
      <4>1. n \in 1 .. Len(c) /\ i \in 1 .. n
        BY <2>1, <3>2
      <4>2. SubSeq(SubSeq(c, 1, n), 1, i) = SubSeq(c, 1, i)
        <5> HIDE DEF n, i
        <5>1. c \in Seq(Entry) /\ 1 \in 1 .. Len(c)
              /\ 1 \in 1 .. (n - 1 + 1) /\ i \in 1 .. (n - 1 + 1)
          BY <4>1 DEF Chain
        <5>2. SubSeq(SubSeq(c, 1, n), 1, i) = SubSeq(c, 1 + 1 - 1, 1 + i - 1)
          BY <4>1, <5>1, SubSeqOfSubSeq
        <5> QED BY <4>1, <5>2
      <4> QED BY <2>1, <4>2
    <3> QED BY <2>1, <3>1, <3>2
  <2>3. SubSeq(a, 1, Len(a)) = a
    BY <2>1, SubSeqFull DEF Chain
  <2> QED BY <1>1, <2>1, <2>2, <2>3 DEF IsPrefix
<1>2. Len(g) \in Nat /\ Len(h) \in Nat
  BY PrefixOf DEF Chain
<1> QED BY <1>1, <1>2

\* All a witness has verified and signed are beginnings of the head it cosigned last,
\* and so is what a poll in flight may make it sign an extension of that head
InLine(w) ==
    /\ seen[w] \subseteq Prefixes(last[w])
    /\ HeadsOf(w) \subseteq Prefixes(last[w])
    /\ \A s \in Polls : poll[w][s] # NoPoll =>
          /\ poll[w][s].last = last[w]
          /\ poll[w][s].stage = "receipt" => IsPrefix(last[w], poll[w][s].head)

LEMMA HeadsSigned ==
    ASSUME TypeOK, NEW w \in Witnesses, NEW v \in Witnesses, NEW h \in NonEmpty, Sign(w, h)
    PROVE  HeadsOf(v)' \subseteq HeadsOf(v) \cup (IF v = w THEN {h} ELSE {})
<1>1. CASE receipts' = receipts
  BY <1>1 DEF HeadsOf
<1>2. CASE receipts' = [receipts EXCEPT ![w] = Append(@, h)]
  <2>1. CASE v # w
    BY <1>2, <2>1 DEF HeadsOf, TypeOK
  <2>2. CASE v = w
    <3>1. receipts[w] \in Seq(NonEmpty) /\ receipts'[w] = Append(receipts[w], h)
      BY <1>2 DEF TypeOK
    <3>2. \A x \in ToSet(Append(receipts[w], h)) : x \in ToSet(receipts[w]) \/ x = h
      BY <3>1 DEF ToSet
    <3> QED BY <2>2, <3>1, <3>2 DEF HeadsOf
  <2> QED BY <2>1, <2>2
<1> QED BY <1>1, <1>2 DEF Sign

LEMMA InLineNext ==
    ASSUME \A s, t \in Polls : s = t, TypeOK, \A v \in Witnesses : InLine(v),
           [Next]_vars, NEW w \in Witnesses
    PROVE  InLine(w)'
<1> USE DEF venueVars, chainVars
<1>1. CASE UNCHANGED <<last, seen, receipts, poll>>
  BY <1>1 DEF InLine, HeadsOf
<1>2. ASSUME NEW v \in Witnesses, NEW s \in Polls,
             PollHead(v, s) \/ PollEntries(v, s) \/ PollSkip(v, s)
      PROVE  InLine(w)'
  <2>1. UNCHANGED <<last, seen, receipts>>
    BY <1>2 DEF PollHead, PollEntries, PollSkip
  <2>2. ASSUME NEW t \in Polls, poll'[w][t] # NoPoll
        PROVE  /\ poll'[w][t].last = last[w]
               /\ poll'[w][t].stage = "receipt" => IsPrefix(last[w], poll'[w][t].head)
    <3>1. CASE v # w \/ PollSkip(v, s)
      <4>1. poll'[w][t] = poll[w][t]
        BY <1>2, <2>2, <3>1 DEF PollHead, PollEntries, PollSkip, Goes, TypeOK
      <4> QED BY <2>2, <4>1 DEF InLine
    <3>2. CASE v = w /\ PollHead(v, s)
      BY <2>2, <3>2 DEF PollHead, Goes, TypeOK
    <3>3. CASE v = w /\ PollEntries(v, s)
      <4>1. s = t /\ poll[w][t] \in Poll /\ poll[w][t] # NoPoll
        BY <3>3 DEF PollEntries, TypeOK, NoPoll
      <4>2. /\ IsPrefix(poll[w][t].last, poll[w][t].head)
            /\ poll'[w][t] = [poll[w][t] EXCEPT !.stage = "receipt"]
        BY <2>2, <3>3, <4>1 DEF PollEntries, Goes, Extends, TypeOK
      <4>3. poll[w][t].last = last[w]
        BY <4>1 DEF InLine
      <4> QED BY <4>1, <4>2, <4>3 DEF Poll
    <3> QED BY <1>2, <3>1, <3>2, <3>3
  <2> QED BY <2>1, <2>2 DEF InLine, HeadsOf
<1>3. ASSUME NEW v \in Witnesses, NEW s \in Polls, PollCosign(v, s)
      PROVE  InLine(w)'
  <2> DEFINE p == poll[v][s]
  <2>1. p \in Poll /\ p # NoPoll /\ p.stage = "receipt"
    BY <1>3 DEF PollCosign, TypeOK, NoPoll
  <2>2. p.head \in NonEmpty /\ p.head \in Chain /\ last[v] \in Chain
    BY <2>1 DEF Poll, NonEmpty, TypeOK
  <2>3. CASE v # w
    <3>1. UNCHANGED <<last[w], seen[w], receipts[w], poll[w]>>
      BY <1>3, <2>3 DEF PollCosign, Goes, TypeOK
    <3> QED BY <3>1 DEF InLine, HeadsOf
  <2>4. CASE v = w
    <3>1. last[w] \in Prefixes(p.head) /\ Prefixes(last[w]) \subseteq Prefixes(p.head)
      BY <2>1, <2>2, <2>4, PrefixGrows DEF InLine
    <3>2. last'[w] = p.head /\ seen'[w] = Remembers(seen[w], p)
      BY <1>3, <2>4 DEF PollCosign, TypeOK
    <3>3. receipts'[w] = Append(receipts[w], p.head) /\ receipts[w] \in Seq(NonEmpty)
      BY <1>3, <2>4 DEF PollCosign, TypeOK
    <3>4. \A t \in Polls : poll'[w][t] = NoPoll
      BY <1>3, <2>4 DEF PollCosign, Goes, TypeOK
    <3>5. Remembers(seen[w], p) \subseteq Prefixes(p.head)
      <4>1. \A i \in NewPositions(p) : i \in 1 .. Len(p.head)
        BY <2>1, <2>2 DEF NewPositions, Poll, Chain
      <4>2. \A i \in NewPositions(p) : SubSeq(p.head, 1, i) \in Prefixes(p.head)
        BY <2>2, <4>1, WholeIsPrefix, PrefixOfPrefix
      <4>3. seen[w] \subseteq Prefixes(p.head)
        BY <3>1 DEF InLine
      <4> QED BY <4>2, <4>3, Zenon DEF Remembers
    <3>6. \A h \in ToSet(receipts'[w]) : h \in HeadsOf(w) \/ h = p.head
      BY <3>3 DEF HeadsOf, ToSet
    <3>7. HeadsOf(w)' \subseteq Prefixes(p.head)
      BY <2>2, <3>1, <3>6, WholeIsPrefix DEF InLine, HeadsOf
    <3> QED BY <3>2, <3>4, <3>5, <3>7 DEF InLine
  <2> QED BY <2>3, <2>4
<1>4. ASSUME NEW v \in Witnesses, NEW h \in NonEmpty, Sign(v, h),
             h \in seen[v] \cup HeadsOf(v), UNCHANGED <<last, seen, poll>>
      PROVE  InLine(w)'
  <2>1. HeadsOf(w)' \subseteq HeadsOf(w) \cup (IF w = v THEN {h} ELSE {})
    BY <1>4, HeadsSigned
  <2>2. h \in Prefixes(last[v])
    BY <1>4 DEF InLine
  <2> QED BY <1>4, <2>1, <2>2 DEF InLine
<1>5. ASSUME NEW v \in Witnesses, NEW p \in Witnesses, SignFor(v, p)
      PROVE  InLine(w)'
  <2>1. PICK h \in seen[v] : Sign(v, h)
    BY <1>5 DEF SignFor
  <2> QED BY <1>4, <1>5, <2>1 DEF SignFor, TypeOK
<1>6. ASSUME NEW v \in Witnesses, NEW p \in Witnesses, NEW head \in HeadsOf(v),
             Gossip(v, p, head)
      PROVE  InLine(w)'
  <2>1. PICK h \in Contradicts(p, head) : \E mine \in Shown(p, h) : Sign(p, mine)
    BY <1>6 DEF Gossip
  <2>2. PICK mine \in Shown(p, h) : Sign(p, mine)
    BY <2>1
  <2>3. mine \in seen[p] \cup HeadsOf(p) /\ mine \in NonEmpty
    <3>1. HeadsOf(p) \subseteq NonEmpty /\ seen[p] \subseteq NonEmpty
      BY DEF TypeOK, HeadsOf, ToSet
    <3> QED BY <3>1 DEF Shown, Contradicts
  <2> QED BY <1>4, <1>6, <2>2, <2>3 DEF Gossip
<1> QED
  BY <1>1, <1>2, <1>3, <1>5, <1>6 DEF Next, Venue, ReceiveProof, Lose, vars

\* A witness whose polls do not overlap signs one history, whatever the venue shows
\* it: of two heads it has signed for, one extends the other (poll, receiptFor)
THEOREM OneLine ==
    ASSUME \A s, t \in Polls : s = t
    PROVE  Spec => []OneHistory
<1>1. Init => \A w \in Witnesses : InLine(w)
  <2> SUFFICES ASSUME Init, NEW w \in Witnesses PROVE InLine(w)
    OBVIOUS
  <2>1. HeadsOf(w) = {}
    BY DEF Init, HeadsOf, ToSet
  <2> QED BY <2>1 DEF Init, InLine
<1>2. TypeOK /\ (\A w \in Witnesses : InLine(w)) /\ [Next]_vars
      => (\A w \in Witnesses : InLine(w))'
  BY InLineNext
<1>3. TypeOK /\ (\A w \in Witnesses : InLine(w)) => OneHistory
  BY PrefixesOrdered DEF TypeOK, InLine, OneHistory
<1> QED BY <1>1, <1>2, <1>3, TypeCorrect, PTL DEF Spec

----------------------------------------------------------------------------
(* The console: who claims a company, and whom the venue knows              *)

Names == Usdots \cup {None}
SignedMandates == [agent : Usdots, number : Nat \ {0}, told : BOOLEAN]
Statuses == {"NEW", "ENTITY_CLAIMED", "CONTROL_PROVEN", "MANDATE_SIGNED", "LIVE"}
OrgRows == [status : Statuses, entity : Names, key : BOOLEAN,
            mandate : {NoMandate} \cup SignedMandates, proof : Proofs \cup {0},
            agent : Names, home : Names]
ProofRows == [org : Orgs \cup {None}, about : Names,
              status : {"none", "PENDING", "VERIFIED", "FAILED"}]
ChallengeStates == {"none", "sent", "satisfied", "dead", "spent"}
Configs == [org : Orgs, entity : Names, number : Nat, proof : Proofs]
Runs == [directory : Usdots, config : Configs]

Waits ==
    {Idle}
    \cup [kind : {"claim", "challenge"}, org : Orgs, entity : Usdots]
    \cup [kind : {"verify"}, org : Orgs, proof : Proofs]
    \cup [kind : {"sign"}, org : Orgs, entity : Usdots, change : BOOLEAN]
    \cup [kind : {"provision"}, org : Orgs, entity : Names, mandate : SignedMandates]
    \cup [kind : {"onboard"}, org : Orgs, agent : Usdots, number : Nat \ {0}]

ClientTypes ==
    /\ org \in [Orgs -> OrgRows]
    /\ proofRow \in [Proofs -> ProofRows] /\ challenge \in [Proofs -> ChallengeStates]
    /\ directory = [u \in Usdots |-> [config |-> directory[u].config,
                                      credential |-> directory[u].credential]]
    /\ running \in [Usdots -> {NoProcess} \cup Runs]
    /\ handler \in [Handlers -> Waits]

\* A proof was asked for by an organisation, and its row stays the organisation's
Known(p, o) == challenge[p] # "none" /\ proofRow[p].org = o

\* A proof that is good is of who reads the mailbox of the company it is about
ProofsInv ==
    /\ \A p \in Proofs : challenge[p] = "none" => proofRow[p] = NoRow
    /\ \A p \in Proofs : challenge[p] \in {"satisfied", "spent"} =>
          proofRow[p].org = Owner[proofRow[p].about]
    /\ \E n \in Nat : \A p \in Proofs : challenge[p] # "none" => p <= n

\* An agent's configuration has a proof of the organisation it is of
ConfigFits(c) == c \in Configs /\ Known(c.proof, c.org)

HoldsInv ==
    /\ \A o \in Orgs : org[o].proof # 0 => Known(org[o].proof, o)
    /\ \A o \in Orgs : org[o].agent # None =>
          org[o].home \in Usdots /\ ConfigFits(directory[org[o].home].config)
    /\ \A u \in Usdots : running[u] # NoProcess => ConfigFits(running[u].config)
    /\ \A h \in Handlers : handler[h].kind = "verify" => Known(handler[h].proof, handler[h].org)

ClientInv == ClientTypes /\ ProofsInv /\ HoldsInv /\ ClientsOwn

LEMMA ClientsStart == OnboardingInit => ClientInv
  <1> SUFFICES ASSUME OnboardingInit PROVE ClientInv
    OBVIOUS
  <1>1. ClientTypes
    <2>1. org \in [Orgs -> OrgRows]
      <3>1. [status |-> "NEW", entity |-> None, key |-> FALSE, mandate |-> NoMandate,
             proof |-> 0, agent |-> None, home |-> None] \in OrgRows
        BY DEF OrgRows, Names, Statuses
      <3> QED  BY <3>1 DEF OnboardingInit
    <2>2. proofRow \in [Proofs -> ProofRows] /\ challenge \in [Proofs -> ChallengeStates]
      <3>1. NoRow \in ProofRows
        BY DEF ProofRows, Names, NoRow
      <3> QED  BY <3>1 DEF OnboardingInit, ChallengeStates
    <2>3. running \in [Usdots -> {NoProcess} \cup Runs] /\ handler \in [Handlers -> Waits]
      BY DEF OnboardingInit, Waits
    <2>4. directory = [u \in Usdots |-> [config |-> directory[u].config,
                                         credential |-> directory[u].credential]]
      BY DEF OnboardingInit
    <2> QED  BY <2>1, <2>2, <2>3, <2>4 DEF ClientTypes
  <1>2. ProofsInv
    BY DEF OnboardingInit, ProofsInv
  <1>3. HoldsInv
    BY DEF OnboardingInit, HoldsInv, Idle
  <1>4. ClientsOwn
    BY DEF OnboardingInit, ClientsOwn, OneClaimant, PrincipalsOwn
  <1> QED  BY <1>1, <1>2, <1>3, <1>4 DEF ClientInv

\* A request that waits is of the kind it says
LEMMA WaitsFor ==
    ASSUME NEW q \in Waits
    PROVE  /\ q.kind \in {"claim", "challenge"} => q.org \in Orgs /\ q.entity \in Usdots
           /\ q.kind = "verify" => q.org \in Orgs /\ q.proof \in Proofs
           /\ q.kind = "sign" => q.org \in Orgs /\ q.entity \in Usdots
           /\ q.kind = "provision" => /\ q.org \in Orgs /\ q.entity \in Names
                                      /\ q.mandate \in SignedMandates
           /\ q.kind = "onboard" => q.org \in Orgs /\ q.agent \in Usdots /\ q.number \in Nat \ {0}
           /\ q.kind \in {"idle", "claim", "challenge", "verify", "sign", "provision", "onboard"}
  <1>1. CASE q = Idle
    BY <1>1 DEF Idle
  <1>2. CASE q \in [kind : {"claim", "challenge"}, org : Orgs, entity : Usdots]
    BY <1>2
  <1>3. CASE q \in [kind : {"verify"}, org : Orgs, proof : Proofs]
    BY <1>3
  <1>4. CASE q \in [kind : {"sign"}, org : Orgs, entity : Usdots, change : BOOLEAN]
    BY <1>4
  <1>5. CASE q \in [kind : {"provision"}, org : Orgs, entity : Names, mandate : SignedMandates]
    BY <1>5
  <1>6. CASE q \in [kind : {"onboard"}, org : Orgs, agent : Usdots, number : Nat \ {0}]
    BY <1>6
  <1> QED  BY <1>1, <1>2, <1>3, <1>4, <1>5, <1>6 DEF Waits

\* What is known of proofs stays known of a configuration
LEMMA ConfigStays ==
    ASSUME NEW c, ConfigFits(c), \A p \in Proofs, o \in Orgs : Known(p, o) => Known(p, o)'
    PROVE  ConfigFits(c)'
  <1>1. c \in Configs /\ c.proof \in Proofs /\ c.org \in Orgs
    BY DEF ConfigFits, Configs
  <1>2. \A p \in Proofs, o \in Orgs :
           challenge[p] # "none" /\ proofRow[p].org = o => challenge'[p] # "none" /\ proofRow'[p].org = o
    BY DEF Known
  <1>3. challenge[c.proof] # "none" /\ proofRow[c.proof].org = c.org
    BY DEF ConfigFits, Known
  <1>4. challenge'[c.proof] # "none" /\ proofRow'[c.proof].org = c.org
    BY <1>1, <1>2, <1>3
  <1> QED  BY <1>1, <1>4 DEF ConfigFits, Known

\* A step that only moves rows of organisations and requests, and ends processes
LEMMA RowsMove ==
    ASSUME ClientInv, org' \in [Orgs -> OrgRows], OneClaimant',
           \A o \in Orgs : /\ org'[o].proof = org[o].proof
                           /\ org'[o].agent = org[o].agent /\ org'[o].home = org[o].home,
           handler' \in [Handlers -> Waits],
           \A h \in Handlers : handler'[h].kind = "verify" => Known(handler'[h].proof, handler'[h].org),
           running' \in [Usdots -> {NoProcess} \cup Runs],
           \A u \in Usdots : running'[u] = NoProcess \/ running'[u] = running[u],
           UNCHANGED <<proofRow, challenge, directory, credentials>>
    PROVE  ClientInv'
  <1>1. ClientTypes' /\ ProofsInv'
    BY DEF ClientInv, ClientTypes, ProofsInv
  <1>2. ClientsOwn'
    BY SMTT(60) DEF ClientInv, ClientsOwn, PrincipalsOwn
  <1>3. HoldsInv'
    <2>1. \A o \in Orgs : org'[o].proof # 0 => Known(org[o].proof, o)
      BY DEF ClientInv, HoldsInv
    <2>2. \A o \in Orgs : org'[o].agent # None =>
             org[o].home \in Usdots /\ ConfigFits(directory[org[o].home].config)
      BY DEF ClientInv, HoldsInv
    <2>3. \A u \in Usdots : running'[u] # NoProcess => ConfigFits(running'[u].config)
      BY DEF ClientInv, HoldsInv
    <2> QED  BY <2>1, <2>2, <2>3 DEF HoldsInv, ConfigFits, Known
  <1> QED  BY <1>1, <1>2, <1>3 DEF ClientInv

\* A request that comes in or is answered
LEMMA RequestMoves ==
    ASSUME ClientInv, NEW h \in Handlers, NEW q \in Waits,
           q.kind = "verify" => Known(q.proof, q.org), handler' = [handler EXCEPT ![h] = q],
           UNCHANGED <<org, proofRow, challenge, directory, running, credentials>>
    PROVE  ClientInv'
  <1>1. handler' \in [Handlers -> Waits] /\ \A g \in Handlers : handler'[g] = IF g = h THEN q ELSE handler[g]
    BY DEF ClientInv, ClientTypes
  <1>2. \A g \in Handlers : handler'[g].kind = "verify" => Known(handler'[g].proof, handler'[g].org)
    BY <1>1 DEF ClientInv, HoldsInv
  <1>3. OneClaimant' /\ org' \in [Orgs -> OrgRows] /\ running' \in [Usdots -> {NoProcess} \cup Runs]
    BY DEF ClientInv, ClientTypes, ClientsOwn, OneClaimant
  <1> QED  BY <1>1, <1>2, <1>3, RowsMove

\* Idle requests, after an answer
LEMMA Freed ==
    ASSUME ClientInv, NEW h \in Handlers, Answers(h)
    PROVE  /\ handler' = [handler EXCEPT ![h] = Idle] /\ handler' \in [Handlers -> Waits]
           /\ \A g \in Handlers : handler'[g].kind = "verify" =>
                 /\ handler'[g] = handler[g]
                 /\ Known(handler[g].proof, handler[g].org)
  <1>1. handler' = [handler EXCEPT ![h] = Idle] /\ Idle \in Waits /\ Idle.kind = "idle"
    BY DEF Answers, Waits, Idle
  <1>2. handler' \in [Handlers -> Waits]
    BY <1>1 DEF ClientInv, ClientTypes
  <1>3. \A g \in Handlers : g # h => handler'[g] = handler[g]
    BY <1>1 DEF ClientInv, ClientTypes
  <1>4. handler'[h].kind = "idle"
    BY <1>1 DEF ClientInv, ClientTypes
  <1> QED  BY <1>1, <1>2, <1>3, <1>4 DEF ClientInv, HoldsInv

LEMMA GreatestOf ==
    ASSUME NEW n \in Nat, NEW S \in SUBSET (0 .. n), S # {}
    PROVE  \E x \in S : \A y \in S : y <= x
  <1> DEFINE T == {n - x : x \in S}
  <1>1. T \in SUBSET Nat /\ T # {}
    <2>1. PICK x : x \in S
      OBVIOUS
    <2>2. n - x \in T
      BY <2>1
    <2>3. \A y \in S : y \in Nat /\ n - y \in Nat
      OBVIOUS
    <2> QED  BY <2>2, <2>3
  <1>2. PICK t \in T : \A u \in T : t <= u
    <2> HIDE DEF T
    <2>1. PICK t \in T : \A u \in T : ~(<<u, t>> \in OpToRel(<, Nat))
      BY <1>1, NatLessThanWellFounded, WFMin, Zenon
    <2>2. ASSUME NEW u \in T PROVE t <= u
      <3>1. t \in Nat /\ u \in Nat /\ ~(u < t)
        BY <1>1, <2>1 DEF OpToRel
      <3> QED  BY <3>1
    <2> QED  BY <2>2
  <1>3. PICK x \in S : t = n - x
    OBVIOUS
  <1>4. ASSUME NEW y \in S PROVE y <= x
    <2>1. n - y \in T
      OBVIOUS
    <2>2. t <= n - y
      BY <1>2, <2>1
    <2>3. x \in Nat /\ y \in Nat
      OBVIOUS
    <2>4. n - x <= n - y
      BY <1>3, <2>2
    <2> HIDE DEF T
    <2> QED  BY <2>3, <2>4
  <1> QED  BY <1>4

LEMMA RequestsCome ==
    ASSUME ClientInv, NEW h \in Handlers, NEW o \in Orgs,
           \/ \E u \in Usdots : Claim(h, o, u)
           \/ StartChallenge(h, o)
           \/ \E change \in BOOLEAN : SignMandate(h, o, change)
           \/ Provision(h, o)
    PROVE  ClientInv'
  <1>1. org[o] \in OrgRows
    BY DEF ClientInv, ClientTypes
  <1>2. ASSUME NEW u \in Usdots, Claim(h, o, u) PROVE ClientInv'
    <2>1. PICK q : q = [kind |-> "claim", org |-> o, entity |-> u]
      OBVIOUS
    <2>2. q \in Waits /\ q.kind = "claim"
      BY <2>1 DEF Waits
    <2> QED  BY <1>2, <2>1, <2>2, RequestMoves DEF Claim, Asks
  <1>3. CASE StartChallenge(h, o)
    <2>1. PICK q : q = [kind |-> "challenge", org |-> o, entity |-> org[o].entity]
      OBVIOUS
    <2>2. org[o].entity \in Usdots
      BY <1>1, <1>3 DEF StartChallenge, OrgRows, Names
    <2>3. q \in Waits /\ q.kind = "challenge"
      BY <2>1, <2>2 DEF Waits
    <2> QED  BY <1>3, <2>1, <2>3, RequestMoves DEF StartChallenge, Asks
  <1>4. ASSUME NEW change \in BOOLEAN, SignMandate(h, o, change) PROVE ClientInv'
    <2>1. PICK q : q = [kind |-> "sign", org |-> o, entity |-> org[o].entity, change |-> change]
      OBVIOUS
    <2>2. org[o].entity \in Usdots
      BY <1>1, <1>4 DEF SignMandate, OrgRows, Names
    <2>3. q \in [kind : {"sign"}, org : Orgs, entity : Usdots, change : BOOLEAN] /\ q.kind = "sign"
      BY <2>1, <2>2
    <2>4. q \in Waits
      BY <2>3 DEF Waits
    <2> QED  BY <1>4, <2>1, <2>3, <2>4, RequestMoves DEF SignMandate, Asks
  <1>5. CASE Provision(h, o)
    <2>1. PICK q : q = Provisions(o, org[o])
      OBVIOUS
    <2>2. q = [kind |-> "provision", org |-> o, entity |-> org[o].entity, mandate |-> org[o].mandate]
      BY <2>1 DEF Provisions
    <2>3. org[o].entity \in Names /\ org[o].mandate \in SignedMandates
      BY <1>1, <1>5 DEF Provision, OrgRows
    <2>4. q \in [kind : {"provision"}, org : Orgs, entity : Names, mandate : SignedMandates]
          /\ q.kind = "provision"
      BY <2>2, <2>3
    <2>5. q \in Waits
      BY <2>4 DEF Waits
    <2> QED  BY <1>5, <2>1, <2>4, <2>5, RequestMoves DEF Provision, Asks
  <1> QED  BY <1>2, <1>3, <1>4, <1>5

\* Of some proofs asked for there is the last
LEMMA LastOf ==
    ASSUME ProofsInv, NEW S \in SUBSET Proofs, S # {}, \A p \in S : challenge[p] # "none"
    PROVE  \E p \in S : \A q \in S : q <= p
  <1>1. PICK n \in Nat : \A p \in Proofs : challenge[p] # "none" => p <= n
    BY DEF ProofsInv
  <1>2. S \in SUBSET (0 .. n)
    BY <1>1, OnboardingAssumption
  <1> QED  BY <1>2, GreatestOf

LEMMA FirstOf ==
    ASSUME NEW S \in SUBSET Proofs, S # {}
    PROVE  \E p \in S : \A q \in S : p <= q
  <1>1. S \in SUBSET Nat
    BY OnboardingAssumption
  <1>2. PICK p \in S : \A q \in S : ~(<<q, p>> \in OpToRel(<, Nat))
    BY <1>1, NatLessThanWellFounded, WFMin, Zenon
  <1>3. ASSUME NEW q \in S PROVE p <= q
    <2>1. q \in Nat /\ p \in Nat /\ ~(q < p)
      BY <1>1, <1>2 DEF OpToRel
    <2> QED  BY <2>1
  <1> QED  BY <1>3

LEMMA VerificationCome ==
    ASSUME ClientInv, NEW h \in Handlers, NEW o \in Orgs, VerifyChallenge(h, o)
    PROVE  ClientInv'
  <1>1. PICK p : p = CHOOSE r \in Pending(o) : \A s \in Pending(o) : s <= r
    OBVIOUS
  <1>2. PICK q : q = [kind |-> "verify", org |-> o, proof |-> p]
    OBVIOUS
  <1>3. handler' = [handler EXCEPT ![h] = q]
    BY <1>1, <1>2, Zenon DEF VerifyChallenge, Asks
  <1>4. Pending(o) \in SUBSET Proofs /\ Pending(o) # {}
    BY DEF Pending, VerifyChallenge
  <1>5. \A r \in Pending(o) : challenge[r] # "none" /\ proofRow[r].org = o
    BY DEF ClientInv, ProofsInv, Pending, NoRow
  <1>6. \E r \in Pending(o) : \A s \in Pending(o) : s <= r
    BY <1>4, <1>5, LastOf DEF ClientInv
  <1>7. p \in Pending(o)
    BY <1>1, <1>6
  <1>8. q \in [kind : {"verify"}, org : Orgs, proof : Proofs]
    BY <1>2, <1>4, <1>7
  <1>9. q \in Waits /\ Known(q.proof, q.org)
    BY <1>2, <1>5, <1>7, <1>8 DEF Waits, Known
  <1> QED  BY <1>3, <1>9, RequestMoves DEF VerifyChallenge

LEMMA Failing ==
    ASSUME ClientInv, NEW h \in Handlers, Fails(h)
    PROVE  ClientInv'
  <1>1. Idle \in Waits /\ Idle.kind = "idle"
    BY DEF Waits, Idle
  <1> QED  BY <1>1, RequestMoves DEF Fails, Answers

LEMMA ClaimAnswered ==
    ASSUME ClientInv, NEW h \in Handlers, Claimed(h)
    PROVE  ClientInv'
  <1>1. PICK o : o = handler[h].org
    OBVIOUS
  <1>2. PICK u : u = handler[h].entity
    OBVIOUS
  <1>3. o \in Orgs /\ u \in Usdots
    BY <1>1, <1>2, WaitsFor DEF Claimed, ClientInv, ClientTypes
  <1>4. Answers(h) /\ UNCHANGED <<proofRow, challenge, directory, running, registered, credentials>>
    BY DEF Claimed
  <1>5. CASE Unique(o, u)
    <2>1. PICK row : row = Moves([org[o] EXCEPT !.entity = u], {"NEW"}, "ENTITY_CLAIMED")
      OBVIOUS
    <2>2. org' = [org EXCEPT ![o] = row]
      BY <1>1, <1>2, <1>5, <2>1 DEF Claimed
    <2>3. org[o] \in OrgRows
      BY <1>3 DEF ClientInv, ClientTypes
    <2>4. /\ row \in OrgRows /\ row.entity = u
          /\ row.proof = org[o].proof /\ row.agent = org[o].agent /\ row.home = org[o].home
      BY <1>3, <2>1, <2>3, ZenonT(60) DEF Moves, OrgRows, Names, Statuses
    <2>5. \A r \in Orgs : org'[r] = IF r = o THEN row ELSE org[r]
      BY <2>2 DEF ClientInv, ClientTypes
    <2>6. org' \in [Orgs -> OrgRows]
      BY <1>3, <2>2, <2>4 DEF ClientInv, ClientTypes
    <2>7. OneClaimant'
      BY <1>5, <2>4, <2>5 DEF ClientInv, ClientsOwn, OneClaimant, Unique, Taken
    <2>8. \A r \in Orgs : /\ org'[r].proof = org[r].proof
                          /\ org'[r].agent = org[r].agent /\ org'[r].home = org[r].home
      BY <2>4, <2>5
    <2> QED  BY <1>4, <2>6, <2>7, <2>8, Freed, RowsMove DEF ClientInv, ClientTypes
  <1>6. CASE ~Unique(o, u)
    <2>1. UNCHANGED org
      BY <1>1, <1>2, <1>6 DEF Claimed
    <2>2. Idle \in Waits /\ Idle.kind = "idle"
      BY DEF Waits, Idle
    <2> QED  BY <1>4, <2>1, <2>2, RequestMoves DEF Answers
  <1> QED  BY <1>5, <1>6

LEMMA KeyCreated ==
    ASSUME ClientInv, NEW o \in Orgs, CreateKey(o)
    PROVE  ClientInv'
  <1>1. PICK row : row = [org[o] EXCEPT !.key = TRUE]
    OBVIOUS
  <1>2. org' = [org EXCEPT ![o] = row]
    BY <1>1 DEF CreateKey
  <1>3. org[o] \in OrgRows
    BY DEF ClientInv, ClientTypes
  <1>4. /\ row \in OrgRows /\ row.entity = org[o].entity
        /\ row.proof = org[o].proof /\ row.agent = org[o].agent /\ row.home = org[o].home
    BY <1>1, <1>3 DEF OrgRows
  <1>5. \A r \in Orgs : org'[r] = IF r = o THEN row ELSE org[r]
    BY <1>2 DEF ClientInv, ClientTypes
  <1>6. org' \in [Orgs -> OrgRows]
    BY <1>2, <1>4 DEF ClientInv, ClientTypes
  <1>7. OneClaimant'
    BY <1>4, <1>5 DEF ClientInv, ClientsOwn, OneClaimant
  <1>8. \A r \in Orgs : /\ org'[r].proof = org[r].proof
                        /\ org'[r].agent = org[r].agent /\ org'[r].home = org[r].home
    BY <1>4, <1>5
  <1> QED  BY <1>6, <1>7, <1>8, RowsMove DEF CreateKey, ClientInv, ClientTypes, HoldsInv, Known

LEMMA MandateSigned ==
    ASSUME ClientInv, NEW h \in Handlers, Signed(h)
    PROVE  ClientInv'
  <1>1. PICK o : o = handler[h].org
    OBVIOUS
  <1>2. PICK mandate : mandate = [agent |-> handler[h].entity, number |-> org[o].mandate.number + 1, told |-> FALSE]
    OBVIOUS
  <1>3. PICK row : row = Moves([org[o] EXCEPT !.mandate = mandate], {"CONTROL_PROVEN"}, "MANDATE_SIGNED")
    OBVIOUS
  <1>4. o \in Orgs /\ handler[h].entity \in Usdots
    BY <1>1, WaitsFor DEF Signed, ClientInv, ClientTypes
  <1>5. org[o] \in OrgRows
    BY <1>4 DEF ClientInv, ClientTypes
  <1>6. mandate \in SignedMandates
    <2>1. org[o].mandate.number \in Nat
      BY <1>5 DEF OrgRows, SignedMandates, NoMandate
    <2> QED  BY <1>2, <1>4, <2>1 DEF SignedMandates
  <1>7. /\ row \in OrgRows /\ row.entity = org[o].entity /\ row.mandate = mandate
        /\ row.proof = org[o].proof /\ row.agent = org[o].agent /\ row.home = org[o].home
    BY <1>3, <1>5, <1>6 DEF Moves, OrgRows, Statuses
  <1>8. /\ org' = [org EXCEPT ![o] = row]
        /\ UNCHANGED <<proofRow, challenge, directory, registered, credentials>>
        /\ \/ /\ running' = [running EXCEPT ![row.agent] = NoProcess]
              /\ handler' = [handler EXCEPT ![h] = Provisions(o, row)]
           \/ Answers(h) /\ UNCHANGED running
    BY <1>1, <1>2, <1>3, Zenon DEF Signed
  <1>9. \A r \in Orgs : org'[r] = IF r = o THEN row ELSE org[r]
    BY <1>8 DEF ClientInv, ClientTypes
  <1>10. org' \in [Orgs -> OrgRows]
    BY <1>7, <1>8 DEF ClientInv, ClientTypes
  <1>11. OneClaimant'
    BY <1>7, <1>9 DEF ClientInv, ClientsOwn, OneClaimant
  <1>12. \A r \in Orgs : /\ org'[r].proof = org[r].proof
                         /\ org'[r].agent = org[r].agent /\ org'[r].home = org[r].home
    BY <1>7, <1>9
  <1>13. CASE /\ running' = [running EXCEPT ![row.agent] = NoProcess]
              /\ handler' = [handler EXCEPT ![h] = Provisions(o, row)]
    <2>1. PICK q : q = Provisions(o, row)
      OBVIOUS
    <2>2. q = [kind |-> "provision", org |-> o, entity |-> row.entity, mandate |-> row.mandate]
      BY <2>1 DEF Provisions
    <2>3. row.entity \in Names
      BY <1>7 DEF OrgRows
    <2>4. q \in [kind : {"provision"}, org : Orgs, entity : Names, mandate : SignedMandates]
      BY <1>4, <1>6, <1>7, <2>2, <2>3
    <2>5. q \in Waits /\ q.kind = "provision"
      BY <2>2, <2>4 DEF Waits
    <2>6. /\ handler' \in [Handlers -> Waits]
          /\ \A g \in Handlers : handler'[g] = IF g = h THEN q ELSE handler[g]
      BY <1>13, <2>1, <2>5 DEF ClientInv, ClientTypes
    <2>7. \A g \in Handlers : handler'[g].kind = "verify" => Known(handler'[g].proof, handler'[g].org)
      BY <2>5, <2>6 DEF ClientInv, HoldsInv
    <2>8. /\ running' \in [Usdots -> {NoProcess} \cup Runs]
          /\ \A u \in Usdots : running'[u] = NoProcess \/ running'[u] = running[u]
      BY <1>13 DEF ClientInv, ClientTypes
    <2> QED  BY <1>8, <1>10, <1>11, <1>12, <2>6, <2>7, <2>8, RowsMove
  <1>14. CASE Answers(h) /\ UNCHANGED running
    BY <1>8, <1>10, <1>11, <1>12, <1>14, Freed, RowsMove DEF ClientInv, ClientTypes
  <1> QED  BY <1>8, <1>13, <1>14

LEMMA ProcessExits ==
    ASSUME ClientInv, NEW u \in Usdots, Exits(u)
    PROVE  ClientInv'
  <1>1. /\ running' \in [Usdots -> {NoProcess} \cup Runs]
        /\ \A v \in Usdots : running'[v] = NoProcess \/ running'[v] = running[v]
    BY DEF Exits, ClientInv, ClientTypes
  <1>2. OneClaimant'
    BY DEF Exits, ClientInv, ClientsOwn, OneClaimant
  <1> QED  BY <1>1, <1>2, RowsMove DEF Exits, ClientInv, ClientTypes, HoldsInv

\* A step that moves proofs
LEMMA ProofsMove ==
    ASSUME ClientInv, ProofsInv', \A p \in Proofs, o \in Orgs : Known(p, o) => Known(p, o)',
           proofRow' \in [Proofs -> ProofRows], challenge' \in [Proofs -> ChallengeStates],
           org' \in [Orgs -> OrgRows],
           \A o \in Orgs : /\ org'[o].entity = org[o].entity
                           /\ org'[o].agent = org[o].agent /\ org'[o].home = org[o].home
                           /\ \/ org'[o].proof = org[o].proof
                              \/ Known(org[o].proof, o)',
           handler' \in [Handlers -> Waits],
           \A h \in Handlers : handler'[h].kind = "verify" =>
                handler'[h] = handler[h] /\ Known(handler[h].proof, handler[h].org),
           UNCHANGED <<directory, running, credentials>>
    PROVE  ClientInv'
  <1>1. ClientTypes'
    BY DEF ClientInv, ClientTypes
  <1>2. ClientsOwn'
    BY DEF ClientInv, ClientsOwn, OneClaimant, PrincipalsOwn
  <1>3. ASSUME NEW o \in Orgs, org'[o].proof # 0 PROVE Known(org[o].proof, o)'
    <2>1. org[o].proof \in Proofs \cup {0} /\ (org[o].proof # 0 => Known(org[o].proof, o))
      BY DEF ClientInv, ClientTypes, HoldsInv, OrgRows
    <2>2. CASE org'[o].proof = org[o].proof
      <3>1. PICK p : p = org[o].proof
        OBVIOUS
      <3>2. p \in Proofs /\ Known(p, o)
        BY <1>3, <2>1, <2>2, <3>1
      <3>3. Known(p, o)'
        BY <3>2
      <3> QED  BY <2>2, <3>1, <3>3 DEF Known
    <2>3. CASE org'[o].proof # org[o].proof
      BY <2>3, SMTT(60) DEF Known
    <2> QED  BY <2>2, <2>3
  <1>4. ASSUME NEW o \in Orgs, org'[o].agent # None
        PROVE  (org[o].home \in Usdots /\ ConfigFits(directory[org[o].home].config))'
    <2>1. PICK c : c = directory[org[o].home].config
      OBVIOUS
    <2>2. org[o].home \in Usdots /\ ConfigFits(c)
      BY <1>4, <2>1 DEF ClientInv, HoldsInv
    <2>3. ConfigFits(c)'
      BY <2>2, ConfigStays
    <2>4. org'[o].home = org[o].home /\ c = directory'[org'[o].home].config
      BY <2>1
    <2> QED  BY <2>2, <2>3, <2>4 DEF ConfigFits, Known
  <1>5. ASSUME NEW u \in Usdots, running'[u] # NoProcess PROVE ConfigFits(running[u].config)'
    <2>1. PICK c : c = running[u].config
      OBVIOUS
    <2>2. ConfigFits(c)
      BY <1>5, <2>1 DEF ClientInv, HoldsInv
    <2>3. ConfigFits(c)' /\ c = running'[u].config
      BY <2>1, <2>2, ConfigStays
    <2> QED  BY <2>3 DEF ConfigFits, Known
  <1>6. ASSUME NEW h \in Handlers, handler'[h].kind = "verify"
        PROVE  Known(handler[h].proof, handler[h].org)'
    <2>1. PICK q : q = handler[h]
      OBVIOUS
    <2>2. q \in Waits /\ q.kind = "verify" /\ q = handler'[h] /\ Known(q.proof, q.org)
      BY <1>6, <2>1 DEF ClientInv, ClientTypes
    <2>3. Known(q.proof, q.org)'
      BY <2>2, WaitsFor
    <2> QED  BY <2>2, <2>3 DEF Known
  <1>7. HoldsInv'
    BY <1>3, <1>4, <1>5, <1>6 DEF HoldsInv
  <1> QED  BY <1>1, <1>2, <1>7 DEF ClientInv

\* A new proof is one that nobody knows
LEMMA NewProof ==
    ASSUME ClientInv, Unused # {}
    PROVE  Next1 \in Proofs /\ challenge[Next1] = "none" /\ \A o \in Orgs : ~Known(Next1, o)
  <1>1. Unused \in SUBSET Proofs
    BY DEF Unused
  <1>2. \E p \in Unused : \A q \in Unused : p <= q
    BY <1>1, FirstOf
  <1>3. Next1 \in Unused
    BY <1>2 DEF Next1
  <1> QED  BY <1>3 DEF Unused, Known

\* The row of a proof and its state move, of a proof that is new or stays whose it is
LEMMA ProofMoves ==
    ASSUME ClientInv, NEW p \in Proofs, NEW row \in ProofRows, NEW s \in ChallengeStates,
           proofRow' = [proofRow EXCEPT ![p] = row], challenge' = [challenge EXCEPT ![p] = s],
           s # "none", s \in {"satisfied", "spent"} => row.org = Owner[row.about],
           \A o \in Orgs : Known(p, o) => row.org = o
    PROVE  /\ ProofsInv' /\ \A q \in Proofs, o \in Orgs : Known(q, o) => Known(q, o)'
           /\ proofRow' \in [Proofs -> ProofRows] /\ challenge' \in [Proofs -> ChallengeStates]
           /\ \A o \in Orgs : row.org = o => Known(p, o)'
  <1>1. /\ \A q \in Proofs : proofRow'[q] = IF q = p THEN row ELSE proofRow[q]
        /\ \A q \in Proofs : challenge'[q] = IF q = p THEN s ELSE challenge[q]
        /\ proofRow' \in [Proofs -> ProofRows] /\ challenge' \in [Proofs -> ChallengeStates]
    BY DEF ClientInv, ClientTypes
  <1>2. \A q \in Proofs, o \in Orgs : Known(q, o) => Known(q, o)'
    BY <1>1 DEF Known
  <1>3. \A q \in Proofs : challenge'[q] = "none" => proofRow'[q] = NoRow
    BY <1>1 DEF ClientInv, ProofsInv
  <1>4. \A q \in Proofs : challenge'[q] \in {"satisfied", "spent"} =>
           proofRow'[q].org = Owner[proofRow'[q].about]
    BY <1>1 DEF ClientInv, ProofsInv
  <1>5. \E n \in Nat : \A q \in Proofs : challenge'[q] # "none" => q <= n
    <2>1. PICK n \in Nat : \A q \in Proofs : challenge[q] # "none" => q <= n
      BY DEF ClientInv, ProofsInv
    <2>2. p \in Nat /\ \A q \in Proofs : q \in Nat
      BY OnboardingAssumption
    <2>3. PICK k \in Nat : n <= k /\ p <= k
      BY <2>2
    <2>4. \A q \in Proofs : challenge'[q] # "none" => q <= k
      BY <1>1, <2>1, <2>2, <2>3
    <2> QED  BY <2>4
  <1>6. ProofsInv'
    BY <1>3, <1>4, <1>5 DEF ProofsInv
  <1> QED  BY <1>1, <1>2, <1>6 DEF Known

LEMMA ChallengeSent ==
    ASSUME ClientInv, NEW h \in Handlers, Challenged(h)
    PROVE  ClientInv'
  <1>1. PICK p : p = Next1
    OBVIOUS
  <1>2. PICK row : row = [org |-> handler[h].org, about |-> handler[h].entity, status |-> "PENDING"]
    OBVIOUS
  <1>3. /\ proofRow' = [proofRow EXCEPT ![p] = row] /\ challenge' = [challenge EXCEPT ![p] = "sent"]
        /\ Answers(h) /\ UNCHANGED <<org, directory, running, registered, credentials>>
    BY <1>1, <1>2 DEF Challenged
  <1>4. handler[h].org \in Orgs /\ handler[h].entity \in Usdots
    BY WaitsFor DEF Challenged, ClientInv, ClientTypes
  <1>5. row \in ProofRows /\ "sent" \in ChallengeStates
    BY <1>2, <1>4 DEF ProofRows, Names, ChallengeStates
  <1>6. p \in Proofs /\ \A o \in Orgs : ~Known(p, o)
    BY <1>1, NewProof DEF Challenged
  <1>7. /\ ProofsInv' /\ \A q \in Proofs, o \in Orgs : Known(q, o) => Known(q, o)'
        /\ proofRow' \in [Proofs -> ProofRows] /\ challenge' \in [Proofs -> ChallengeStates]
    BY <1>3, <1>5, <1>6, ProofMoves
  <1>8. org' \in [Orgs -> OrgRows]
    BY <1>3 DEF ClientInv, ClientTypes
  <1> QED  BY <1>3, <1>7, <1>8, Freed, ProofsMove

\* A proof is verified, for the organisation whose it is
LEMMA ProofVerified ==
    ASSUME ClientInv, NEW p \in Proofs, NEW o \in Orgs, NEW about \in Names, NEW from,
           Verified(o, p, about, from),
           challenge' = [challenge EXCEPT ![p] = "satisfied"], Owner[about] = o,
           \A r \in Orgs : Known(p, r) => r = o,
           handler' \in [Handlers -> Waits],
           \A h \in Handlers : handler'[h].kind = "verify" =>
                handler'[h] = handler[h] /\ Known(handler[h].proof, handler[h].org),
           UNCHANGED <<directory, running, credentials>>
    PROVE  ClientInv'
  <1>1. PICK row : row = [org |-> o, about |-> about, status |-> "VERIFIED"]
    OBVIOUS
  <1>2. PICK r : r = Moves([org[o] EXCEPT !.proof = p], from, "CONTROL_PROVEN")
    OBVIOUS
  <1>3. proofRow' = [proofRow EXCEPT ![p] = row] /\ org' = [org EXCEPT ![o] = r]
    BY <1>1, <1>2 DEF Verified
  <1>4. row \in ProofRows /\ row.org = o /\ row.about = about /\ "satisfied" \in ChallengeStates
    BY <1>1 DEF ProofRows, ChallengeStates
  <1>5. /\ ProofsInv' /\ \A q \in Proofs, s \in Orgs : Known(q, s) => Known(q, s)'
        /\ proofRow' \in [Proofs -> ProofRows] /\ challenge' \in [Proofs -> ChallengeStates]
        /\ Known(p, o)'
    BY <1>3, <1>4, ProofMoves
  <1>6. org[o] \in OrgRows
    BY DEF ClientInv, ClientTypes
  <1>7. /\ r \in OrgRows /\ r.entity = org[o].entity /\ r.proof = p
        /\ r.agent = org[o].agent /\ r.home = org[o].home
    BY <1>2, <1>6 DEF Moves, OrgRows, Statuses
  <1>8. org' \in [Orgs -> OrgRows] /\ \A s \in Orgs : org'[s] = IF s = o THEN r ELSE org[s]
    BY <1>3, <1>7 DEF ClientInv, ClientTypes
  <1>9. org'[o].proof = p /\ Known(org[o].proof, o)'
    BY <1>5, <1>7, <1>8 DEF Known
  <1>10. \A s \in Orgs : /\ org'[s].entity = org[s].entity
                         /\ org'[s].agent = org[s].agent /\ org'[s].home = org[s].home
                         /\ org'[s].proof = org[s].proof \/ Known(org[s].proof, s)'
    BY <1>7, <1>8, <1>9
  <1> QED  BY <1>5, <1>8, <1>10, ProofsMove

LEMMA OperatorVouches ==
    ASSUME ClientInv, NEW o \in Orgs, OperatorAttest(o)
    PROVE  ClientInv'
  <1>1. PICK p : p = Next1
    OBVIOUS
  <1>2. PICK u : u = org[o].entity
    OBVIOUS
  <1>3. p \in Proofs /\ \A r \in Orgs : ~Known(p, r)
    BY <1>1, NewProof DEF OperatorAttest
  <1>4. u \in Names
    BY <1>2 DEF ClientInv, ClientTypes, OrgRows
  <1>5. /\ Verified(o, p, u, {"ENTITY_CLAIMED", "NEW"}) /\ Owner[u] = o
        /\ challenge' = [challenge EXCEPT ![p] = "satisfied"]
        /\ UNCHANGED <<directory, running, handler, registered, credentials>>
    BY <1>1, <1>2 DEF OperatorAttest
  <1>6. /\ handler' \in [Handlers -> Waits]
        /\ \A h \in Handlers : handler'[h].kind = "verify" =>
              handler'[h] = handler[h] /\ Known(handler[h].proof, handler[h].org)
    BY <1>5 DEF ClientInv, ClientTypes, HoldsInv
  <1> QED  BY <1>3, <1>4, <1>5, <1>6, ProofVerified

LEMMA ProofAnswered ==
    ASSUME ClientInv, NEW h \in Handlers, Verify(h)
    PROVE  ClientInv'
  <1>1. PICK p : p = handler[h].proof
    OBVIOUS
  <1>2. PICK o : o = handler[h].org
    OBVIOUS
  <1>3. PICK u : u = proofRow[p].about
    OBVIOUS
  <1>4. p \in Proofs /\ o \in Orgs /\ Known(p, o)
    BY <1>1, <1>2, WaitsFor DEF Verify, ClientInv, ClientTypes, HoldsInv
  <1>5. proofRow[p] \in ProofRows /\ challenge[p] \in ChallengeStates /\ u \in Names
    BY <1>3, <1>4 DEF ClientInv, ClientTypes, ProofRows
  <1>6. \A r \in Orgs : Known(p, r) => r = o
    BY <1>4 DEF Known
  <1>7. Answers(h) /\ UNCHANGED <<directory, running, registered, credentials>>
    BY DEF Verify
  <1>8. /\ handler' \in [Handlers -> Waits]
        /\ \A g \in Handlers : handler'[g].kind = "verify" =>
              handler'[g] = handler[g] /\ Known(handler[g].proof, handler[g].org)
    BY <1>7, Freed
  <1>9. \/ /\ Owner[u] = o /\ challenge' = [challenge EXCEPT ![p] = "satisfied"]
           /\ Verified(o, p, u, {"ENTITY_CLAIMED"}) \/ UNCHANGED <<org, proofRow>>
        \/ /\ challenge[p] = "satisfied"
           /\ Verified(o, p, u, {"ENTITY_CLAIMED"}) /\ UNCHANGED challenge
        \/ /\ challenge' = [challenge EXCEPT ![p] = "dead"]
           /\ proofRow' = [proofRow EXCEPT ![p].status = "FAILED"] /\ UNCHANGED org
    BY <1>1, <1>2, <1>3 DEF Verify
  <1>10. CASE Owner[u] = o /\ challenge' = [challenge EXCEPT ![p] = "satisfied"]
              /\ Verified(o, p, u, {"ENTITY_CLAIMED"})
    BY <1>4, <1>5, <1>6, <1>7, <1>8, <1>10, ProofVerified
  <1>11. CASE challenge[p] = "satisfied" /\ Verified(o, p, u, {"ENTITY_CLAIMED"}) /\ UNCHANGED challenge
    <2>1. Owner[u] = o
      BY <1>3, <1>4, <1>11 DEF ClientInv, ProofsInv, Known
    <2>2. challenge' = [challenge EXCEPT ![p] = "satisfied"]
      BY <1>4, <1>11 DEF ClientInv, ClientTypes
    <2> QED  BY <1>4, <1>5, <1>6, <1>7, <1>8, <1>11, <2>1, <2>2, ProofVerified
  <1>12. ASSUME NEW row \in ProofRows, NEW s \in ChallengeStates, row.org = proofRow[p].org,
                s # "none", s \in {"satisfied", "spent"} => row.org = Owner[row.about],
                proofRow' = [proofRow EXCEPT ![p] = row], challenge' = [challenge EXCEPT ![p] = s],
                UNCHANGED org
         PROVE  ClientInv'
    <2>1. \A r \in Orgs : Known(p, r) => row.org = r
      BY <1>12 DEF Known
    <2>2. /\ ProofsInv' /\ \A q \in Proofs, r \in Orgs : Known(q, r) => Known(q, r)'
          /\ proofRow' \in [Proofs -> ProofRows] /\ challenge' \in [Proofs -> ChallengeStates]
      BY <1>4, <1>12, <2>1, ProofMoves
    <2>3. org' \in [Orgs -> OrgRows]
      BY <1>12 DEF ClientInv, ClientTypes
    <2> QED  BY <1>7, <1>8, <1>12, <2>2, <2>3, ProofsMove
  <1>13. CASE Owner[u] = o /\ challenge' = [challenge EXCEPT ![p] = "satisfied"]
              /\ UNCHANGED <<org, proofRow>>
    <2>1. PICK row : row = proofRow[p]
      OBVIOUS
    <2>2. row.org = Owner[row.about] /\ row.org = proofRow[p].org
      BY <1>3, <1>4, <1>13, <2>1 DEF Known
    <2>3. proofRow' = [proofRow EXCEPT ![p] = row]
      BY <1>4, <1>13, <2>1 DEF ClientInv, ClientTypes
    <2>4. "satisfied" \in ChallengeStates
      BY DEF ChallengeStates
    <2> QED  BY <1>5, <1>12, <1>13, <2>1, <2>2, <2>3, <2>4
  <1>14. CASE /\ challenge' = [challenge EXCEPT ![p] = "dead"]
              /\ proofRow' = [proofRow EXCEPT ![p].status = "FAILED"] /\ UNCHANGED org
    <2>1. PICK row : row = [proofRow[p] EXCEPT !.status = "FAILED"]
      OBVIOUS
    <2>2. row \in ProofRows /\ row.org = proofRow[p].org
      BY <1>5, <2>1 DEF ProofRows
    <2>3. proofRow' = [proofRow EXCEPT ![p] = row]
      BY <1>14, <2>1
    <2>4. "dead" \in ChallengeStates
      BY DEF ChallengeStates
    <2> QED  BY <1>12, <1>14, <2>2, <2>3, <2>4
  <1> QED  BY <1>9, <1>10, <1>11, <1>13, <1>14

\* A step that configures and starts agents: what is in a directory fits
LEMMA AgentsMove ==
    ASSUME ClientInv, UNCHANGED <<proofRow, challenge, credentials>>,
           directory' = [u \in Usdots |-> [config |-> directory'[u].config,
                                           credential |-> directory'[u].credential]],
           \A u \in Usdots : directory'[u].config = directory[u].config \/ ConfigFits(directory'[u].config),
           org' \in [Orgs -> OrgRows],
           \A o \in Orgs : /\ org'[o].entity = org[o].entity /\ org'[o].proof = org[o].proof
                           /\ \/ org'[o].agent = org[o].agent /\ org'[o].home = org[o].home
                              \/ org'[o].home \in Usdots /\ ConfigFits(directory'[org'[o].home].config),
           running' \in [Usdots -> {NoProcess} \cup Runs],
           \A u \in Usdots : \/ running'[u] \in {running[u], NoProcess}
                             \/ ConfigFits(running'[u].config),
           handler' \in [Handlers -> Waits],
           \A h \in Handlers : handler'[h].kind = "verify" => Known(handler'[h].proof, handler'[h].org)
    PROVE  ClientInv'
  <1>1. ClientTypes' /\ ProofsInv'
    BY DEF ClientInv, ClientTypes, ProofsInv
  <1>2. ClientsOwn'
    BY DEF ClientInv, ClientsOwn, OneClaimant, PrincipalsOwn
  <1>3. \A o \in Orgs : org'[o].proof # 0 => Known(org'[o].proof, o)
    BY DEF ClientInv, HoldsInv
  <1>4. ASSUME NEW o \in Orgs, org'[o].agent # None
        PROVE  org'[o].home \in Usdots /\ ConfigFits(directory'[org'[o].home].config)
    <2>1. CASE org'[o].agent = org[o].agent /\ org'[o].home = org[o].home
      <3>1. PICK u : u = org[o].home
        OBVIOUS
      <3>2. u \in Usdots /\ ConfigFits(directory[u].config)
        BY <1>4, <2>1, <3>1 DEF ClientInv, HoldsInv
      <3>3. ConfigFits(directory'[u].config)
        BY <3>2
      <3> QED  BY <2>1, <3>1, <3>2, <3>3
    <2> QED  BY <2>1
  <1>5. ASSUME NEW u \in Usdots, running'[u] # NoProcess PROVE ConfigFits(running'[u].config)
    BY <1>5, SMTT(60) DEF ClientInv, HoldsInv
  <1>6. HoldsInv'
    BY <1>3, <1>4, <1>5 DEF HoldsInv, ConfigFits, Known
  <1> QED  BY <1>1, <1>2, <1>6 DEF ClientInv

LEMMA AgentRestarts ==
    ASSUME ClientInv, NEW o \in Orgs, Restarts(o)
    PROVE  ClientInv'
  <1>1. PICK u : u = org[o].agent
    OBVIOUS
  <1>2. PICK d : d = org[o].home
    OBVIOUS
  <1>3. PICK run : run = [directory |-> d, config |-> directory[d].config]
    OBVIOUS
  <1>4. running' = [running EXCEPT ![u] = run]
    BY <1>1, <1>2, <1>3 DEF Restarts, Load
  <1>5. d \in Usdots /\ ConfigFits(directory[d].config)
    BY <1>2 DEF Restarts, ClientInv, HoldsInv
  <1>6. run \in Runs /\ ConfigFits(run.config)
    BY <1>3, <1>5 DEF Runs, ConfigFits
  <1>7. /\ running' \in [Usdots -> {NoProcess} \cup Runs]
        /\ \A v \in Usdots : running'[v] = running[v] \/ running'[v] = run
    BY <1>4, <1>6 DEF ClientInv, ClientTypes
  <1>8. UNCHANGED <<org, proofRow, challenge, directory, handler, registered, credentials>>
    BY DEF Restarts
  <1>9. /\ directory' = [v \in Usdots |-> [config |-> directory'[v].config,
                                           credential |-> directory'[v].credential]]
        /\ org' \in [Orgs -> OrgRows] /\ handler' \in [Handlers -> Waits]
    BY <1>8 DEF ClientInv, ClientTypes
  <1>10. \A h \in Handlers : handler'[h].kind = "verify" => Known(handler'[h].proof, handler'[h].org)
    BY <1>8 DEF ClientInv, HoldsInv
  <1> QED  BY <1>6, <1>7, <1>8, <1>9, <1>10, AgentsMove

LEMMA AgentStarts ==
    ASSUME ClientInv, NEW h \in Handlers, Start(h)
    PROVE  ClientInv'
  <1>1. PICK o : o = handler[h].org
    OBVIOUS
  <1>2. PICK id : id = handler[h].mandate.agent
    OBVIOUS
  <1>3. PICK row : row = IF org[o].agent = None THEN id ELSE org[o].agent
    OBVIOUS
  <1>4. PICK c : c = [org |-> o, entity |-> handler[h].entity, number |-> handler[h].mandate.number,
                      proof |-> org[o].proof]
    OBVIOUS
  <1>5. PICK dirs : dirs = [directory EXCEPT ![id].config = c]
    OBVIOUS
  <1>6. PICK run : run = [directory |-> id, config |-> dirs[id].config]
    OBVIOUS
  <1>7. PICK q : q = [kind |-> "onboard", org |-> o, agent |-> row, number |-> handler[h].mandate.number]
    OBVIOUS
  <1>8. /\ handler[h].kind = "provision" /\ org[o].proof # 0 /\ directory' = dirs
        /\ \/ Answers(h) /\ UNCHANGED <<org, running>>
           \/ /\ org' = [org EXCEPT ![o].agent = row, ![o].home = id]
              /\ running' = [running EXCEPT ![row] = IF @ = NoProcess THEN run ELSE @]
              /\ handler' = [handler EXCEPT ![h] = q]
        /\ UNCHANGED <<proofRow, challenge, registered, credentials>>
    BY <1>1, <1>2, <1>3, <1>4, <1>5, <1>6, <1>7, Zenon DEF Start, ProvenControl, Load
  <1>9. o \in Orgs /\ handler[h].entity \in Names /\ handler[h].mandate \in SignedMandates
    BY <1>1, <1>8, WaitsFor DEF ClientInv, ClientTypes
  <1>10. id \in Usdots /\ handler[h].mandate.number \in Nat \ {0}
    BY <1>2, <1>9 DEF SignedMandates
  <1>11. org[o] \in OrgRows
    BY <1>9 DEF ClientInv, ClientTypes
  <1>12. row \in Usdots
    BY <1>3, <1>10, <1>11 DEF OrgRows, Names
  <1>13. ConfigFits(c)
    <2>1. PICK p : p = org[o].proof
      OBVIOUS
    <2>2. p \in Proofs /\ Known(p, o)
      BY <1>8, <1>9, <1>11, <2>1 DEF ClientInv, HoldsInv, OrgRows
    <2>3. c \in Configs /\ c.proof = p /\ c.org = o
      BY <1>4, <1>9, <1>10, <2>1, <2>2 DEF Configs
    <2> QED  BY <2>2, <2>3 DEF ConfigFits
  <1>14. /\ \A u \in Usdots : directory'[u] = [config |-> IF u = id THEN c ELSE directory[u].config,
                                               credential |-> directory[u].credential]
         /\ directory' = [u \in Usdots |-> directory'[u]]
    BY <1>5, <1>8, <1>10 DEF ClientInv, ClientTypes
  <1>15. directory' = [u \in Usdots |-> [config |-> directory'[u].config,
                                         credential |-> directory'[u].credential]]
    BY <1>14
  <1>16. directory'[id].config = c
    BY <1>10, <1>14
  <1>17. \A u \in Usdots : directory'[u].config = directory[u].config \/ ConfigFits(directory'[u].config)
    BY <1>13, <1>14
  <1>18. CASE Answers(h) /\ UNCHANGED <<org, running>>
    BY <1>8, <1>15, <1>17, <1>18, Freed, AgentsMove DEF ClientInv, ClientTypes
  <1>19. CASE /\ org' = [org EXCEPT ![o].agent = row, ![o].home = id]
              /\ running' = [running EXCEPT ![row] = IF @ = NoProcess THEN run ELSE @]
              /\ handler' = [handler EXCEPT ![h] = q]
    <2>1. PICK r : r = [org[o] EXCEPT !.agent = row, !.home = id]
      OBVIOUS
    <2>2. /\ r \in OrgRows /\ r.entity = org[o].entity /\ r.proof = org[o].proof
          /\ r.agent = row /\ r.home = id
      BY <1>10, <1>11, <1>12, <2>1 DEF OrgRows, Names
    <2>3. org' = [org EXCEPT ![o] = r]
      BY <1>9, <1>19, <2>1 DEF ClientInv, ClientTypes
    <2>4. org' \in [Orgs -> OrgRows] /\ \A s \in Orgs : org'[s] = IF s = o THEN r ELSE org[s]
      BY <2>2, <2>3 DEF ClientInv, ClientTypes
    <2>5. \A s \in Orgs : /\ org'[s].entity = org[s].entity /\ org'[s].proof = org[s].proof
                          /\ \/ org'[s].agent = org[s].agent /\ org'[s].home = org[s].home
                             \/ org'[s].home \in Usdots /\ ConfigFits(directory'[org'[s].home].config)
      BY <1>10, <1>13, <1>16, <2>2, <2>4
    <2>6. run \in Runs /\ ConfigFits(run.config)
      <3>1. run = [directory |-> id, config |-> c]
        BY <1>6, <1>8, <1>16
      <3> QED  BY <1>10, <1>13, <3>1 DEF Runs, ConfigFits
    <2>7. /\ running' \in [Usdots -> {NoProcess} \cup Runs]
          /\ \A u \in Usdots : running'[u] = running[u] \/ running'[u] = run
      BY <1>12, <1>19, <2>6 DEF ClientInv, ClientTypes
    <2>8. q \in [kind : {"onboard"}, org : Orgs, agent : Usdots, number : Nat \ {0}]
      BY <1>7, <1>9, <1>10, <1>12
    <2>9. q \in Waits /\ q.kind = "onboard"
      BY <1>7, <2>8 DEF Waits
    <2>10. /\ handler' \in [Handlers -> Waits]
           /\ \A g \in Handlers : handler'[g] = IF g = h THEN q ELSE handler[g]
      BY <1>19, <2>9 DEF ClientInv, ClientTypes
    <2>11. \A g \in Handlers : handler'[g].kind = "verify" => Known(handler'[g].proof, handler'[g].org)
      BY <2>9, <2>10 DEF ClientInv, HoldsInv
    <2> QED  BY <1>8, <1>15, <1>17, <2>4, <2>5, <2>6, <2>7, <2>10, <2>11, AgentsMove
  <1> QED  BY <1>8, <1>18, <1>19

\* A credential is issued on a proof, and the proof is spent
LEMMA AgentOnboarded ==
    ASSUME ClientInv, NEW h \in Handlers, Onboard(h)
    PROVE  ClientInv'
  <1>1. PICK o : o = handler[h].org
    OBVIOUS
  <1>2. PICK run : run = running[handler[h].agent]
    OBVIOUS
  <1>3. PICK issued : issued = [entity |-> run.config.entity, org |-> run.config.org,
                                directory |-> run.directory]
    OBVIOUS
  <1>4. /\ handler[h].kind = "onboard" /\ run # NoProcess /\ Answers(h)
        /\ UNCHANGED <<proofRow, running>>
        /\ \/ GoesLive(o, handler[h].number) /\ UNCHANGED <<directory, challenge, registered, credentials>>
           \/ /\ Accepts(run)
              /\ challenge' = [challenge EXCEPT ![run.config.proof] = "spent"]
              /\ credentials' = credentials \cup {issued}
              /\ \/ /\ directory' = [directory EXCEPT ![run.directory].credential = issued]
                    /\ GoesLive(o, handler[h].number) \/ UNCHANGED org
                 \/ UNCHANGED <<directory, org>>
    BY <1>1, <1>2, <1>3, Zenon DEF Onboard
  <1>5. o \in Orgs /\ handler[h].agent \in Usdots
    BY <1>1, <1>4, WaitsFor DEF ClientInv, ClientTypes
  <1>6. run \in Runs /\ ConfigFits(run.config)
    BY <1>2, <1>4, <1>5 DEF ClientInv, ClientTypes, HoldsInv
  <1>7. /\ org' \in [Orgs -> OrgRows]
        /\ \A s \in Orgs : /\ org'[s].entity = org[s].entity /\ org'[s].proof = org[s].proof
                           /\ org'[s].agent = org[s].agent /\ org'[s].home = org[s].home
    <2>1. CASE UNCHANGED org
      BY <2>1 DEF ClientInv, ClientTypes
    <2>2. CASE GoesLive(o, handler[h].number)
      <3>1. PICK b \in BOOLEAN : b = (org[o].mandate.told \/ org[o].mandate.number = handler[h].number)
        OBVIOUS
      <3>2. org[o] \in OrgRows
        BY <1>5 DEF ClientInv, ClientTypes
      <3>3. PICK m : m = [org[o].mandate EXCEPT !.told = b]
        OBVIOUS
      <3>4. m \in {NoMandate} \cup SignedMandates
        <4>1. CASE org[o].mandate \in SignedMandates
          BY <3>3, <4>1 DEF SignedMandates
        <4>2. CASE org[o].mandate = NoMandate
          <5>1. handler[h].number \in Nat \ {0}
            BY <1>4, WaitsFor DEF ClientInv, ClientTypes
          <5>2. ~ NoMandate.told /\ NoMandate.number = 0
            BY DEF NoMandate
          <5>3. PICK n : n = handler[h].number
            OBVIOUS
          <5>4. n # 0
            BY <5>1, <5>3
          <5>5. ~ (NoMandate.told \/ NoMandate.number = n)
            BY <5>2, <5>4
          <5>6. ~ b
            BY <3>1, <4>2, <5>3, <5>5, Zenon
          <5>7. b = FALSE
            BY <5>6
          <5>8. m = [NoMandate EXCEPT !.told = FALSE]
            BY <3>3, <4>2, <5>7, Zenon
          <5>9. ASSUME NEW none, NEW f, none = [agent |-> None, number |-> 0, told |-> f]
                PROVE  [none EXCEPT !.told = f] = none
            BY <5>9
          <5>10. [NoMandate EXCEPT !.told = FALSE] = NoMandate
            BY <5>9, Zenon DEF NoMandate
          <5> QED  BY <5>8, <5>10, Zenon
        <4> QED  BY <3>2, <4>1, <4>2 DEF OrgRows
      <3>5. PICK r : r = [org[o] EXCEPT !.status = "LIVE", !.mandate = m]
        OBVIOUS
      <3>6. /\ r \in OrgRows /\ r.entity = org[o].entity /\ r.proof = org[o].proof
            /\ r.agent = org[o].agent /\ r.home = org[o].home
        BY <3>2, <3>4, <3>5 DEF OrgRows, Statuses
      <3>7. org' = [org EXCEPT ![o] = r]
        BY <1>5, <2>2, <3>1, <3>2, <3>3, <3>5 DEF GoesLive, ClientInv, ClientTypes, OrgRows
      <3> QED  BY <3>6, <3>7 DEF ClientInv, ClientTypes
    <2> QED  BY <1>4, <2>1, <2>2
  <1>8. /\ handler' \in [Handlers -> Waits]
        /\ \A g \in Handlers : handler'[g].kind = "verify" =>
              handler'[g] = handler[g] /\ Known(handler[g].proof, handler[g].org)
    BY <1>4, Freed
  <1>9. CASE UNCHANGED <<directory, challenge, credentials>>
    <2>1. OneClaimant'
      BY <1>7 DEF ClientInv, ClientsOwn, OneClaimant
    <2> QED  BY <1>4, <1>7, <1>8, <1>9, <2>1, RowsMove DEF ClientInv, ClientTypes
  <1>10. CASE /\ Accepts(run)
              /\ challenge' = [challenge EXCEPT ![run.config.proof] = "spent"]
              /\ credentials' = credentials \cup {issued}
              /\ \/ directory' = [directory EXCEPT ![run.directory].credential = issued]
                 \/ UNCHANGED directory
    <2>1. PICK p : p = run.config.proof
      OBVIOUS
    <2>2. p \in Proofs /\ run.config.org \in Orgs /\ Known(p, run.config.org)
      BY <1>6, <2>1 DEF ConfigFits, Configs
    <2>3. /\ challenge[p] = "satisfied" /\ proofRow[p].about = run.config.entity
          /\ proofRow[p].about = run.directory
      BY <1>10, <2>1 DEF Accepts
    <2>4. proofRow[p].org = Owner[proofRow[p].about]
      BY <2>2, <2>3 DEF ClientInv, ProofsInv
    <2>5. issued.org = Owner[issued.entity] /\ issued.directory = issued.entity
      BY <1>3, <2>2, <2>3, <2>4 DEF Known
    <2>6. ClientsOwn'
      BY <1>7, <1>10, <2>5 DEF ClientInv, ClientsOwn, OneClaimant, PrincipalsOwn
    <2>7. PICK row : row = proofRow[p]
      OBVIOUS
    <2>8. /\ row \in ProofRows /\ proofRow' = [proofRow EXCEPT ![p] = row]
          /\ row.org = Owner[row.about] /\ "spent" \in ChallengeStates
      BY <1>4, <2>2, <2>4, <2>7 DEF ClientInv, ClientTypes, ChallengeStates
    <2>9. \A s \in Orgs : Known(p, s) => row.org = s
      BY <2>7 DEF Known
    <2>10. /\ ProofsInv' /\ \A q \in Proofs, s \in Orgs : Known(q, s) => Known(q, s)'
           /\ proofRow' \in [Proofs -> ProofRows] /\ challenge' \in [Proofs -> ChallengeStates]
      BY <1>10, <2>1, <2>2, <2>8, <2>9, ProofMoves
    <2>11. /\ directory' = [u \in Usdots |-> [config |-> directory'[u].config,
                                              credential |-> directory'[u].credential]]
           /\ \A u \in Usdots : directory'[u].config = directory[u].config
      <3>1. PICK D : D = directory
        OBVIOUS
      <3>2. D = [u \in Usdots |-> [config |-> D[u].config, credential |-> D[u].credential]]
        BY <3>1 DEF ClientInv, ClientTypes
      <3>3. CASE UNCHANGED directory
        BY <3>1, <3>2, <3>3
      <3>4. CASE directory' = [directory EXCEPT ![run.directory].credential = issued]
        <4>1. PICK E : E = directory'
          OBVIOUS
        <4>2. E = [D EXCEPT ![run.directory].credential = issued]
          BY <3>1, <3>4, <4>1
        <4>3. \A u \in Usdots : E[u] = [config |-> D[u].config,
                  credential |-> IF u = run.directory THEN issued ELSE D[u].credential]
          BY <3>2, <4>2, SMTT(60)
        <4>4. E = [u \in Usdots |-> E[u]]
          BY <3>2, <4>2
        <4>5. ASSUME NEW u \in Usdots
              PROVE  /\ E[u].config = D[u].config
                     /\ E[u] = [config |-> E[u].config, credential |-> E[u].credential]
          <5>1. PICK c : c = D[u].config
            OBVIOUS
          <5>2. PICK d : d = IF u = run.directory THEN issued ELSE D[u].credential
            OBVIOUS
          <5>3. PICK e : e = E[u]
            OBVIOUS
          <5>4. e = [config |-> c, credential |-> d]
            BY <4>3, <5>1, <5>2, <5>3, Zenon
          <5>5. e.config = c /\ e = [config |-> e.config, credential |-> e.credential]
            BY <5>4
          <5> QED  BY <5>1, <5>3, <5>5, Zenon
        <4>6. \A u \in Usdots : E[u] = [config |-> E[u].config, credential |-> E[u].credential]
          BY <4>5
        <4>7. [u \in Usdots |-> E[u]]
                = [u \in Usdots |-> [config |-> E[u].config, credential |-> E[u].credential]]
          BY <4>6
        <4>8. E = [u \in Usdots |-> [config |-> E[u].config, credential |-> E[u].credential]]
          BY <4>4, <4>7, Zenon
        <4> QED  BY <3>1, <4>1, <4>5, <4>8, Zenon
      <3> QED  BY <1>10, <3>3, <3>4
    <2>12. ClientTypes'
      BY <1>4, <1>7, <1>8, <2>10, <2>11 DEF ClientInv, ClientTypes
    <2>13. HoldsInv'
      <3>1. ASSUME NEW s \in Orgs, org'[s].proof # 0 PROVE Known(org[s].proof, s)'
        <4>1. PICK x : x = org[s].proof
          OBVIOUS
        <4>2. x \in Proofs /\ Known(x, s)
          BY <1>7, <3>1, <4>1 DEF ClientInv, ClientTypes, HoldsInv, OrgRows
        <4>3. Known(x, s)'
          BY <2>10, <4>2
        <4> QED  BY <1>7, <4>1, <4>3 DEF Known
      <3>2. ASSUME NEW s \in Orgs, org'[s].agent # None
            PROVE  (org[s].home \in Usdots /\ ConfigFits(directory[org[s].home].config))'
        <4>1. PICK c : c = directory[org[s].home].config
          OBVIOUS
        <4>2. org[s].home \in Usdots /\ ConfigFits(c)
          BY <1>7, <3>2, <4>1 DEF ClientInv, HoldsInv
        <4>3. ConfigFits(c)'
          BY <2>10, <4>2, ConfigStays
        <4>4. org'[s].home = org[s].home /\ c = directory'[org'[s].home].config
          BY <1>7, <2>11, <4>1, <4>2
        <4> QED  BY <4>2, <4>3, <4>4 DEF ConfigFits, Known
      <3>3. ASSUME NEW u \in Usdots, running'[u] # NoProcess PROVE ConfigFits(running[u].config)'
        <4>1. PICK c : c = running[u].config
          OBVIOUS
        <4>2. ConfigFits(c)
          BY <1>4, <3>3, <4>1 DEF ClientInv, HoldsInv
        <4>3. ConfigFits(c)' /\ c = running'[u].config
          BY <1>4, <2>10, <4>1, <4>2, ConfigStays
        <4> QED  BY <4>3 DEF ConfigFits, Known
      <3>4. ASSUME NEW g \in Handlers, handler'[g].kind = "verify"
            PROVE  Known(handler[g].proof, handler[g].org)'
        <4>1. PICK q : q = handler[g]
          OBVIOUS
        <4>2. q \in Waits /\ q.kind = "verify" /\ q = handler'[g] /\ Known(q.proof, q.org)
          BY <1>8, <3>4, <4>1 DEF ClientInv, ClientTypes
        <4>3. Known(q.proof, q.org)'
          BY <2>10, <4>2, WaitsFor
        <4> QED  BY <4>2, <4>3 DEF Known
      <3> QED  BY <3>1, <3>2, <3>3, <3>4 DEF HoldsInv
    <2> QED  BY <2>6, <2>10, <2>12, <2>13 DEF ClientInv
  <1> QED  BY <1>4, <1>9, <1>10

LEMMA ClientsStep ==
    ASSUME ClientInv, [OnboardingNext]_onboardingVars
    PROVE  ClientInv'
  <1>1. ASSUME NEW h \in Handlers, NEW o \in Orgs,
               \/ \E u \in Usdots : Claim(h, o, u)
               \/ StartChallenge(h, o) \/ VerifyChallenge(h, o)
               \/ \E change \in BOOLEAN : SignMandate(h, o, change)
               \/ Provision(h, o)
        PROVE  ClientInv'
    BY <1>1, RequestsCome, VerificationCome
  <1>2. ASSUME NEW h \in Handlers,
               \/ Claimed(h) \/ Challenged(h) \/ Verify(h) \/ Signed(h)
               \/ Start(h) \/ Onboard(h) \/ Fails(h)
        PROVE  ClientInv'
    BY <1>2, ClaimAnswered, ChallengeSent, ProofAnswered, MandateSigned, AgentStarts,
       AgentOnboarded, Failing
  <1>3. ASSUME NEW o \in Orgs, OperatorAttest(o) \/ CreateKey(o) \/ Restarts(o) PROVE ClientInv'
    BY <1>3, OperatorVouches, KeyCreated, AgentRestarts
  <1>4. ASSUME NEW u \in Usdots, Exits(u) PROVE ClientInv'
    BY <1>4, ProcessExits
  <1>5. CASE UNCHANGED onboardingVars
    <2>1. OneClaimant'
      BY <1>5 DEF onboardingVars, ClientInv, ClientsOwn, OneClaimant
    <2> QED  BY <1>5, <2>1, RowsMove DEF onboardingVars, ClientInv, ClientTypes, HoldsInv
  <1> QED  BY <1>1, <1>2, <1>3, <1>4, <1>5 DEF OnboardingNext

\* A company is claimed by one client, and a credential is issued under the principal
\* who proved control of the company, for the key in the directory of its agent, however
\* the requests of clients interleave and whatever is claimed, provisioned and started
\* again in between (claimEntity, verifyChallenge, provisionAndStart of app/onboarding.ts)
THEOREM ClientsAlwaysOwn == MCSpec => []ClientsOwn
  <1>1. MCInit => ClientInv
    BY ClientsStart DEF MCInit
  <1>2. ClientInv /\ [MCNext]_<<part, onboardingVars, agentVars>> => ClientInv'
    <2>1. [MCNext]_<<part, onboardingVars, agentVars>> => [OnboardingNext]_onboardingVars
      BY Zenon DEF MCNext
    <2> QED  BY <2>1, ClientsStep
  <1>3. ClientInv => ClientsOwn
    BY DEF ClientInv
  <1> QED  BY <1>1, <1>2, <1>3, PTL DEF MCSpec
=============================================================================
