------------------------ MODULE Underwriting_proofs ------------------------
(***************************************************************************)
(* Theorems about Underwriting, for any guarantees, carriers, amounts and  *)
(* crashes between any two files: the reserve bears what it pays, a claim  *)
(* is paid once when it is filed, the ledger follows the files, every      *)
(* commitment has its guarantee and its exposure, the limits hold, and the *)
(* reserve counts what was earned and paid.                                *)
(*                                                                         *)
(* What a restart reads is a mixture of files of different moments.  The   *)
(* invariant says that every such mixture is consistent, because the files *)
(* are written in one order.                                               *)
(***************************************************************************)
EXTENDS Underwriting, FiniteSetTheorems, SequenceTheorems, WellFoundedInduction, TLAPS

USE GuaranteesAssumption, LimitsAssumption

\* Everything but the sum in `portfolio' has its type, in memory and on disk
Typed ==
    /\ book \in [Guarantees -> Books]
    /\ guarantee \in [Guarantees -> [status : Statuses, why : Reasons]]
    /\ claims \in Seq(Claim) /\ Len(claims) <= MaxClaims
    /\ reserve \in Reserve
    /\ disk \in [book : [Guarantees -> Books],
                 guarantees : [Guarantees -> [status : Statuses, why : Reasons]],
                 claims : Seq(Claim), reserve : Reserve]
    /\ Len(disk.claims) <= MaxClaims
    /\ pending \in Seq((Files \X {0}) \cup Entries)
    /\ settling \in 0 .. MaxClaims + 1
    /\ journal \in [Guarantees -> {"none", "COMMIT", "VOID"}]
    /\ committed \subseteq Guarantees /\ voided \subseteq committed
    /\ overdue \subseteq Guarantees
    /\ chain \in Seq(Entries)
    /\ crashes \in 0 .. MaxCrashes

\* The order in which files and entries are written
Rank(x) == IF x[1] = "book" THEN 1 ELSE IF x[1] = "guarantees" THEN 2
           ELSE IF x[1] = "claims" THEN 3 ELSE IF x[1] = "reserve" THEN 4
           ELSE IF x[1] = "CLAIM" THEN 5 ELSE 6

InOrder(s) == \A i, j \in 1 .. Len(s) : i < j => Rank(s[i]) < Rank(s[j])

Unwritten(x) == \E i \in 1 .. Len(pending) : pending[i] = x

\* What is not waiting to be written is on disk, and what is waiting to be put on
\* the ledger is about claims there are
WriteInv ==
    /\ InOrder(pending)
    /\ ~Unwritten(<<"book", 0>>) => disk.book = book
    /\ ~Unwritten(<<"guarantees", 0>>) => disk.guarantees = guarantee
    /\ settling = 0 /\ ~Unwritten(<<"claims", 0>>) => disk.claims = claims
    /\ \A k \in 1 .. MaxClaims :
          /\ Unwritten(<<"CLAIM", k>>) => settling = 0 /\ k \in 1 .. Len(claims)
          /\ Unwritten(<<"PAYOUT", k>>) =>
                /\ settling = 0 /\ k \in 1 .. Len(claims)
                /\ claims[k].status = "PAID"
                /\ Unwritten(<<"CLAIM", k>>) \/ OnChain("CLAIM", k)

\* A guarantee of record has its commitment and its entry in the book; one that
\* is missing is still to be attached; one given back holds nothing
BookSound(b, gs) ==
    \A g \in Guarantees :
        /\ gs[g].status # "none" => b[g] # "none"
        /\ b[g] # "none" => g \in committed
        /\ g \in committed /\ gs[g].status = "none" => journal[g] = "COMMIT"
        /\ journal[g] # "none" => g \in committed
        /\ gs[g].status = "RELEASED" => b[g] # "held"
        /\ gs[g].why # "none" => gs[g].status = "RELEASED"

\* A claim paid when it was filed has used up its guarantee, and is the only one; a
\* claim the rules cover and nobody could pay yet holds its guarantee
ClaimsSound(gs, cs) ==
    /\ \A k \in 1 .. Len(cs) :
          /\ cs[k].paid # "no" <=> cs[k].status = "PAID"
          /\ cs[k].paid = "filed" => gs[cs[k].of].status = "RELEASED"
          /\ cs[k].status = "DEFERRED" /\ cs[k].by = "rules" =>
                gs[cs[k].of].why # "window"
    /\ \A i, j \in 1 .. Len(cs) :
          cs[i].of = cs[j].of /\ cs[i].paid = "filed" /\ cs[j].paid = "filed" => i = j

\* The files are an earlier moment: guarantees are not un-released, claims not unpaid
FilesBehind ==
    /\ \A g \in Guarantees :
          /\ disk.guarantees[g].status # "none" => guarantee[g].status # "none"
          /\ disk.guarantees[g].status = "RELEASED" => guarantee[g] = disk.guarantees[g]
    /\ Len(disk.claims) <= Len(claims)
    /\ \A k \in 1 .. Len(disk.claims) :
          /\ disk.claims[k].status = "PAID" => claims[k] = disk.claims[k]
          /\ disk.claims[k].status = "DEFERRED" /\ disk.claims[k].by = "rules" =>
                guarantee[disk.claims[k].of].why # "window"

RecordInv ==
    /\ BookSound(book, guarantee) /\ BookSound(disk.book, disk.guarantees)
    /\ ClaimsSound(guarantee, claims) /\ ClaimsSound(disk.guarantees, disk.claims)
    /\ FilesBehind

ChainInv ==
    /\ \A k \in 1 .. MaxClaims :
          /\ OnChain("CLAIM", k) => k \in 1 .. Len(disk.claims)
          /\ OnChain("PAYOUT", k) =>
                OnChain("CLAIM", k) /\ disk.claims[k].status = "PAID"
    /\ crashes = 0 => \A k \in 1 .. Len(claims) :
          OnChain("CLAIM", k) \/ Unwritten(<<"CLAIM", k>>)

\* Without a crash the book is exact
BookExact ==
    crashes = 0 => \A g \in Guarantees :
        /\ guarantee[g].status = "none" => book[g] = "none"
        /\ g \in Outstanding(guarantee) => book[g] = "held"

\* While deferred claims are looked at nothing else happens, and those looked at are
\* paid or too large
SettleInv ==
    settling # 0 =>
        /\ \A g \in Guarantees : journal[g] = "none"
        /\ \A k \in 1 .. Len(claims) :
              k < settling /\ claims[k].status = "DEFERRED" => ~Payable(claims[k].payout)

Inv == WriteInv /\ RecordInv /\ ChainInv /\ BookExact /\ SettleInv

----------------------------------------------------------------------------
(* What is written, and in which order                                     *)

Members(s) == {s[i] : i \in 1 .. Len(s)}
Writes == (Files \X {0}) \cup Entries

LEMMA FilesWritten ==
    /\ Persisted \in Seq(Writes) /\ InOrder(Persisted)
    /\ Members(Persisted) = {<<"guarantees", 0>>, <<"claims", 0>>, <<"reserve", 0>>}
    /\ Booked \in Seq(Writes) /\ InOrder(Booked)
    /\ Members(Booked) = Members(Persisted) \cup {<<"book", 0>>}
    /\ Len(Booked) = 4 /\ Booked[1] = <<"book", 0>> /\ Booked[2] = <<"guarantees", 0>>
    /\ Booked[3] = <<"claims", 0>> /\ Booked[4] = <<"reserve", 0>>
  <1>1. /\ Persisted = <<<<"guarantees", 0>>, <<"claims", 0>>, <<"reserve", 0>>>>
        /\ \A x \in {"book", "guarantees", "claims", "reserve"} : <<x, 0>> \in Writes
    BY DEF Persisted, Writes, Files
  <1>2. /\ Persisted \in Seq(Writes) /\ Len(Persisted) = 3
        /\ Persisted[1] = <<"guarantees", 0>> /\ Persisted[2] = <<"claims", 0>>
        /\ Persisted[3] = <<"reserve", 0>>
    BY <1>1
  <1>3. /\ Booked \in Seq(Writes) /\ Len(Booked) = 4 /\ Booked[1] = <<"book", 0>>
        /\ Booked[2] = <<"guarantees", 0>> /\ Booked[3] = <<"claims", 0>>
        /\ Booked[4] = <<"reserve", 0>>
    BY <1>1 DEF Booked
  <1>4. 1 .. Len(Persisted) = {1, 2, 3} /\ 1 .. Len(Booked) = {1, 2, 3, 4}
    BY <1>2, <1>3
  <1>5. InOrder(Persisted)
    BY <1>2, <1>4 DEF InOrder, Rank
  <1>6. InOrder(Booked)
    BY <1>3, <1>4 DEF InOrder, Rank
  <1>7. Members(Persisted) = {<<"guarantees", 0>>, <<"claims", 0>>, <<"reserve", 0>>}
    BY <1>2, <1>4, ZenonT(60) DEF Members
  <1>8. Members(Booked) = {<<"book", 0>>, <<"guarantees", 0>>, <<"claims", 0>>,
                           <<"reserve", 0>>}
    BY <1>3, <1>4, ZenonT(60) DEF Members
  <1> QED  BY <1>2, <1>3, <1>5, <1>6, <1>7, <1>8

LEMMA Follows ==
    ASSUME NEW e \in Seq(Writes)
    PROVE  /\ Booked \o e \in Seq(Writes) /\ Len(Booked \o e) = 4 + Len(e)
           /\ \A i \in 1 .. 4 : (Booked \o e)[i] = Booked[i]
           /\ \A i \in 1 .. Len(e) : (Booked \o e)[i + 4] = e[i]
  <1>1. Booked \in Seq(Writes) /\ Len(Booked) = 4 /\ Len(e) \in Nat
    BY FilesWritten
  <1>2. /\ Booked \o e \in Seq(Writes) /\ Len(Booked \o e) = Len(Booked) + Len(e)
        /\ \A i \in 1 .. Len(Booked) + Len(e) : (Booked \o e)[i] =
              IF i <= Len(Booked) THEN Booked[i] ELSE e[i - Len(Booked)]
    BY <1>1, ConcatProperties, ZenonT(60)
  <1>3. \A i \in 1 .. 4 : i \in 1 .. Len(Booked) + Len(e) /\ i <= Len(Booked)
    BY <1>1
  <1>4. \A i \in 1 .. Len(e) : /\ i + 4 \in 1 .. Len(Booked) + Len(e)
                               /\ ~(i + 4 <= Len(Booked)) /\ (i + 4) - Len(Booked) = i
    BY <1>1
  <1> QED  BY <1>1, <1>2, <1>3, <1>4

\* A claim filed: the files, then its entries
LEMMA FiledWritten ==
    ASSUME NEW k \in Nat
    PROVE  /\ Booked \o <<<<"CLAIM", k>>>> \in Seq(Writes)
           /\ InOrder(Booked \o <<<<"CLAIM", k>>>>)
           /\ Members(Booked \o <<<<"CLAIM", k>>>>) = Members(Booked) \cup {<<"CLAIM", k>>}
           /\ Booked \o <<<<"CLAIM", k>>, <<"PAYOUT", k>>>> \in Seq(Writes)
           /\ InOrder(Booked \o <<<<"CLAIM", k>>, <<"PAYOUT", k>>>>)
           /\ Members(Booked \o <<<<"CLAIM", k>>, <<"PAYOUT", k>>>>) =
                 Members(Booked) \cup {<<"CLAIM", k>>, <<"PAYOUT", k>>}
  <1>1. /\ Booked[1] = <<"book", 0>> /\ Booked[2] = <<"guarantees", 0>>
        /\ Booked[3] = <<"claims", 0>> /\ Booked[4] = <<"reserve", 0>>
        /\ Members(Booked) = {<<"book", 0>>, <<"guarantees", 0>>, <<"claims", 0>>,
                              <<"reserve", 0>>}
    BY FilesWritten
  <1>2. <<"CLAIM", k>> \in Writes /\ <<"PAYOUT", k>> \in Writes
    BY DEF Writes, Entries
  <1>3. ASSUME NEW q, NEW e \in Seq(Writes), q = Booked \o e,
               \/ Len(e) = 1 /\ e[1] = <<"CLAIM", k>>
               \/ Len(e) = 2 /\ e[1] = <<"CLAIM", k>> /\ e[2] = <<"PAYOUT", k>>
        PROVE  /\ q \in Seq(Writes) /\ InOrder(q)
               /\ Members(q) = Members(Booked) \cup
                     (IF Len(e) = 1 THEN {<<"CLAIM", k>>}
                      ELSE {<<"CLAIM", k>>, <<"PAYOUT", k>>})
    <2>1. /\ q \in Seq(Writes) /\ Len(q) = 4 + Len(e) /\ \A i \in 1 .. 4 : q[i] = Booked[i]
          /\ \A i \in 1 .. Len(e) : q[i + 4] = e[i]
      BY <1>3, Follows
    <2>2. /\ q[1] = <<"book", 0>> /\ q[2] = <<"guarantees", 0>> /\ q[3] = <<"claims", 0>>
          /\ q[4] = <<"reserve", 0>> /\ q[5] = <<"CLAIM", k>>
          /\ Len(e) = 2 => q[6] = <<"PAYOUT", k>>
      BY <1>1, <1>3, <2>1, SMTT(60)
    <2>3. CASE Len(e) = 1
      <3>1. 1 .. Len(q) = {1, 2, 3, 4, 5}
        BY <2>1, <2>3
      <3>2. InOrder(q)
        <4>1. /\ Rank(q[1]) = 1 /\ Rank(q[2]) = 2 /\ Rank(q[3]) = 3 /\ Rank(q[4]) = 4
              /\ Rank(q[5]) = 5
          BY <2>2 DEF Rank
        <4>2. \A i \in 1 .. Len(q) : Rank(q[i]) = i
          BY <3>1, <4>1
        <4> QED  BY <4>2 DEF InOrder
      <3>3. Members(q) = {<<"book", 0>>, <<"guarantees", 0>>, <<"claims", 0>>,
                          <<"reserve", 0>>, <<"CLAIM", k>>}
        BY <2>2, <2>3, <3>1, ZenonT(60) DEF Members
      <3> QED  BY <1>1, <2>1, <2>3, <3>2, <3>3
    <2>4. CASE Len(e) = 2
      <3>1. 1 .. Len(q) = {1, 2, 3, 4, 5, 6}
        BY <2>1, <2>4
      <3>2. InOrder(q)
        <4>1. /\ Rank(q[1]) = 1 /\ Rank(q[2]) = 2 /\ Rank(q[3]) = 3 /\ Rank(q[4]) = 4
              /\ Rank(q[5]) = 5 /\ Rank(q[6]) = 6
          BY <2>2, <2>4 DEF Rank
        <4>2. \A i \in 1 .. Len(q) : Rank(q[i]) = i
          BY <3>1, <4>1
        <4> QED  BY <4>2 DEF InOrder
      <3>3. Members(q) = {<<"book", 0>>, <<"guarantees", 0>>, <<"claims", 0>>,
                          <<"reserve", 0>>, <<"CLAIM", k>>, <<"PAYOUT", k>>}
        BY <2>2, <2>4, <3>1, ZenonT(60) DEF Members
      <3> QED  BY <1>1, <2>1, <2>4, <3>2, <3>3
    <2> QED  BY <1>3, <2>3, <2>4
  <1>4. ASSUME NEW e, e = <<<<"CLAIM", k>>>>
        PROVE  e \in Seq(Writes) /\ Len(e) = 1 /\ e[1] = <<"CLAIM", k>>
    BY <1>2, <1>4
  <1>5. /\ Booked \o <<<<"CLAIM", k>>>> \in Seq(Writes)
        /\ InOrder(Booked \o <<<<"CLAIM", k>>>>)
        /\ Members(Booked \o <<<<"CLAIM", k>>>>) = Members(Booked) \cup {<<"CLAIM", k>>}
    BY <1>3, <1>4
  <1>6. /\ Booked \o <<<<"CLAIM", k>>, <<"PAYOUT", k>>>> \in Seq(Writes)
        /\ InOrder(Booked \o <<<<"CLAIM", k>>, <<"PAYOUT", k>>>>)
        /\ Members(Booked \o <<<<"CLAIM", k>>, <<"PAYOUT", k>>>>) =
              Members(Booked) \cup {<<"CLAIM", k>>, <<"PAYOUT", k>>}
    <2>1. ASSUME NEW e, e = <<<<"CLAIM", k>>, <<"PAYOUT", k>>>>
          PROVE  /\ Booked \o e \in Seq(Writes) /\ InOrder(Booked \o e)
                 /\ Members(Booked \o e) =
                       Members(Booked) \cup {<<"CLAIM", k>>, <<"PAYOUT", k>>}
      <3>1. e \in Seq(Writes) /\ Len(e) = 2 /\ ~(Len(e) = 1)
            /\ e[1] = <<"CLAIM", k>> /\ e[2] = <<"PAYOUT", k>>
        BY <1>2, <2>1
      <3> QED  BY <1>3, <3>1
    <2> QED  BY <2>1
  <1> QED  BY <1>5, <1>6

LEMMA UnwrittenIs == \A x : Unwritten(x) <=> x \in Members(pending)
  BY DEF Unwritten, Members

\* The first is written: what comes after it stays, and comes after it
LEMMA FirstWritten ==
    ASSUME NEW s \in Seq(Writes), s # <<>>, InOrder(s)
    PROVE  /\ Head(s) \in Writes /\ Tail(s) \in Seq(Writes) /\ InOrder(Tail(s))
           /\ Members(s) = {Head(s)} \cup Members(Tail(s))
           /\ \A x \in Members(Tail(s)) : Rank(Head(s)) < Rank(x)
  <1>1. /\ Len(s) \in Nat \ {0} /\ Head(s) = s[1] /\ s[1] \in Writes
        /\ Tail(s) \in Seq(Writes) /\ Len(Tail(s)) = Len(s) - 1
        /\ \A i \in 1 .. Len(Tail(s)) : Tail(s)[i] = s[i + 1] /\ i + 1 \in 1 .. Len(s)
    OBVIOUS
  <1> DEFINE t == Tail(s)
  <1> HIDE DEF t
  <1>2. /\ Len(s) \in Nat \ {0} /\ Len(t) = Len(s) - 1
        /\ \A i \in 1 .. Len(t) : t[i] = s[i + 1] /\ i + 1 \in 1 .. Len(s)
    BY <1>1 DEF t
  <1>3. InOrder(t)
    <2>1. \A i, j \in 1 .. Len(t) : i < j => i + 1 < j + 1
      BY <1>2
    <2> QED  BY <1>2, <2>1 DEF InOrder
  <1>4. \A i \in 1 .. Len(s) : i = 1 \/ (i - 1 \in 1 .. Len(t) /\ s[i] = t[i - 1])
    BY <1>2
  <1>5. ASSUME NEW x PROVE x \in Members(s) <=> x = s[1] \/ x \in Members(t)
    <2>1. ASSUME NEW i \in 1 .. Len(s), s[i] = x PROVE x = s[1] \/ x \in Members(t)
      BY <1>4, <2>1 DEF Members
    <2>2. ASSUME NEW i \in 1 .. Len(t), t[i] = x PROVE x \in Members(s)
      BY <1>2, <2>2 DEF Members
    <2>3. 1 \in 1 .. Len(s)
      BY <1>2
    <2> QED  BY <2>1, <2>2, <2>3 DEF Members
  <1>6. ASSUME NEW i \in 1 .. Len(t) PROVE Rank(s[1]) < Rank(t[i])
    <2>1. 1 \in 1 .. Len(s) /\ 1 < i + 1
      BY <1>2
    <2> QED  BY <1>2, <2>1 DEF InOrder
  <1> QED  BY <1>1, <1>3, <1>5, <1>6 DEF t, Members

----------------------------------------------------------------------------
(* What the operations do to the records                                   *)

\* Guarantees are given back for this reason, or nothing happens to them
GivenBack(r) ==
    \A g \in Guarantees :
        \/ book'[g] = book[g] /\ guarantee'[g] = guarantee[g]
        \/ /\ g \in Outstanding(guarantee)
           /\ book'[g] = "released"
           /\ guarantee'[g] = [status |-> "RELEASED", why |-> r]

RecordsTyped ==
    /\ book' \in [Guarantees -> Books]
    /\ guarantee' \in [Guarantees -> [status : Statuses, why : Reasons]]

LEMMA Releases ==
    ASSUME Typed, NEW g \in Guarantees, NEW r \in Reasons, Released(g, r)
    PROVE  /\ RecordsTyped /\ GivenBack(r)
           /\ g \in Outstanding(guarantee) => guarantee'[g].status = "RELEASED"
           /\ \A h \in Guarantees : h # g => guarantee'[h] = guarantee[h]
  <1>1. /\ book \in [Guarantees -> Books]
        /\ guarantee \in [Guarantees -> [status : Statuses, why : Reasons]]
        /\ "released" \in Books
        /\ [status |-> "RELEASED", why |-> r] \in [status : Statuses, why : Reasons]
    BY DEF Typed, Books, Statuses
  <1>2. CASE g \in Outstanding(guarantee)
    <2>1. /\ book' = [book EXCEPT ![g] = "released"]
          /\ guarantee' = [guarantee EXCEPT ![g] = [status |-> "RELEASED", why |-> r]]
      BY <1>2 DEF Released
    <2> QED  BY <1>1, <1>2, <2>1 DEF RecordsTyped, GivenBack
  <1>3. CASE g \notin Outstanding(guarantee)
    <2>1. book' = book /\ guarantee' = guarantee
      BY <1>3 DEF Released
    <2> QED  BY <1>1, <1>3, <2>1 DEF RecordsTyped, GivenBack
  <1> QED  BY <1>2, <1>3

\* Claim k is written over, or is a new one
Put(cs, k, c) == [i \in 1 .. Len(cs) \cup {k} |-> IF i # k THEN cs[i] ELSE c]

LEMMA ClaimPut ==
    ASSUME NEW cs \in Seq(Claim), NEW k \in 1 .. Len(cs) + 1, NEW c \in Claim
    PROVE  /\ Put(cs, k, c) \in Seq(Claim)
           /\ Len(Put(cs, k, c)) = IF k > Len(cs) THEN k ELSE Len(cs)
           /\ Put(cs, k, c)[k] = c
           /\ \A i \in 1 .. Len(cs) : i # k => Put(cs, k, c)[i] = cs[i]
  <1> DEFINE new == Put(cs, k, c)
  <1> DEFINE n == IF k > Len(cs) THEN k ELSE Len(cs)
  <1>1. Len(cs) \in Nat /\ \A i \in 1 .. Len(cs) : cs[i] \in Claim
    OBVIOUS
  <1>2. n \in Nat /\ 1 .. Len(cs) \cup {k} = 1 .. n
    BY <1>1
  <1> HIDE DEF n, new
  <1>3. \A i \in 1 .. n : i # k => i \in 1 .. Len(cs)
    BY <1>2
  <1>4. new = [i \in 1 .. n |-> IF i # k THEN cs[i] ELSE c]
    BY <1>2 DEF new, Put
  <1>5. new \in [1 .. n -> Claim]
    BY <1>1, <1>3, <1>4
  <1>6. new \in Seq(Claim) /\ Len(new) = n
    BY <1>2, <1>5
  <1>7. k \in 1 .. n /\ \A i \in 1 .. Len(cs) : i \in 1 .. n
    BY <1>2
  <1> QED  BY <1>4, <1>6, <1>7 DEF n, new

\* The claim as it is settled: paid, or not
Pays(d, covered) == covered /\ Payable(d.payout)

SettledAs(k, d, covered) ==
    [d EXCEPT !.status = IF Pays(d, covered) THEN "PAID"
                         ELSE IF covered THEN "DEFERRED" ELSE "DENIED",
              !.paid = IF ~Pays(d, covered) THEN "no"
                       ELSE IF k > Len(claims) THEN "filed" ELSE "later"]

LEMMA Settles ==
    ASSUME Typed, NEW k \in 1 .. Len(claims) + 1, NEW d \in Claim,
           NEW covered \in BOOLEAN, Settle(k, d, covered)
    PROVE  /\ claims' \in Seq(Claim)
           /\ Len(claims') = IF k > Len(claims) THEN k ELSE Len(claims)
           /\ \A i \in 1 .. Len(claims) : i # k => claims'[i] = claims[i]
           /\ claims'[k].of = d.of /\ claims'[k].payout = d.payout
           /\ claims'[k].by = d.by
           /\ claims'[k].status = (IF Pays(d, covered) THEN "PAID"
                                   ELSE IF covered THEN "DEFERRED" ELSE "DENIED")
           /\ claims'[k].paid = (IF ~Pays(d, covered) THEN "no"
                                 ELSE IF k > Len(claims) THEN "filed" ELSE "later")
           /\ IF Pays(d, covered)
              THEN /\ reserve' = [reserve EXCEPT !.payouts = @ + d.payout]
                   /\ Released(d.of, "claim")
              ELSE reserve' = reserve /\ book' = book /\ guarantee' = guarantee
           /\ RecordsTyped /\ GivenBack("claim") /\ reserve' \in Reserve
  <1>1. /\ claims \in Seq(Claim) /\ reserve \in Reserve
        /\ d.of \in Guarantees /\ d.payout \in Nat
    BY DEF Typed, Claim
  <1> DEFINE c == SettledAs(k, d, covered)
  <1>2. /\ c \in Claim /\ c.of = d.of /\ c.payout = d.payout /\ c.by = d.by
        /\ c.status = (IF Pays(d, covered) THEN "PAID"
                       ELSE IF covered THEN "DEFERRED" ELSE "DENIED")
        /\ c.paid = (IF ~Pays(d, covered) THEN "no"
                     ELSE IF k > Len(claims) THEN "filed" ELSE "later")
    BY DEF SettledAs, Claim
  <1>3. claims' = Put(claims, k, c)
    BY DEF Settle, SettledAs, Pays, Put
  <1> HIDE DEF c
  <1>4. /\ claims' \in Seq(Claim) /\ claims'[k] = c
        /\ Len(claims') = IF k > Len(claims) THEN k ELSE Len(claims)
        /\ \A i \in 1 .. Len(claims) : i # k => claims'[i] = claims[i]
    BY <1>1, <1>2, <1>3, ClaimPut, SMTT(60)
  <1>5. IF Pays(d, covered)
        THEN /\ reserve' = [reserve EXCEPT !.payouts = @ + d.payout]
             /\ Released(d.of, "claim")
        ELSE reserve' = reserve /\ book' = book /\ guarantee' = guarantee
    BY DEF Settle, Pays
  <1>6. RecordsTyped /\ GivenBack("claim") /\ reserve' \in Reserve
    <2>1. CASE Pays(d, covered)
      <3>1. "claim" \in Reasons
        BY DEF Reasons
      <3>2. RecordsTyped /\ GivenBack("claim")
        BY <1>1, <1>5, <2>1, <3>1, Releases
      <3>3. reserve' \in Reserve
        BY <1>1, <1>5, <2>1, SMTT(60) DEF Reserve
      <3> QED  BY <3>2, <3>3
    <2>2. CASE ~Pays(d, covered)
      <3>1. RecordsTyped
        BY <1>5, <2>2 DEF RecordsTyped, Typed
      <3>2. GivenBack("claim")
        BY <1>5, <2>2 DEF GivenBack
      <3> QED  BY <1>1, <1>5, <2>2, <3>1, <3>2
    <2> QED  BY <2>1, <2>2
  <1> QED  BY <1>2, <1>4, <1>5, <1>6

LEMMA ClaimOf ==
    ASSUME NEW cs \in Seq(Claim)
    PROVE  /\ Len(cs) \in Nat
           /\ \A k \in 1 .. Len(cs) : cs[k] \in Claim /\ cs[k].of \in Guarantees
  <1>1. Len(cs) \in Nat /\ \A k \in 1 .. Len(cs) : cs[k] \in Claim
    OBVIOUS
  <1>2. \A c \in Claim : c.of \in Guarantees
    BY DEF Claim
  <1> QED  BY <1>1, <1>2

LEMMA NewClaim ==
    ASSUME Typed, NEW g \in Guarantees, NEW amount \in Amounts, NEW covered \in BOOLEAN
    PROVE  /\ Capped(g, amount) \in Nat /\ Capped(g, amount) <= Covered[g]
           /\ [of |-> g, payout |-> IF covered THEN Capped(g, amount) ELSE 0,
               status |-> "DENIED", by |-> "rules", paid |-> "no"] \in Claim
  <1>1. /\ amount \in Nat /\ Covered[g] \in Nat
    OBVIOUS
  <1>2. Capped(g, amount) \in Nat /\ Capped(g, amount) <= Covered[g]
    BY <1>1 DEF Capped
  <1> QED  BY <1>2 DEF Claim

LEMMA DecidedClaim ==
    ASSUME Typed, NEW k \in 1 .. Len(claims), NEW amount \in Amounts, NEW covered \in BOOLEAN
    PROVE  /\ claims[k] \in Claim
           /\ [claims[k] EXCEPT !.by = "ops", !.payout =
                 IF covered THEN Capped(claims[k].of, amount) ELSE 0] \in Claim
  <1>1. claims[k] \in Claim
    BY DEF Typed
  <1>2. claims[k].of \in Guarantees
    BY <1>1 DEF Claim
  <1>3. Capped(claims[k].of, amount) \in Nat
    BY <1>2, NewClaim
  <1> QED  BY <1>1, <1>3 DEF Claim

\* A filed claim as the engine settles it
Filed(g, payout) == [of |-> g, payout |-> payout,
                     status |-> "DENIED", by |-> "rules", paid |-> "no"]

LEMMA FileClaims ==
    ASSUME Typed, NEW g \in Guarantees, NEW amount \in Amounts, NEW barred \in BOOLEAN,
           FileClaim(g, amount, barred)
    PROVE  /\ Serving /\ Len(claims) < MaxClaims /\ g \in committed
           /\ Len(claims) + 1 \in 1 .. Len(claims) + 1
           /\ \E d \in Claim, covered \in BOOLEAN :
                /\ d.of = g /\ d.by = "rules" /\ (covered => g \in Outstanding(guarantee))
                /\ d.payout <= Covered[g]
                /\ Settle(Len(claims) + 1, d, covered)
           /\ pending' = Booked \o Recorded(Len(claims) + 1)
           /\ UNCHANGED <<disk, settling, venueVars, chain, crashes>>
  <1> DEFINE covered == RulesCover(g, barred)
  <1> DEFINE payout == IF covered THEN Capped(g, amount) ELSE 0
  <1>1. /\ Serving /\ Len(claims) < MaxClaims /\ g \in committed
        /\ Settle(Len(claims) + 1, Filed(g, payout), covered)
        /\ pending' = Booked \o Recorded(Len(claims) + 1)
        /\ UNCHANGED <<disk, settling, venueVars, chain, crashes>>
    BY DEF FileClaim, Filed
  <1>2. covered \in BOOLEAN /\ (covered => g \in Outstanding(guarantee))
    BY DEF RulesCover
  <1> HIDE DEF covered
  <1>3. Filed(g, payout) \in Claim
    BY <1>2, NewClaim DEF Filed
  <1>4. payout \in Nat /\ payout <= Covered[g]
    <2>1. Covered[g] \in Nat
      OBVIOUS
    <2>2. Capped(g, amount) \in Nat /\ Capped(g, amount) <= Covered[g]
      BY <1>2, NewClaim
    <2> QED  BY <1>2, <2>1, <2>2
  <1>5. Filed(g, payout).of = g /\ Filed(g, payout).by = "rules" /\ Filed(g, payout).payout = payout
    BY DEF Filed
  <1>6. Len(claims) \in Nat
    BY DEF Typed
  <1>7. Len(claims) + 1 \in 1 .. Len(claims) + 1
    BY <1>6
  <1> HIDE DEF payout
  <1>8. \E d \in Claim, c \in BOOLEAN :
           /\ d.of = g /\ d.by = "rules" /\ (c => g \in Outstanding(guarantee))
           /\ d.payout <= Covered[g]
           /\ Settle(Len(claims) + 1, d, c)
    BY <1>1, <1>2, <1>3, <1>4, <1>5
  <1> QED  BY <1>1, <1>7, <1>8

LEMMA TypedInit == Init => Typed
  <1> SUFFICES ASSUME Init PROVE Typed
    OBVIOUS
  <1>1. /\ claims = <<>> /\ chain = <<>> /\ pending = <<>>
        /\ book \in [Guarantees -> Books]
        /\ guarantee \in [Guarantees -> [status : Statuses, why : Reasons]]
        /\ reserve \in Reserve /\ disk = OnFile
    BY DEF Init, Books, Statuses, Reasons, Reserve
  <1>2. claims \in Seq(Claim) /\ Len(claims) = 0
    BY <1>1
  <1>3. pending \in Seq((Files \X {0}) \cup Entries) /\ chain \in Seq(Entries)
    BY <1>1
  <1>4. /\ disk \in [book : [Guarantees -> Books],
                     guarantees : [Guarantees -> [status : Statuses, why : Reasons]],
                     claims : Seq(Claim), reserve : Reserve]
        /\ disk.claims = claims
    BY <1>1, <1>2 DEF OnFile
  <1>5. /\ settling \in 0 .. MaxClaims + 1 /\ crashes \in 0 .. MaxCrashes
        /\ journal \in [Guarantees -> {"none", "COMMIT", "VOID"}]
        /\ committed \subseteq Guarantees /\ voided \subseteq committed
        /\ overdue \subseteq Guarantees
    BY DEF Init
  <1> QED  BY <1>1, <1>2, <1>3, <1>4, <1>5 DEF Typed

\* The type invariant is inductive: an operation changes the records by one guarantee
\* or one claim, and what is written has the type of what it is written from
LEMMA TypedNext == Typed /\ [Next]_vars => Typed'
  <1> SUFFICES ASSUME Typed, [Next]_vars PROVE Typed'
    OBVIOUS
  <1>0. /\ Booked \in Seq((Files \X {0}) \cup Entries)
        /\ Persisted \in Seq((Files \X {0}) \cup Entries)
        /\ <<>> \in Seq((Files \X {0}) \cup Entries)
    BY FilesWritten DEF Writes
  <1> DEFINE Held == [Guarantees -> [status : Statuses, why : Reasons]]
  <1>a. ASSUME NEW g \in Guarantees, Commit(g) PROVE Typed'
    BY <1>a DEF Commit, Typed, engineVars
  <1>b. ASSUME NEW g \in Guarantees, Attach(g) PROVE Typed'
    <2>1. /\ book' = [book EXCEPT ![g] = IF @ = "none" THEN "held" ELSE @]
          /\ guarantee' = [guarantee EXCEPT ![g].status = "ATTACHED"]
          /\ reserve' = [reserve EXCEPT !.premiums = @ + Premium] /\ pending' = Booked
          /\ UNCHANGED <<claims, disk, settling, journal, committed, voided, overdue,
                         chain, crashes>>
      BY <1>b DEF Attach, venueVars
    <2>2. book' \in [Guarantees -> Books] /\ guarantee' \in Held
      BY <2>1, ZenonT(60) DEF Typed, Books, Statuses
    <2>3. reserve' \in Reserve
      <3>1. reserve \in Reserve /\ Premium \in Nat
        BY DEF Typed
      <3> QED  BY <2>1, <3>1 DEF Reserve
    <2> QED  BY <1>0, <2>1, <2>2, <2>3 DEF Typed
  <1>c. ASSUME NEW g \in Guarantees, Complete(g) PROVE Typed'
    <2>1. /\ guarantee' = [guarantee EXCEPT ![g].status = "CLAIMABLE"]
          /\ pending' = Persisted
          /\ UNCHANGED <<book, reserve, claims, disk, settling, journal, committed, voided,
                         overdue, chain, crashes>>
      BY <1>c DEF Complete, venueVars
    <2>2. guarantee' \in Held
      BY <2>1, ZenonT(60) DEF Typed, Statuses
    <2> QED  BY <1>0, <2>1, <2>2 DEF Typed
  <1>d. ASSUME NEW g \in Guarantees, Void(g) PROVE Typed'
    BY <1>d DEF Void, Typed, engineVars
  <1>e. ASSUME NEW g \in Guarantees, Release(g) PROVE Typed'
    <2>1. /\ Released(g, "void") /\ "void" \in Reasons /\ pending' = Booked
          /\ UNCHANGED <<reserve, claims, disk, settling, journal, committed, voided,
                         overdue, chain, crashes>>
      BY <1>e DEF Release, venueVars, Reasons
    <2>2. RecordsTyped
      BY <2>1, Releases
    <2> QED  BY <1>0, <2>1, <2>2 DEF Typed, RecordsTyped
  <1>f. ASSUME NEW g \in Guarantees, DeleteJournal(g) PROVE Typed'
    BY <1>f DEF DeleteJournal, Typed, engineVars
  <1>g. ASSUME NEW g \in Guarantees, WindowPasses(g) PROVE Typed'
    BY <1>g DEF WindowPasses, Typed, engineVars
  <1>h. ASSUME NEW g \in Guarantees, ExpireClaimWindow(g) PROVE Typed'
    <2>1. /\ Released(g, "window") /\ "window" \in Reasons /\ pending' = Booked
          /\ UNCHANGED <<reserve, claims, disk, settling, journal, committed, voided,
                         overdue, chain, crashes>>
      BY <1>h DEF ExpireClaimWindow, venueVars, Reasons
    <2>2. RecordsTyped
      BY <2>1, Releases
    <2> QED  BY <1>0, <2>1, <2>2 DEF Typed, RecordsTyped
  <1>i. ASSUME NEW g \in Guarantees, NEW amount \in Amounts, NEW barred \in BOOLEAN,
               FileClaim(g, amount, barred)
        PROVE  Typed'
    <2> DEFINE n == Len(claims) + 1
    <2>1. /\ n \in 1 .. Len(claims) + 1 /\ Len(claims) < MaxClaims
          /\ \E d \in Claim, covered \in BOOLEAN : Settle(n, d, covered)
          /\ pending' = Booked \o Recorded(n)
          /\ UNCHANGED <<disk, settling, journal, committed, voided, overdue, chain, crashes>>
      BY <1>i, FileClaims DEF venueVars
    <2>2. Len(claims) \in Nat
      BY DEF Typed
    <2>3. n \in Nat /\ n > Len(claims) /\ n <= MaxClaims
      BY <2>1, <2>2
    <2>4. pending' \in Seq((Files \X {0}) \cup Entries)
      <3>1. Recorded(n) = <<<<"CLAIM", n>>, <<"PAYOUT", n>>>> \/ Recorded(n) = <<<<"CLAIM", n>>>>
        BY DEF Recorded
      <3> HIDE DEF n
      <3> QED  BY <2>1, <2>3, <3>1, FiledWritten DEF Writes
    <2> HIDE DEF n
    <2>5. PICK d \in Claim, covered \in BOOLEAN : Settle(n, d, covered)
      BY <2>1
    <2>6. claims' \in Seq(Claim) /\ Len(claims') = n /\ RecordsTyped /\ reserve' \in Reserve
      BY <2>1, <2>3, <2>5, Settles, SMTT(60)
    <2> QED  BY <2>1, <2>3, <2>4, <2>6 DEF Typed, RecordsTyped
  <1>j. ASSUME NEW k \in 1 .. MaxClaims, NEW covered \in BOOLEAN, NEW amount \in Amounts,
               DecideClaim(k, covered, amount)
        PROVE  Typed'
    <2> DEFINE d == [claims[k] EXCEPT !.by = "ops", !.payout =
                       IF covered THEN Capped(claims[k].of, amount) ELSE 0]
    <2>1. /\ k \in 1 .. Len(claims) /\ Settle(k, d, covered) /\ pending' = Booked
          /\ UNCHANGED <<disk, settling, journal, committed, voided, overdue, chain, crashes>>
      BY <1>j DEF DecideClaim, venueVars
    <2>2. d \in Claim
      BY <2>1, DecidedClaim
    <2> HIDE DEF d
    <2>3. Len(claims) \in Nat /\ Len(claims) <= MaxClaims
      BY DEF Typed
    <2>4. k \in 1 .. Len(claims) + 1 /\ ~(k > Len(claims))
      BY <2>1, <2>3
    <2>5. /\ claims' \in Seq(Claim) /\ Len(claims') = Len(claims)
          /\ RecordsTyped /\ reserve' \in Reserve
      BY <2>1, <2>2, <2>4, Settles
    <2> QED  BY <1>0, <2>1, <2>3, <2>5 DEF Typed, RecordsTyped
  <1>k. ASSUME NEW usd \in Amounts, AddCapital(usd) PROVE Typed'
    <2>1. /\ reserve' = [reserve EXCEPT !.capital = @ + usd]
          /\ pending' = Persisted /\ settling' = 1
          /\ UNCHANGED <<book, guarantee, claims, disk, journal, committed, voided, overdue,
                         chain, crashes>>
      BY <1>k DEF AddCapital, venueVars
    <2>2. usd \in Nat
      OBVIOUS
    <2>3. reserve' \in Reserve
      <3>1. reserve \in Reserve
        BY DEF Typed
      <3> QED  BY <2>1, <2>2, <3>1 DEF Reserve
    <2>4. settling' \in 0 .. MaxClaims + 1
      BY <2>1
    <2> QED  BY <1>0, <2>1, <2>3, <2>4 DEF Typed
  <1>l. CASE SettleNext
    <2>1. /\ settling \in 1 .. Len(claims) /\ settling' = settling + 1
          /\ UNCHANGED <<disk, journal, committed, voided, overdue, chain, crashes>>
      BY <1>l DEF SettleNext, venueVars
    <2>2. Len(claims) \in Nat /\ Len(claims) <= MaxClaims /\ claims \in Seq(Claim)
      BY DEF Typed
    <2>3. /\ settling' \in 0 .. MaxClaims + 1 /\ settling \in 1 .. Len(claims) + 1
          /\ ~(settling > Len(claims))
      BY <2>1, <2>2
    <2>4. claims[settling] \in Claim
      BY <2>1, <2>2
    <2>5. CASE claims[settling].status = "DEFERRED"
      <3>1. /\ Settle(settling, claims[settling], TRUE)
            /\ pending' = IF guarantee' = guarantee THEN <<>> ELSE Booked
        BY <1>l, <2>5 DEF SettleNext
      <3>2. /\ claims' \in Seq(Claim) /\ Len(claims') = Len(claims)
            /\ RecordsTyped /\ reserve' \in Reserve
        BY <2>3, <2>4, <3>1, Settles
      <3>3. pending' \in Seq((Files \X {0}) \cup Entries)
        BY <1>0, <3>1
      <3> QED  BY <2>1, <2>2, <2>3, <3>2, <3>3 DEF Typed, RecordsTyped
    <2>6. CASE claims[settling].status # "DEFERRED"
      <3>1. UNCHANGED <<book, guarantee, claims, reserve, pending>>
        BY <1>l, <2>6 DEF SettleNext, engineVars
      <3> QED  BY <2>1, <2>3, <3>1 DEF Typed
    <2> QED  BY <2>5, <2>6
  <1>m. CASE SettleEnd
    BY <1>0, <1>m DEF SettleEnd, Typed, engineVars, venueVars
  <1>n. CASE Write
    <2>1. /\ pending # <<>> /\ pending \in Seq((Files \X {0}) \cup Entries)
          /\ pending' = Tail(pending)
          /\ UNCHANGED <<book, guarantee, claims, reserve, settling, journal, committed,
                         voided, overdue, crashes>>
      BY <1>n DEF Write, Typed, engineVars, venueVars
    <2>2. /\ Head(pending) \in (Files \X {0}) \cup Entries
          /\ pending' \in Seq((Files \X {0}) \cup Entries)
      BY <2>1
    <2>3. CASE Head(pending)[1] \in Files
      <3>1. disk' = [disk EXCEPT ![Head(pending)[1]] = OnFile[Head(pending)[1]]] /\ chain' = chain
        BY <1>n, <2>3 DEF Write
      <3>2. /\ disk' \in [book : [Guarantees -> Books], guarantees : Held,
                          claims : Seq(Claim), reserve : Reserve]
            /\ Len(disk'.claims) <= MaxClaims
        <4> DEFINE f == Head(pending)[1]
        <4>1. f \in {"book", "guarantees", "claims", "reserve"}
          BY <2>3 DEF Files
        <4> HIDE DEF f
        <4>2. disk' = [disk EXCEPT ![f] = OnFile[f]]
          BY <3>1 DEF f
        <4>3. CASE f = "book"
          BY <4>2, <4>3 DEF Typed, OnFile
        <4>4. CASE f = "guarantees"
          BY <4>2, <4>4 DEF Typed, OnFile
        <4>5. CASE f = "claims"
          BY <4>2, <4>5 DEF Typed, OnFile
        <4>6. CASE f = "reserve"
          BY <4>2, <4>6 DEF Typed, OnFile
        <4> QED  BY <4>1, <4>3, <4>4, <4>5, <4>6
      <3> QED  BY <2>1, <2>2, <3>1, <3>2 DEF Typed
    <2>4. CASE Head(pending)[1] \notin Files
      <3>1. chain' = Append(chain, Head(pending)) /\ disk' = disk
        BY <1>n, <2>4 DEF Write
      <3>2. Head(pending) \in Entries
        BY <2>2, <2>4
      <3>3. chain \in Seq(Entries)
        BY DEF Typed
      <3>4. chain' \in Seq(Entries)
        BY <3>1, <3>2, <3>3
      <3> QED  BY <2>1, <2>2, <3>1, <3>4 DEF Typed
    <2> QED  BY <2>3, <2>4
  <1>o. CASE Crash
    <2>1. /\ book' = disk.book /\ guarantee' = disk.guarantees /\ claims' = disk.claims
          /\ reserve' = disk.reserve /\ pending' = <<>> /\ settling' = 0
          /\ crashes' = crashes + 1 /\ crashes < MaxCrashes
          /\ UNCHANGED <<disk, journal, committed, voided, overdue, chain>>
      BY <1>o DEF Crash, venueVars
    <2>2. crashes' \in 0 .. MaxCrashes /\ settling' \in 0 .. MaxClaims + 1
      BY <2>1 DEF Typed
    <2>3. /\ book' \in [Guarantees -> Books] /\ guarantee' \in Held
          /\ claims' \in Seq(Claim) /\ Len(claims') <= MaxClaims /\ reserve' \in Reserve
      BY <2>1 DEF Typed
    <2> QED  BY <1>0, <2>1, <2>2, <2>3 DEF Typed
  <1>p. CASE UNCHANGED vars
    BY <1>p DEF Typed, vars, engineVars, venueVars
  <1> QED
    BY <1>a, <1>b, <1>c, <1>d, <1>e, <1>f, <1>g, <1>h, <1>i, <1>j, <1>k, <1>l, <1>m,
       <1>n, <1>o, <1>p DEF Next

----------------------------------------------------------------------------
(* Three kinds of steps, besides a crash                                   *)

\* Only the venue's records change: its journal, its ledger, the clock
VenueOnly == UNCHANGED <<book, guarantee, claims, reserve, disk, pending, settling,
                         chain, crashes>>

\* An operation of the engine, and what it leaves to be written
Operated ==
    /\ pending = <<>>
    /\ UNCHANGED <<disk, chain, crashes, committed>>
    /\ \/ pending' = Booked /\ Len(claims') = Len(claims)
       \/ pending' = Persisted /\ book' = book /\ Len(claims') = Len(claims)
       \/ /\ pending' = <<>> /\ book' = book /\ guarantee' = guarantee
          /\ settling # 0 /\ settling' # 0 /\ Len(claims') = Len(claims)
       \/ /\ pending' = Booked \o Recorded(Len(claims) + 1)
          /\ settling = 0 /\ settling' = 0
          /\ Len(claims') = Len(claims) + 1 /\ Len(claims) < MaxClaims

LEMMA Steps ==
    ASSUME Typed, Next
    PROVE  VenueOnly \/ Operated \/ Write \/ Crash
  <1>a. ASSUME NEW g \in Guarantees, Commit(g) PROVE VenueOnly
    BY <1>a DEF Commit, VenueOnly, engineVars
  <1>b. ASSUME NEW g \in Guarantees, Attach(g) PROVE Operated
    BY <1>b DEF Attach, Operated, venueVars
  <1>c. ASSUME NEW g \in Guarantees, Complete(g) PROVE Operated
    BY <1>c DEF Complete, Operated, venueVars, Serving, Quiet
  <1>d. ASSUME NEW g \in Guarantees, Void(g) PROVE VenueOnly
    BY <1>d DEF Void, VenueOnly, engineVars
  <1>e. ASSUME NEW g \in Guarantees, Release(g) PROVE Operated
    BY <1>e DEF Release, Operated, venueVars
  <1>f. ASSUME NEW g \in Guarantees, DeleteJournal(g) PROVE VenueOnly
    BY <1>f DEF DeleteJournal, VenueOnly, engineVars
  <1>g. ASSUME NEW g \in Guarantees, WindowPasses(g) PROVE VenueOnly
    BY <1>g DEF WindowPasses, VenueOnly, engineVars
  <1>h. ASSUME NEW g \in Guarantees, ExpireClaimWindow(g) PROVE Operated
    BY <1>h DEF ExpireClaimWindow, Operated, venueVars, Serving, Quiet
  <1>i. ASSUME NEW g \in Guarantees, NEW amount \in Amounts, NEW barred \in BOOLEAN,
               FileClaim(g, amount, barred)
        PROVE  Operated
    <2> DEFINE n == Len(claims) + 1
    <2>1. /\ Serving /\ n \in 1 .. Len(claims) + 1 /\ Len(claims) < MaxClaims
          /\ \E d \in Claim, covered \in BOOLEAN : Settle(n, d, covered)
          /\ pending' = Booked \o Recorded(n)
          /\ UNCHANGED <<disk, settling, committed, chain, crashes>>
      BY <1>i, FileClaims DEF venueVars
    <2>2. n > Len(claims)
      BY DEF Typed
    <2> HIDE DEF n
    <2>3. Len(claims') = n
      BY <2>1, <2>2, Settles
    <2> QED  BY <2>1, <2>3 DEF n, Operated, Serving, Quiet
  <1>j. ASSUME NEW k \in 1 .. MaxClaims, NEW covered \in BOOLEAN, NEW amount \in Amounts,
               DecideClaim(k, covered, amount)
        PROVE  Operated
    <2> DEFINE d == [claims[k] EXCEPT !.by = "ops", !.payout =
                       IF covered THEN Capped(claims[k].of, amount) ELSE 0]
    <2>1. /\ Serving /\ k \in 1 .. Len(claims) /\ Settle(k, d, covered) /\ pending' = Booked
          /\ UNCHANGED <<disk, settling, committed, chain, crashes>>
      BY <1>j DEF DecideClaim, venueVars
    <2>2. d \in Claim
      BY <2>1, DecidedClaim
    <2> HIDE DEF d
    <2>3. k \in 1 .. Len(claims) + 1 /\ ~(k > Len(claims))
      BY <2>1 DEF Typed
    <2>4. Len(claims') = Len(claims)
      BY <2>2, <2>1, <2>3, Settles
    <2> QED  BY <2>1, <2>4 DEF Operated, Serving, Quiet
  <1>k. ASSUME NEW usd \in Amounts, AddCapital(usd) PROVE Operated
    BY <1>k DEF AddCapital, Operated, venueVars, Serving, Quiet
  <1>l. CASE SettleNext
    <2>1. /\ settling \in 1 .. Len(claims) /\ settling' = settling + 1 /\ pending = <<>>
          /\ UNCHANGED <<disk, committed, chain, crashes>>
      BY <1>l DEF SettleNext, venueVars
    <2>2. Len(claims) \in Nat /\ claims \in Seq(Claim)
      BY DEF Typed
    <2>3. /\ settling \in 1 .. Len(claims) + 1 /\ ~(settling > Len(claims))
          /\ settling # 0 /\ settling' # 0
      BY <2>1, <2>2
    <2>4. CASE claims[settling].status = "DEFERRED"
      <3>1. /\ Settle(settling, claims[settling], TRUE)
            /\ pending' = IF guarantee' = guarantee THEN <<>> ELSE Booked
        BY <1>l, <2>4 DEF SettleNext
      <3>2. claims[settling] \in Claim
        BY <2>1, <2>2
      <3>3. Len(claims') = Len(claims) /\ GivenBack("claim") /\ RecordsTyped
        BY <2>3, <3>1, <3>2, Settles
      <3>4. guarantee' = guarantee => book' = book
        <4>1. ASSUME NEW g \in Guarantees, guarantee' = guarantee PROVE book'[g] = book[g]
          BY <3>3, <4>1 DEF GivenBack, Outstanding
        <4> QED  BY <3>3, <4>1 DEF RecordsTyped, Typed
      <3> QED  BY <2>1, <2>3, <3>1, <3>3, <3>4 DEF Operated
    <2>5. CASE claims[settling].status # "DEFERRED"
      <3>1. UNCHANGED <<book, guarantee, claims, reserve, pending>>
        BY <1>l, <2>5 DEF SettleNext, engineVars
      <3> QED  BY <2>1, <2>3, <3>1 DEF Operated
    <2> QED  BY <2>4, <2>5
  <1>m. CASE SettleEnd
    BY <1>m DEF SettleEnd, Operated, engineVars, venueVars
  <1> QED
    BY <1>a, <1>b, <1>c, <1>d, <1>e, <1>f, <1>g, <1>h, <1>i, <1>j, <1>k, <1>l, <1>m
    DEF Next

\* Writing the first of what is to be written
LEMMA Writing ==
    ASSUME Typed, WriteInv, Write
    PROVE  /\ pending \in Seq(Writes) /\ pending # <<>> /\ InOrder(pending)
           /\ pending' = Tail(pending) /\ InOrder(pending')
           /\ Members(pending) = {Head(pending)} \cup Members(pending')
           /\ \A x \in Members(pending') : Rank(Head(pending)) < Rank(x)
           /\ UNCHANGED <<book, guarantee, claims, reserve, settling, journal, committed,
                          voided, overdue, crashes>>
           /\ \/ Head(pending) = <<"book", 0>> /\ chain' = chain
                 /\ disk' = [disk EXCEPT !.book = book]
              \/ Head(pending) = <<"guarantees", 0>> /\ chain' = chain
                 /\ disk' = [disk EXCEPT !.guarantees = guarantee]
              \/ Head(pending) = <<"claims", 0>> /\ chain' = chain
                 /\ disk' = [disk EXCEPT !.claims = claims]
              \/ Head(pending) = <<"reserve", 0>> /\ chain' = chain
                 /\ disk' = [disk EXCEPT !.reserve = reserve]
              \/ /\ Head(pending) \in Entries
                 /\ chain' = Append(chain, Head(pending)) /\ disk' = disk
  <1>1. /\ pending \in Seq(Writes) /\ pending # <<>> /\ InOrder(pending)
        /\ pending' = Tail(pending)
        /\ UNCHANGED <<book, guarantee, claims, reserve, settling, journal, committed,
                       voided, overdue, crashes>>
    BY DEF Write, Typed, Writes, WriteInv, engineVars, venueVars
  <1>2. /\ Head(pending) \in Writes /\ InOrder(pending')
        /\ Members(pending) = {Head(pending)} \cup Members(pending')
        /\ \A x \in Members(pending') : Rank(Head(pending)) < Rank(x)
    <2>1. ASSUME NEW s, s = pending, NEW t, t = pending'
          PROVE  /\ Head(s) \in Writes /\ InOrder(t)
                 /\ Members(s) = {Head(s)} \cup Members(t)
                 /\ \A x \in Members(t) : Rank(Head(s)) < Rank(x)
      BY <1>1, <2>1, FirstWritten
    <2> QED  BY <2>1
  <1>3. \/ /\ Head(pending) \in Files \X {0} /\ Head(pending)[1] \in Files /\ chain' = chain
           /\ disk' = [disk EXCEPT ![Head(pending)[1]] = OnFile[Head(pending)[1]]]
        \/ /\ Head(pending) \in Entries
           /\ chain' = Append(chain, Head(pending)) /\ disk' = disk
    <2>1. Head(pending) \in Entries => Head(pending)[1] \notin Files
      BY DEF Entries, Files
    <2>2. Head(pending) \in Files \X {0} => Head(pending)[1] \in Files
      OBVIOUS
    <2> QED  BY <1>2, <2>1, <2>2 DEF Write, Writes
  <1>4. CASE Head(pending) \in Entries
    <2>1. Head(pending)[1] \notin Files
      BY <1>4 DEF Entries, Files
    <2> QED  BY <1>1, <1>2, <1>3, <1>4, <2>1
  <1>5. CASE Head(pending) \in Files \X {0}
    <2>1. Head(pending) \notin Entries
      BY <1>5 DEF Entries, Files
    <2>2. /\ Head(pending)[1] \in {"book", "guarantees", "claims", "reserve"} /\ chain' = chain
          /\ Head(pending) = <<Head(pending)[1], 0>>
          /\ disk' = [disk EXCEPT ![Head(pending)[1]] = OnFile[Head(pending)[1]]]
      BY <1>3, <1>5, <2>1 DEF Files
    <2>3. ASSUME NEW f \in {"book", "guarantees", "claims", "reserve"}, f = Head(pending)[1]
          PROVE  /\ Head(pending) = <<f, 0>>
                 /\ \/ f = "book" /\ disk' = [disk EXCEPT !.book = book]
                    \/ f = "guarantees" /\ disk' = [disk EXCEPT !.guarantees = guarantee]
                    \/ f = "claims" /\ disk' = [disk EXCEPT !.claims = claims]
                    \/ f = "reserve" /\ disk' = [disk EXCEPT !.reserve = reserve]
      <3>1. disk' = [disk EXCEPT ![f] = OnFile[f]] /\ Head(pending) = <<f, 0>>
        BY <2>2, <2>3
      <3>2. /\ OnFile["book"] = book /\ OnFile["guarantees"] = guarantee
            /\ OnFile["claims"] = claims /\ OnFile["reserve"] = reserve
        BY DEF OnFile
      <3>3. CASE f = "book"
        BY <3>1, <3>2, <3>3
      <3>4. CASE f = "guarantees"
        BY <3>1, <3>2, <3>4
      <3>5. CASE f = "claims"
        BY <3>1, <3>2, <3>5
      <3>6. CASE f = "reserve"
        BY <3>1, <3>2, <3>6
      <3> QED  BY <2>3, <3>3, <3>4, <3>5, <3>6
    <2> QED  BY <1>1, <1>2, <2>2, <2>3
  <1> QED  BY <1>3, <1>4, <1>5

----------------------------------------------------------------------------
(* What is not waiting to be written is on disk                            *)

LEMMA RecordedIs ==
    ASSUME NEW k \in Nat
    PROVE  \/ Recorded(k) = <<<<"CLAIM", k>>>>
           \/ /\ Recorded(k) = <<<<"CLAIM", k>>, <<"PAYOUT", k>>>>
              /\ claims'[k].status = "PAID"
  BY DEF Recorded

LEMMA WriteInit == Init => WriteInv
  <1> SUFFICES ASSUME Init PROVE WriteInv
    OBVIOUS
  <1>1. Len(pending) = 0 /\ pending = <<>>
    BY DEF Init
  <1>2. \A x : ~Unwritten(x)
    BY <1>1 DEF Unwritten
  <1>3. InOrder(pending)
    BY <1>1 DEF InOrder
  <1>4. disk.book = book /\ disk.guarantees = guarantee /\ disk.claims = claims
    BY DEF Init, OnFile
  <1> QED  BY <1>2, <1>3, <1>4 DEF WriteInv

LEMMA WriteNext == Typed /\ WriteInv /\ [Next]_vars => WriteInv'
  <1> SUFFICES ASSUME Typed, WriteInv, [Next]_vars PROVE WriteInv'
    OBVIOUS
  <1>0. /\ \A x : Unwritten(x) <=> x \in Members(pending)
        /\ \A x : Unwritten(x)' <=> x \in Members(pending')
    BY DEF Unwritten, Members
  <1>1. CASE UNCHANGED vars \/ VenueOnly
    <2>1. UNCHANGED <<book, guarantee, claims, disk, pending, settling, chain>>
      BY <1>1 DEF VenueOnly, vars, engineVars, venueVars
    <2>2. \A k : OnChain("CLAIM", k)' <=> OnChain("CLAIM", k)
      BY <2>1 DEF OnChain
    <2>3. \A x : Unwritten(x)' <=> Unwritten(x)
      BY <1>0, <2>1
    <2>4. InOrder(pending')
      BY <2>1 DEF WriteInv
    <2> QED  BY <2>1, <2>2, <2>3, <2>4 DEF WriteInv
  <1>2. CASE Operated
    <2>1. pending = <<>> /\ UNCHANGED <<disk, chain>>
      BY <1>2 DEF Operated
    <2>2. \A x : ~Unwritten(x)
      BY <2>1 DEF Unwritten
    <2>3. /\ disk.book = book /\ disk.guarantees = guarantee
          /\ settling = 0 => disk.claims = claims
      BY <2>2 DEF WriteInv
    <2>4. CASE pending' = Booked \/ (pending' = Persisted /\ book' = book)
      <3>1. /\ InOrder(pending')
            /\ <<"guarantees", 0>> \in Members(pending') /\ <<"claims", 0>> \in Members(pending')
            /\ <<"book", 0>> \in Members(pending') \/ book' = book
            /\ Members(pending') \subseteq {<<"book", 0>>, <<"guarantees", 0>>,
                                            <<"claims", 0>>, <<"reserve", 0>>}
        BY <2>4, FilesWritten
      <3>2. \A k : <<"CLAIM", k>> \notin Members(pending') /\ <<"PAYOUT", k>> \notin Members(pending')
        BY <3>1
      <3> QED  BY <1>0, <2>1, <2>3, <3>1, <3>2 DEF WriteInv
    <2>5. CASE pending' = <<>> /\ book' = book /\ guarantee' = guarantee /\ settling' # 0
      <3>1. Len(pending') = 0
        BY <2>5
      <3>2. \A x : ~Unwritten(x)'
        BY <3>1 DEF Unwritten
      <3>3. InOrder(pending')
        BY <3>1 DEF InOrder
      <3> QED  BY <2>1, <2>3, <2>5, <3>2, <3>3 DEF WriteInv
    <2>6. CASE /\ pending' = Booked \o Recorded(Len(claims) + 1)
               /\ settling' = 0 /\ Len(claims') = Len(claims) + 1
      <3> DEFINE n == Len(claims) + 1
      <3>1. n \in Nat /\ n \in 1 .. n
        BY DEF Typed
      <3>2. pending' = Booked \o Recorded(n) /\ settling' = 0 /\ Len(claims') = n
        BY <2>6
      <3> HIDE DEF n
      <3>3. /\ InOrder(pending')
            /\ Members(Booked) \cup {<<"CLAIM", n>>} \subseteq Members(pending')
            /\ \/ Members(pending') = Members(Booked) \cup {<<"CLAIM", n>>}
               \/ /\ Members(pending') = Members(Booked) \cup {<<"CLAIM", n>>, <<"PAYOUT", n>>}
                  /\ claims'[n].status = "PAID"
        BY <3>1, <3>2, FiledWritten, RecordedIs, ZenonT(60)
      <3>4. Members(Booked) = {<<"book", 0>>, <<"guarantees", 0>>, <<"claims", 0>>,
                               <<"reserve", 0>>}
        BY FilesWritten
      <3>5. /\ <<"guarantees", 0>> \in Members(pending') /\ <<"claims", 0>> \in Members(pending')
            /\ <<"book", 0>> \in Members(pending')
        BY <3>3, <3>4
      <3>6. \A k : <<"CLAIM", k>> \in Members(pending') => k = n
        BY <3>3, <3>4
      <3>7. \A k : <<"PAYOUT", k>> \in Members(pending') =>
                      /\ k = n /\ claims'[n].status = "PAID"
                      /\ <<"CLAIM", k>> \in Members(pending')
        BY <3>3, <3>4
      <3> QED  BY <1>0, <3>1, <3>2, <3>3, <3>5, <3>6, <3>7 DEF WriteInv
    <2> QED  BY <1>2, <2>4, <2>5, <2>6 DEF Operated
  <1>3. CASE Write
    <2>1. /\ InOrder(pending') /\ Members(pending) = {Head(pending)} \cup Members(pending')
          /\ \A x \in Members(pending') : Rank(Head(pending)) < Rank(x)
          /\ UNCHANGED <<book, guarantee, claims, settling>>
      BY <1>3, Writing
    <2>2. disk \in [book : [Guarantees -> Books],
                    guarantees : [Guarantees -> [status : Statuses, why : Reasons]],
                    claims : Seq(Claim), reserve : Reserve]
      BY DEF Typed
    <2>3. /\ ~Unwritten(<<"book", 0>>)' => disk'.book = book
          /\ ~Unwritten(<<"guarantees", 0>>)' => disk'.guarantees = guarantee
          /\ settling = 0 /\ ~Unwritten(<<"claims", 0>>)' => disk'.claims = claims
      <3>1. CASE Head(pending) = <<"book", 0>> /\ disk' = [disk EXCEPT !.book = book]
        <4>1. disk'.book = book /\ disk'.guarantees = disk.guarantees /\ disk'.claims = disk.claims
          BY <2>2, <3>1
        <4> QED  BY <1>0, <2>1, <3>1, <4>1 DEF WriteInv
      <3>2. CASE Head(pending) = <<"guarantees", 0>> /\ disk' = [disk EXCEPT !.guarantees = guarantee]
        <4>1. disk'.book = disk.book /\ disk'.guarantees = guarantee /\ disk'.claims = disk.claims
          BY <2>2, <3>2
        <4> QED  BY <1>0, <2>1, <3>2, <4>1 DEF WriteInv
      <3>3. CASE Head(pending) = <<"claims", 0>> /\ disk' = [disk EXCEPT !.claims = claims]
        <4>1. disk'.book = disk.book /\ disk'.guarantees = disk.guarantees /\ disk'.claims = claims
          BY <2>2, <3>3
        <4> QED  BY <1>0, <2>1, <3>3, <4>1 DEF WriteInv
      <3>4. CASE Head(pending) = <<"reserve", 0>> /\ disk' = [disk EXCEPT !.reserve = reserve]
        <4>1. /\ disk'.book = disk.book /\ disk'.guarantees = disk.guarantees
              /\ disk'.claims = disk.claims
          BY <2>2, <3>4
        <4> QED  BY <1>0, <2>1, <3>4, <4>1 DEF WriteInv
      <3>5. CASE Head(pending) \in Entries /\ disk' = disk
        <4>1. /\ Head(pending) # <<"book", 0>> /\ Head(pending) # <<"guarantees", 0>>
              /\ Head(pending) # <<"claims", 0>>
          BY <3>5 DEF Entries
        <4> QED  BY <1>0, <2>1, <3>5, <4>1 DEF WriteInv
      <3> QED  BY <1>3, <3>1, <3>2, <3>3, <3>4, <3>5, Writing
    <2>4. ASSUME NEW k \in 1 .. MaxClaims
          PROVE  Unwritten(<<"CLAIM", k>>) =>
                    Unwritten(<<"CLAIM", k>>)' \/ OnChain("CLAIM", k)'
      <3>1. SUFFICES ASSUME Head(pending) = <<"CLAIM", k>> PROVE OnChain("CLAIM", k)'
        BY <1>0, <2>1
      <3>2. /\ chain' = Append(chain, Head(pending)) /\ chain \in Seq(Entries)
            /\ Head(pending) \in Entries
        BY <1>3, <3>1, Writing, SMTT(60) DEF Typed
      <3>3. chain'[Len(chain')] = <<"CLAIM", k>> /\ Len(chain') \in 1 .. Len(chain')
        BY <3>1, <3>2
      <3> QED  BY <3>3 DEF OnChain
    <2>5. ASSUME NEW k \in 1 .. MaxClaims, OnChain("CLAIM", k) PROVE OnChain("CLAIM", k)'
      <3>1. chain' = chain \/ (Head(pending) \in Entries /\ chain' = Append(chain, Head(pending)))
        BY <1>3, Writing
      <3>2. chain \in Seq(Entries)
        BY DEF Typed
      <3>3. \A i \in 1 .. Len(chain) : i \in 1 .. Len(chain') /\ chain'[i] = chain[i]
        BY <3>1, <3>2, SMTT(60)
      <3> QED  BY <2>5, <3>3 DEF OnChain
    <2>6. ASSUME NEW k \in 1 .. MaxClaims
          PROVE  /\ Unwritten(<<"CLAIM", k>>)' => Unwritten(<<"CLAIM", k>>)
                 /\ Unwritten(<<"PAYOUT", k>>)' => Unwritten(<<"PAYOUT", k>>)
      BY <1>0, <2>1
    <2> QED  BY <2>1, <2>3, <2>4, <2>5, <2>6 DEF WriteInv
  <1>4. CASE Crash
    <2>1. /\ pending' = <<>> /\ Len(pending') = 0 /\ disk'.book = book'
          /\ disk'.guarantees = guarantee' /\ disk'.claims = claims'
      BY <1>4 DEF Crash
    <2>2. \A x : ~Unwritten(x)'
      BY <2>1 DEF Unwritten
    <2>3. InOrder(pending')
      BY <2>1 DEF InOrder
    <2> QED  BY <2>1, <2>2, <2>3 DEF WriteInv
  <1> QED  BY <1>1, <1>2, <1>3, <1>4, Steps

----------------------------------------------------------------------------
(* Every commitment has its guarantee and its entry in the book            *)

BothSound == BookSound(book, guarantee) /\ BookSound(disk.book, disk.guarantees)

\* Nothing waits to be written: what holds of the guarantees holds of their file
LEMMA NothingWaits ==
    ASSUME WriteInv, pending = <<>>
    PROVE  /\ disk.book = book /\ disk.guarantees = guarantee
           /\ settling = 0 => disk.claims = claims
           /\ \A x : ~Unwritten(x)
  <1>1. \A x : ~Unwritten(x)
    BY DEF Unwritten
  <1> QED  BY <1>1 DEF WriteInv

\* The venue's records change, and a commitment without a guarantee keeps its journal
LEMMA VenueSound ==
    ASSUME BothSound, UNCHANGED <<book, guarantee, disk>>,
           \A g \in Guarantees : g \in committed => g \in committed',
           \A g \in Guarantees :
              /\ journal'[g] # "none" => g \in committed'
              /\ g \in committed' /\ guarantee[g].status = "none" => journal'[g] = "COMMIT"
              /\ g \in committed' /\ disk.guarantees[g].status = "none" => journal'[g] = "COMMIT"
    PROVE  BothSound'
  BY DEF BothSound, BookSound

LEMMA GivenBackSound ==
    ASSUME NEW r, GivenBack(r), BothSound, UNCHANGED <<disk, committed, journal>>
    PROVE  BothSound'
  <1>1. BookSound(disk.book, disk.guarantees)'
    BY DEF BothSound, BookSound
  <1>2. ASSUME NEW g \in Guarantees
        PROVE  /\ guarantee'[g].status # "none" => book'[g] # "none"
               /\ book'[g] # "none" => g \in committed
               /\ g \in committed /\ guarantee'[g].status = "none" => journal[g] = "COMMIT"
               /\ journal[g] # "none" => g \in committed
               /\ guarantee'[g].status = "RELEASED" => book'[g] # "held"
               /\ guarantee'[g].why # "none" => guarantee'[g].status = "RELEASED"
    <2>1. CASE book'[g] = book[g] /\ guarantee'[g] = guarantee[g]
      BY <2>1 DEF BothSound, BookSound
    <2>2. CASE /\ g \in Outstanding(guarantee) /\ book'[g] = "released"
               /\ guarantee'[g] = [status |-> "RELEASED", why |-> r]
      <3>1. guarantee[g].status # "none"
        BY <2>2 DEF Outstanding
      <3>2. book[g] # "none" /\ g \in committed
        BY <3>1 DEF BothSound, BookSound
      <3> QED  BY <2>2, <3>2
    <2> QED  BY <2>1, <2>2 DEF GivenBack
  <1> QED  BY <1>1, <1>2 DEF BothSound, BookSound

LEMMA SoundNext == Typed /\ WriteInv /\ BothSound /\ FilesBehind /\ [Next]_vars => BothSound'
  <1> SUFFICES ASSUME Typed, WriteInv, BothSound, FilesBehind, [Next]_vars PROVE BothSound'
    OBVIOUS
  <1>0. /\ guarantee \in [Guarantees -> [status : Statuses, why : Reasons]]
        /\ journal \in [Guarantees -> {"none", "COMMIT", "VOID"}]
        /\ book \in [Guarantees -> Books]
        /\ committed \subseteq Guarantees
        /\ disk \in [book : [Guarantees -> Books],
                     guarantees : [Guarantees -> [status : Statuses, why : Reasons]],
                     claims : Seq(Claim), reserve : Reserve]
    BY DEF Typed
  <1>a. ASSUME NEW g \in Guarantees, Commit(g) PROVE BothSound'
    <2>1. /\ committed' = committed \cup {g} /\ journal' = [journal EXCEPT ![g] = "COMMIT"]
          /\ UNCHANGED <<book, guarantee, disk>>
      BY <1>a DEF Commit, engineVars
    <2>2. ASSUME NEW h \in Guarantees
          PROVE  /\ journal'[h] # "none" => h \in committed'
                 /\ h \in committed' /\ guarantee[h].status = "none" => journal'[h] = "COMMIT"
                 /\ h \in committed' /\ disk.guarantees[h].status = "none" =>
                       journal'[h] = "COMMIT"
      BY <1>0, <2>1 DEF BothSound, BookSound
    <2> QED  BY <2>1, <2>2, VenueSound
  <1>b. ASSUME NEW g \in Guarantees, Attach(g) PROVE BothSound'
    <2>1. /\ journal[g] = "COMMIT" /\ guarantee[g].status = "none" /\ pending = <<>>
          /\ book' = [book EXCEPT ![g] = IF @ = "none" THEN "held" ELSE @]
          /\ guarantee' = [guarantee EXCEPT ![g].status = "ATTACHED"]
          /\ UNCHANGED <<disk, committed, journal>>
      BY <1>b DEF Attach, venueVars
    <2>2. /\ book'[g] # "none" /\ guarantee'[g].status = "ATTACHED"
          /\ guarantee'[g].why = guarantee[g].why
          /\ \A f \in Guarantees : f # g => book'[f] = book[f] /\ guarantee'[f] = guarantee[f]
      BY <1>0, <2>1
    <2>3. guarantee[g].why = "none" /\ g \in committed
      BY <2>1 DEF BothSound, BookSound
    <2>4. BookSound(book, guarantee)'
      BY <2>1, <2>2, <2>3 DEF BothSound, BookSound
    <2>5. BookSound(disk.book, disk.guarantees)'
      BY <2>1 DEF BothSound, BookSound
    <2> QED  BY <2>4, <2>5 DEF BothSound
  <1>c. ASSUME NEW g \in Guarantees, Complete(g) PROVE BothSound'
    <2>1. /\ guarantee[g].status = "ATTACHED"
          /\ guarantee' = [guarantee EXCEPT ![g].status = "CLAIMABLE"]
          /\ UNCHANGED <<book, disk, committed, journal>>
      BY <1>c DEF Complete, venueVars
    <2>2. /\ guarantee'[g].status = "CLAIMABLE" /\ guarantee'[g].why = guarantee[g].why
          /\ \A f \in Guarantees : f # g => guarantee'[f] = guarantee[f]
      BY <1>0, <2>1
    <2>3. BookSound(book, guarantee)'
      BY <2>1, <2>2 DEF BothSound, BookSound
    <2>4. BookSound(disk.book, disk.guarantees)'
      BY <2>1 DEF BothSound, BookSound
    <2> QED  BY <2>3, <2>4 DEF BothSound
  <1>d. ASSUME NEW g \in Guarantees, Void(g) PROVE BothSound'
    <2>1. /\ g \in committed /\ journal[g] = "none" /\ pending = <<>>
          /\ journal' = [journal EXCEPT ![g] = "VOID"]
          /\ UNCHANGED <<book, guarantee, disk, committed>>
      BY <1>d DEF Void, engineVars, Serving, Quiet
    <2>2. guarantee[g].status # "none" /\ disk.guarantees[g].status # "none"
      BY <2>1, NothingWaits DEF BothSound, BookSound
    <2>3. ASSUME NEW h \in Guarantees
          PROVE  /\ journal'[h] # "none" => h \in committed'
                 /\ h \in committed' /\ guarantee[h].status = "none" => journal'[h] = "COMMIT"
                 /\ h \in committed' /\ disk.guarantees[h].status = "none" =>
                       journal'[h] = "COMMIT"
      BY <1>0, <2>1, <2>2 DEF BothSound, BookSound
    <2> QED  BY <2>1, <2>3, VenueSound
  <1>e. ASSUME NEW g \in Guarantees, Release(g) PROVE BothSound'
    <2>1. /\ Released(g, "void") /\ "void" \in Reasons /\ UNCHANGED <<disk, committed, journal>>
      BY <1>e DEF Release, venueVars, Reasons
    <2> QED  BY <2>1, Releases, GivenBackSound
  <1>f. ASSUME NEW g \in Guarantees, DeleteJournal(g) PROVE BothSound'
    <2>1. /\ journal[g] = "VOID" \/ guarantee[g].status # "none"
          /\ pending = <<>> /\ journal[g] # "none"
          /\ journal' = [journal EXCEPT ![g] = "none"]
          /\ UNCHANGED <<book, guarantee, disk, committed>>
      BY <1>f DEF DeleteJournal, engineVars
    <2>2. g \in committed
      BY <2>1 DEF BothSound, BookSound
    <2>3. guarantee[g].status # "none" /\ disk.guarantees[g].status # "none"
      BY <2>1, <2>2, NothingWaits DEF BothSound, BookSound
    <2>4. ASSUME NEW h \in Guarantees
          PROVE  /\ journal'[h] # "none" => h \in committed'
                 /\ h \in committed' /\ guarantee[h].status = "none" => journal'[h] = "COMMIT"
                 /\ h \in committed' /\ disk.guarantees[h].status = "none" =>
                       journal'[h] = "COMMIT"
      BY <1>0, <2>1, <2>3 DEF BothSound, BookSound
    <2> QED  BY <2>1, <2>4, VenueSound
  <1>g. ASSUME NEW g \in Guarantees, WindowPasses(g) PROVE BothSound'
    BY <1>g DEF WindowPasses, engineVars, BothSound, BookSound
  <1>h. ASSUME NEW g \in Guarantees, ExpireClaimWindow(g) PROVE BothSound'
    <2>1. /\ Released(g, "window") /\ "window" \in Reasons
          /\ UNCHANGED <<disk, committed, journal>>
      BY <1>h DEF ExpireClaimWindow, venueVars, Reasons
    <2> QED  BY <2>1, Releases, GivenBackSound
  <1>i. ASSUME NEW g \in Guarantees, NEW amount \in Amounts, NEW barred \in BOOLEAN,
               FileClaim(g, amount, barred)
        PROVE  BothSound'
    <2>1. /\ Len(claims) + 1 \in 1 .. Len(claims) + 1
          /\ \E d \in Claim, covered \in BOOLEAN : Settle(Len(claims) + 1, d, covered)
          /\ UNCHANGED <<disk, committed, journal>>
      BY <1>i, FileClaims DEF venueVars
    <2>2. GivenBack("claim")
      BY <2>1, Settles
    <2> QED  BY <2>1, <2>2, GivenBackSound
  <1>j. ASSUME NEW k \in 1 .. MaxClaims, NEW covered \in BOOLEAN, NEW amount \in Amounts,
               DecideClaim(k, covered, amount)
        PROVE  BothSound'
    <2> DEFINE d == [claims[k] EXCEPT !.by = "ops", !.payout =
                       IF covered THEN Capped(claims[k].of, amount) ELSE 0]
    <2>1. /\ k \in 1 .. Len(claims) /\ Settle(k, d, covered)
          /\ UNCHANGED <<disk, committed, journal>>
      BY <1>j DEF DecideClaim, venueVars
    <2>2. d \in Claim
      BY <2>1, DecidedClaim
    <2> HIDE DEF d
    <2>3. k \in 1 .. Len(claims) + 1
      BY <2>1 DEF Typed
    <2>4. GivenBack("claim")
      BY <2>1, <2>2, <2>3, Settles
    <2> QED  BY <2>1, <2>4, GivenBackSound
  <1>k. ASSUME NEW usd \in Amounts, AddCapital(usd) PROVE BothSound'
    BY <1>k DEF AddCapital, venueVars, BothSound, BookSound
  <1>l. CASE SettleNext
    <2>1. /\ settling \in 1 .. Len(claims) /\ UNCHANGED <<disk, committed, journal>>
      BY <1>l DEF SettleNext, venueVars
    <2>2. CASE claims[settling].status = "DEFERRED"
      <3>1. Settle(settling, claims[settling], TRUE)
        BY <1>l, <2>2 DEF SettleNext
      <3>2. claims[settling] \in Claim /\ settling \in 1 .. Len(claims) + 1
        BY <2>1 DEF Typed
      <3>3. GivenBack("claim")
        BY <3>1, <3>2, Settles
      <3> QED  BY <2>1, <3>3, GivenBackSound
    <2>3. CASE claims[settling].status # "DEFERRED"
      <3>1. UNCHANGED <<book, guarantee>>
        BY <1>l, <2>3 DEF SettleNext, engineVars
      <3> QED  BY <2>1, <3>1 DEF BothSound, BookSound
    <2> QED  BY <2>2, <2>3
  <1>m. CASE SettleEnd
    BY <1>m DEF SettleEnd, engineVars, venueVars, BothSound, BookSound
  <1>n. CASE Write
    <2>1. /\ UNCHANGED <<book, guarantee, committed, journal>>
          /\ BookSound(book, guarantee)'
      <3>1. UNCHANGED <<book, guarantee, committed, journal>>
        BY <1>n, Writing
      <3> QED  BY <3>1 DEF BothSound, BookSound
    <2>2. CASE Head(pending) = <<"book", 0>> /\ disk' = [disk EXCEPT !.book = book]
      <3>1. disk'.book = book /\ disk'.guarantees = disk.guarantees
        BY <1>0, <2>2
      <3>2. ASSUME NEW g \in Guarantees
            PROVE  /\ disk.guarantees[g].status # "none" => book[g] # "none"
                   /\ disk.guarantees[g].status = "RELEASED" => book[g] # "held"
        BY DEF BothSound, BookSound, FilesBehind
      <3>3. BookSound(disk.book, disk.guarantees)'
        BY <2>1, <3>1, <3>2 DEF BothSound, BookSound
      <3> QED  BY <2>1, <3>3 DEF BothSound
    <2>3. CASE Head(pending) = <<"guarantees", 0>> /\ disk' = [disk EXCEPT !.guarantees = guarantee]
      <3>1. ~Unwritten(<<"book", 0>>)
        <4>1. /\ Members(pending) = {Head(pending)} \cup Members(pending')
              /\ \A x \in Members(pending') : Rank(Head(pending)) < Rank(x)
          BY <1>n, Writing
        <4>2. Rank(<<"book", 0>>) = 1 /\ Rank(<<"guarantees", 0>>) = 2
          BY DEF Rank
        <4>3. <<"book", 0>> \notin Members(pending)
          BY <2>3, <4>1, <4>2
        <4> QED  BY <4>3, UnwrittenIs
      <3>2. disk'.book = book /\ disk'.guarantees = guarantee
        BY <1>0, <2>3, <3>1 DEF WriteInv
      <3>3. BookSound(disk.book, disk.guarantees)'
        BY <2>1, <3>2 DEF BothSound, BookSound
      <3> QED  BY <2>1, <3>3 DEF BothSound
    <2>4. CASE disk'.book = disk.book /\ disk'.guarantees = disk.guarantees
      BY <2>1, <2>4 DEF BothSound, BookSound
    <2>5. \/ Head(pending) = <<"book", 0>> /\ disk' = [disk EXCEPT !.book = book]
          \/ Head(pending) = <<"guarantees", 0>> /\ disk' = [disk EXCEPT !.guarantees = guarantee]
          \/ disk'.book = disk.book /\ disk'.guarantees = disk.guarantees
      BY <1>0, <1>n, Writing
    <2> QED  BY <2>2, <2>3, <2>4, <2>5
  <1>o. CASE Crash
    <2>1. /\ book' = disk.book /\ guarantee' = disk.guarantees
          /\ UNCHANGED <<disk, committed, journal>>
      BY <1>o DEF Crash, venueVars
    <2> QED  BY <2>1 DEF BothSound, BookSound
  <1>p. CASE UNCHANGED vars
    BY <1>p DEF vars, engineVars, venueVars, BothSound, BookSound
  <1> QED
    BY <1>a, <1>b, <1>c, <1>d, <1>e, <1>f, <1>g, <1>h, <1>i, <1>j, <1>k, <1>l, <1>m,
       <1>n, <1>o, <1>p DEF Next

----------------------------------------------------------------------------
(* Claims paid when filed, claims that wait, and their files               *)

ClaimsInv ==
    /\ ClaimsSound(guarantee, claims) /\ ClaimsSound(disk.guarantees, disk.claims)
    /\ FilesBehind

\* What no operation does to a guarantee: forget it, or take up one given back
GuaranteesKept ==
    \A g \in Guarantees :
        /\ guarantee[g].status # "none" => guarantee'[g].status # "none"
        /\ guarantee[g].status = "RELEASED" => guarantee'[g] = guarantee[g]

\* ... or to the claims on file: lose one, or touch one that is paid
ClaimsKept ==
    /\ Len(claims) <= Len(claims')
    /\ \A k \in 1 .. Len(claims) : claims[k].status = "PAID" => claims'[k] = claims[k]

\* A claim that waits does not lose its guarantee to the end of the window
WindowsKept(cs) ==
    \A k \in 1 .. Len(cs) :
        cs[k].status = "DEFERRED" /\ cs[k].by = "rules" =>
            (guarantee'[cs[k].of].why = "window" => guarantee[cs[k].of].why = "window")

LEMMA GivenBackKeeps ==
    ASSUME Typed, NEW r, GivenBack(r)
    PROVE  /\ GuaranteesKept
           /\ r # "window" => \A g \in Guarantees :
                 guarantee'[g].why = "window" => guarantee[g].why = "window"
  BY DEF GivenBack, GuaranteesKept, Outstanding

LEMMA FilesStayBehind ==
    ASSUME Typed, WriteInv, FilesBehind, pending = <<>>, disk' = disk,
           GuaranteesKept, ClaimsKept, WindowsKept(disk.claims)
    PROVE  FilesBehind'
  <1>1. disk.guarantees = guarantee
    BY NothingWaits
  <1>2. ASSUME NEW g \in Guarantees
        PROVE  /\ disk.guarantees[g].status # "none" => guarantee'[g].status # "none"
               /\ disk.guarantees[g].status = "RELEASED" => guarantee'[g] = disk.guarantees[g]
    BY <1>1 DEF GuaranteesKept
  <1>3. /\ Len(disk.claims) \in Nat /\ Len(claims) \in Nat
        /\ Len(disk.claims) <= Len(claims) /\ Len(claims) <= Len(claims')
    BY DEF Typed, FilesBehind, ClaimsKept
  <1>4. Len(disk.claims) <= Len(claims') /\ 1 .. Len(disk.claims) \subseteq 1 .. Len(claims)
    <2>1. CASE Len(claims') \in Int
      BY <1>3, <2>1
    <2>2. CASE Len(claims') \notin Int
      BY <1>3, <2>2
    <2> QED  BY <2>1, <2>2
  <1>5. ASSUME NEW k \in 1 .. Len(disk.claims)
        PROVE  /\ disk.claims[k].status = "PAID" => claims'[k] = disk.claims[k]
               /\ disk.claims[k].status = "DEFERRED" /\ disk.claims[k].by = "rules" =>
                     guarantee'[disk.claims[k].of].why # "window"
    BY <1>4 DEF FilesBehind, ClaimsKept, WindowsKept
  <1> QED  BY <1>2, <1>4, <1>5 DEF FilesBehind

\* An operation that leaves the claims alone
LEMMA SameClaims ==
    ASSUME Typed, WriteInv, ClaimsInv, pending = <<>>, UNCHANGED <<claims, disk>>,
           GuaranteesKept, WindowsKept(claims), WindowsKept(disk.claims)
    PROVE  ClaimsInv'
  <1>1. \A k \in 1 .. Len(claims) : claims[k].of \in Guarantees
    BY ClaimOf DEF Typed
  <1>2. ClaimsSound(guarantee, claims)'
    BY <1>1 DEF ClaimsInv, ClaimsSound, GuaranteesKept, WindowsKept
  <1>3. ClaimsKept
    BY DEF ClaimsKept, Typed
  <1>4. FilesBehind'
    BY <1>3, FilesStayBehind DEF ClaimsInv
  <1> QED  BY <1>2, <1>4 DEF ClaimsInv

\* An operation that settles one claim
LEMMA SettleSound ==
    ASSUME Typed, WriteInv, ClaimsInv, pending = <<>>, disk' = disk,
           NEW k \in 1 .. Len(claims) + 1, NEW d \in Claim, NEW covered \in BOOLEAN,
           Settle(k, d, covered),
           k > Len(claims) => (covered => d.of \in Outstanding(guarantee)),
           ~(k > Len(claims)) => claims[k].status # "PAID",
           d.by = "rules" => (covered => guarantee[d.of].why # "window")
    PROVE  ClaimsInv'
  <1>1. /\ claims' \in Seq(Claim)
        /\ Len(claims') = IF k > Len(claims) THEN k ELSE Len(claims)
        /\ \A i \in 1 .. Len(claims) : i # k => claims'[i] = claims[i]
        /\ claims'[k].of = d.of /\ claims'[k].by = d.by
        /\ claims'[k].status = (IF Pays(d, covered) THEN "PAID"
                                ELSE IF covered THEN "DEFERRED" ELSE "DENIED")
        /\ claims'[k].paid = (IF ~Pays(d, covered) THEN "no"
                              ELSE IF k > Len(claims) THEN "filed" ELSE "later")
        /\ IF Pays(d, covered) THEN Released(d.of, "claim") ELSE guarantee' = guarantee
        /\ GivenBack("claim")
    BY Settles
  <1>2. Len(claims) \in Nat /\ \A i \in 1 .. Len(claims) : claims[i].of \in Guarantees
    BY ClaimOf DEF Typed
  <1>3. \A i \in 1 .. Len(claims') : i = k \/ (i # k /\ i \in 1 .. Len(claims))
    BY <1>1, <1>2
  <1>4. /\ GuaranteesKept
        /\ \A g \in Guarantees : guarantee'[g].why = "window" => guarantee[g].why = "window"
    BY <1>1, GivenBackKeeps
  <1>5. d.of \in Guarantees
    BY DEF Claim
  <1>6. \A i \in 1 .. Len(claims) : i # k /\ claims[i].paid = "filed" =>
           guarantee'[claims[i].of].status = "RELEASED"
    BY <1>2, <1>4 DEF ClaimsInv, ClaimsSound, GuaranteesKept
  <1>7. claims'[k].paid = "filed" =>
           d.of \in Outstanding(guarantee) /\ guarantee'[d.of].status = "RELEASED"
    <2> SUFFICES ASSUME claims'[k].paid = "filed"
                 PROVE  d.of \in Outstanding(guarantee) /\ guarantee'[d.of].status = "RELEASED"
      OBVIOUS
    <2>1. Pays(d, covered) /\ k > Len(claims)
      BY <1>1
    <2>2. covered
      BY <2>1 DEF Pays
    <2>3. d.of \in Outstanding(guarantee) /\ Released(d.of, "claim") /\ "claim" \in Reasons
      BY <1>1, <2>1, <2>2 DEF Reasons
    <2> QED  BY <1>5, <2>3, Releases
  <1>8. ASSUME NEW i \in 1 .. Len(claims')
        PROVE  /\ claims'[i].paid # "no" <=> claims'[i].status = "PAID"
               /\ claims'[i].paid = "filed" => guarantee'[claims'[i].of].status = "RELEASED"
               /\ claims'[i].status = "DEFERRED" /\ claims'[i].by = "rules" =>
                     guarantee'[claims'[i].of].why # "window"
    <2>1. CASE i = k
      <3>1. claims'[k].paid # "no" <=> claims'[k].status = "PAID"
        BY <1>1
      <3>2. claims'[k].status = "DEFERRED" => covered /\ ~Pays(d, covered)
        BY <1>1
      <3>3. claims'[k].status = "DEFERRED" /\ claims'[k].by = "rules" =>
               guarantee'[claims'[k].of].why # "window"
        BY <1>1, <1>4, <1>5, <3>2
      <3> QED  BY <1>1, <1>7, <2>1, <3>1, <3>3
    <2>2. CASE i # k /\ i \in 1 .. Len(claims)
      <3>1. claims'[i] = claims[i]
        BY <1>1, <2>2
      <3> QED  BY <1>2, <1>4, <1>6, <2>2, <3>1 DEF ClaimsInv, ClaimsSound
    <2> QED  BY <1>3, <2>1, <2>2
  <1>9. ASSUME NEW i \in 1 .. Len(claims'), NEW j \in 1 .. Len(claims'),
               claims'[i].of = claims'[j].of,
               claims'[i].paid = "filed", claims'[j].paid = "filed"
        PROVE  i = j
    <2>1. ASSUME NEW m \in 1 .. Len(claims), m # k, claims[m].paid = "filed",
                 claims'[k].paid = "filed", claims[m].of = d.of
          PROVE  FALSE
      <3>1. guarantee[d.of].status = "RELEASED"
        BY <2>1 DEF ClaimsInv, ClaimsSound
      <3>2. d.of \in Outstanding(guarantee)
        BY <1>7, <2>1
      <3> QED  BY <3>1, <3>2 DEF Outstanding
    <2>2. CASE i = k /\ j # k
      <3>1. j \in 1 .. Len(claims) /\ claims'[j] = claims[j]
        BY <1>1, <1>3, <2>2
      <3> QED  BY <1>1, <1>9, <2>1, <2>2, <3>1
    <2>3. CASE i # k /\ j = k
      <3>1. i \in 1 .. Len(claims) /\ claims'[i] = claims[i]
        BY <1>1, <1>3, <2>3
      <3> QED  BY <1>1, <1>9, <2>1, <2>3, <3>1
    <2>4. CASE i # k /\ j # k
      <3>1. /\ i \in 1 .. Len(claims) /\ claims'[i] = claims[i]
            /\ j \in 1 .. Len(claims) /\ claims'[j] = claims[j]
        BY <1>1, <1>3, <2>4
      <3> QED  BY <1>9, <3>1 DEF ClaimsInv, ClaimsSound
    <2> QED  BY <2>2, <2>3, <2>4
  <1>10. ClaimsSound(guarantee, claims)'
    BY <1>8, <1>9 DEF ClaimsSound
  <1>11. ClaimsKept
    <2>1. Len(claims) <= Len(claims')
      BY <1>1, <1>2
    <2>2. ASSUME NEW i \in 1 .. Len(claims), claims[i].status = "PAID"
          PROVE  claims'[i] = claims[i]
      <3>1. i = k => ~(k > Len(claims))
        BY <1>2
      <3> QED  BY <1>1, <2>2, <3>1
    <2> QED  BY <2>1, <2>2 DEF ClaimsKept
  <1>12. WindowsKept(disk.claims)
    <2>1. \A i \in 1 .. Len(disk.claims) : disk.claims[i].of \in Guarantees
      <3>1. disk.claims \in Seq(Claim)
        BY DEF Typed
      <3> QED  BY <3>1, ClaimOf
    <2> QED  BY <1>4, <2>1 DEF WindowsKept
  <1>13. FilesBehind'
    BY <1>4, <1>11, <1>12, FilesStayBehind DEF ClaimsInv
  <1> QED  BY <1>10, <1>13 DEF ClaimsInv

LEMMA ClaimsNext ==
    Typed /\ WriteInv /\ BothSound /\ ClaimsInv /\ [Next]_vars => ClaimsInv'
  <1> SUFFICES ASSUME Typed, WriteInv, BothSound, ClaimsInv, [Next]_vars PROVE ClaimsInv'
    OBVIOUS
  <1>0. /\ guarantee \in [Guarantees -> [status : Statuses, why : Reasons]]
        /\ disk \in [book : [Guarantees -> Books],
                     guarantees : [Guarantees -> [status : Statuses, why : Reasons]],
                     claims : Seq(Claim), reserve : Reserve]
        /\ claims \in Seq(Claim)
    BY DEF Typed
  <1>1. /\ \A i \in 1 .. Len(claims) : claims[i] \in Claim /\ claims[i].of \in Guarantees
        /\ \A i \in 1 .. Len(disk.claims) : disk.claims[i].of \in Guarantees
        /\ Len(claims) \in Nat /\ Len(disk.claims) \in Nat
    <2>1. disk.claims \in Seq(Claim)
      BY <1>0
    <2> QED  BY <1>0, <2>1, ClaimOf
  <1>2. ASSUME UNCHANGED <<guarantee, claims, disk>> PROVE ClaimsInv'
    BY <1>2 DEF ClaimsInv, ClaimsSound, FilesBehind
  <1>3. ASSUME pending = <<>>, UNCHANGED <<claims, disk>>, GuaranteesKept,
               \A g \in Guarantees : guarantee'[g].why = "window" => guarantee[g].why = "window"
        PROVE  ClaimsInv'
    <2>1. WindowsKept(claims) /\ WindowsKept(disk.claims)
      BY <1>1, <1>3 DEF WindowsKept
    <2> QED  BY <1>3, <2>1, SameClaims
  <1>b. ASSUME NEW g \in Guarantees, Attach(g) PROVE ClaimsInv'
    <2>1. /\ guarantee[g].status = "none" /\ pending = <<>> /\ UNCHANGED <<claims, disk>>
          /\ guarantee' = [guarantee EXCEPT ![g].status = "ATTACHED"]
      BY <1>b DEF Attach
    <2>2. /\ GuaranteesKept
          /\ \A h \in Guarantees : guarantee'[h].why = "window" => guarantee[h].why = "window"
      BY <1>0, <2>1 DEF GuaranteesKept
    <2> QED  BY <1>3, <2>1, <2>2
  <1>c. ASSUME NEW g \in Guarantees, Complete(g) PROVE ClaimsInv'
    <2>1. /\ guarantee[g].status = "ATTACHED" /\ pending = <<>> /\ UNCHANGED <<claims, disk>>
          /\ guarantee' = [guarantee EXCEPT ![g].status = "CLAIMABLE"]
      BY <1>c DEF Complete, Serving, Quiet
    <2>2. /\ GuaranteesKept
          /\ \A h \in Guarantees : guarantee'[h].why = "window" => guarantee[h].why = "window"
      BY <1>0, <2>1 DEF GuaranteesKept
    <2> QED  BY <1>3, <2>1, <2>2
  <1>e. ASSUME NEW g \in Guarantees, Release(g) PROVE ClaimsInv'
    <2>1. /\ Released(g, "void") /\ "void" \in Reasons /\ pending = <<>>
          /\ UNCHANGED <<claims, disk>>
      BY <1>e DEF Release, Reasons
    <2>2. GivenBack("void")
      BY <2>1, Releases
    <2>3. /\ GuaranteesKept
          /\ \A h \in Guarantees : guarantee'[h].why = "window" => guarantee[h].why = "window"
      BY <2>2, GivenBackKeeps
    <2> QED  BY <1>3, <2>1, <2>3
  <1>h. ASSUME NEW g \in Guarantees, ExpireClaimWindow(g) PROVE ClaimsInv'
    <2>1. /\ Released(g, "window") /\ "window" \in Reasons /\ pending = <<>> /\ settling = 0
          /\ ~OpenClaim(g) /\ UNCHANGED <<claims, disk>>
      BY <1>h DEF ExpireClaimWindow, Reasons, Serving, Quiet
    <2>2. /\ GivenBack("window") /\ \A h \in Guarantees : h # g => guarantee'[h] = guarantee[h]
      BY <2>1, Releases
    <2>3. GuaranteesKept
      BY <2>2, GivenBackKeeps
    <2>4. WindowsKept(claims)
      BY <1>1, <2>1, <2>2 DEF WindowsKept, OpenClaim
    <2>5. disk.claims = claims
      BY <2>1, NothingWaits
    <2> QED  BY <2>1, <2>3, <2>4, <2>5, SameClaims
  <1>i. ASSUME NEW g \in Guarantees, NEW amount \in Amounts, NEW barred \in BOOLEAN,
               FileClaim(g, amount, barred)
        PROVE  ClaimsInv'
    <2> DEFINE n == Len(claims) + 1
    <2>1. /\ Serving /\ n \in 1 .. Len(claims) + 1 /\ disk' = disk
          /\ \E d \in Claim, covered \in BOOLEAN :
                /\ d.of = g /\ d.by = "rules" /\ (covered => g \in Outstanding(guarantee))
                /\ Settle(n, d, covered)
      BY <1>i, FileClaims
    <2>2. n > Len(claims)
      BY <1>1
    <2> HIDE DEF n
    <2>3. PICK d \in Claim, covered \in BOOLEAN :
             /\ d.of = g /\ d.by = "rules" /\ (covered => g \in Outstanding(guarantee))
             /\ Settle(n, d, covered)
      BY <2>1
    <2>4. g \in Outstanding(guarantee) => guarantee[g].why # "window"
      BY DEF Outstanding, BothSound, BookSound
    <2>5. pending = <<>>
      BY <2>1 DEF Serving, Quiet
    <2> QED  BY <2>1, <2>2, <2>3, <2>4, <2>5, SettleSound
  <1>j. ASSUME NEW k \in 1 .. MaxClaims, NEW covered \in BOOLEAN, NEW amount \in Amounts,
               DecideClaim(k, covered, amount)
        PROVE  ClaimsInv'
    <2> DEFINE d == [claims[k] EXCEPT !.by = "ops", !.payout =
                       IF covered THEN Capped(claims[k].of, amount) ELSE 0]
    <2>1. /\ k \in 1 .. Len(claims) /\ Settle(k, d, covered) /\ disk' = disk
          /\ claims[k].status # "PAID" /\ pending = <<>>
      BY <1>j DEF DecideClaim, Serving, Quiet
    <2>2. d \in Claim
      BY <2>1, DecidedClaim
    <2>3. d.by = "ops"
      BY <1>1, <2>1 DEF Claim
    <2> HIDE DEF d
    <2>4. k \in 1 .. Len(claims) + 1 /\ ~(k > Len(claims))
      BY <1>1, <2>1
    <2> QED  BY <2>1, <2>2, <2>3, <2>4, SettleSound
  <1>k. ASSUME NEW usd \in Amounts, AddCapital(usd) PROVE ClaimsInv'
    BY <1>2, <1>k DEF AddCapital
  <1>l. CASE SettleNext
    <2>1. settling \in 1 .. Len(claims) /\ disk' = disk /\ pending = <<>>
      BY <1>l DEF SettleNext
    <2>2. CASE claims[settling].status = "DEFERRED"
      <3>1. Settle(settling, claims[settling], TRUE)
        BY <1>l, <2>2 DEF SettleNext
      <3>2. claims[settling] \in Claim
        BY <1>1, <2>1
      <3>3. settling \in 1 .. Len(claims) + 1 /\ ~(settling > Len(claims))
        BY <1>1, <2>1
      <3>4. claims[settling].by = "rules" => guarantee[claims[settling].of].why # "window"
        BY <2>1, <2>2 DEF ClaimsInv, ClaimsSound
      <3> QED  BY <2>1, <2>2, <3>1, <3>2, <3>3, <3>4, SettleSound
    <2>3. CASE claims[settling].status # "DEFERRED"
      <3>1. UNCHANGED <<guarantee, claims>>
        BY <1>l, <2>3 DEF SettleNext, engineVars
      <3> QED  BY <1>2, <2>1, <3>1
    <2> QED  BY <2>2, <2>3
  <1>m. CASE SettleEnd
    BY <1>2, <1>m DEF SettleEnd, engineVars
  <1>n. CASE Write
    <2>1. UNCHANGED <<guarantee, claims>>
      BY <1>n, Writing
    <2>2. CASE Head(pending) = <<"guarantees", 0>> /\ disk' = [disk EXCEPT !.guarantees = guarantee]
      <3>1. disk'.guarantees = guarantee /\ disk'.claims = disk.claims
        BY <1>0, <2>2
      <3>2. ClaimsSound(guarantee, disk.claims)
        BY <1>1, SMTT(60) DEF ClaimsInv, ClaimsSound, FilesBehind
      <3>3. FilesBehind'
        BY <2>1, <3>1 DEF ClaimsInv, FilesBehind
      <3> QED  BY <2>1, <3>1, <3>2, <3>3 DEF ClaimsInv
    <2>3. CASE Head(pending) = <<"claims", 0>> /\ disk' = [disk EXCEPT !.claims = claims]
      <3>1. ~Unwritten(<<"guarantees", 0>>)
        <4>1. /\ Members(pending) = {Head(pending)} \cup Members(pending')
              /\ \A x \in Members(pending') : Rank(Head(pending)) < Rank(x)
          BY <1>n, Writing
        <4>2. Rank(<<"guarantees", 0>>) = 2 /\ Rank(<<"claims", 0>>) = 3
          BY DEF Rank
        <4>3. <<"guarantees", 0>> \notin Members(pending)
          BY <2>3, <4>1, <4>2
        <4> QED  BY <4>3, UnwrittenIs
      <3>2. disk'.guarantees = guarantee /\ disk'.claims = claims
        BY <1>0, <2>3, <3>1 DEF WriteInv
      <3>3. FilesBehind'
        BY <1>1, <2>1, <3>2 DEF ClaimsInv, ClaimsSound, FilesBehind
      <3> QED  BY <2>1, <3>2, <3>3 DEF ClaimsInv
    <2>4. CASE disk'.guarantees = disk.guarantees /\ disk'.claims = disk.claims
      BY <2>1, <2>4 DEF ClaimsInv, FilesBehind
    <2>5. \/ Head(pending) = <<"guarantees", 0>> /\ disk' = [disk EXCEPT !.guarantees = guarantee]
          \/ Head(pending) = <<"claims", 0>> /\ disk' = [disk EXCEPT !.claims = claims]
          \/ disk'.guarantees = disk.guarantees /\ disk'.claims = disk.claims
      BY <1>0, <1>n, Writing
    <2> QED  BY <2>2, <2>3, <2>4, <2>5
  <1>o. CASE Crash
    <2>1. /\ guarantee' = disk.guarantees /\ claims' = disk.claims /\ disk' = disk
      BY <1>o DEF Crash
    <2>2. FilesBehind'
      BY <1>1, <2>1 DEF ClaimsInv, ClaimsSound, FilesBehind
    <2> QED  BY <2>1, <2>2 DEF ClaimsInv
  <1>p. CASE UNCHANGED vars
    BY <1>2, <1>p DEF vars, engineVars
  <1>q. ASSUME NEW g \in Guarantees, Commit(g) \/ Void(g) \/ DeleteJournal(g) \/ WindowPasses(g)
        PROVE  ClaimsInv'
    BY <1>2, <1>q DEF Commit, Void, DeleteJournal, WindowPasses, engineVars
  <1> QED
    BY <1>b, <1>c, <1>e, <1>h, <1>i, <1>j, <1>k, <1>l, <1>m, <1>n, <1>o, <1>p, <1>q DEF Next

----------------------------------------------------------------------------
(* The ledger follows the files                                            *)

LEMMA ChainNext ==
    Typed /\ WriteInv /\ ClaimsInv /\ ChainInv /\ [Next]_vars => ChainInv'
  <1> SUFFICES ASSUME Typed, WriteInv, ClaimsInv, ChainInv, [Next]_vars PROVE ChainInv'
    OBVIOUS
  <1>0. /\ \A x : Unwritten(x) <=> x \in Members(pending)
        /\ \A x : Unwritten(x)' <=> x \in Members(pending')
    BY DEF Unwritten, Members
  <1>1. ASSUME disk' = disk, chain' = chain,
               crashes' = 0 =>
                  /\ crashes = 0
                  /\ \A k \in 1 .. Len(claims') :
                        \/ k \in 1 .. Len(claims) /\ (OnChain("CLAIM", k) \/ ~Unwritten(<<"CLAIM", k>>))
                        \/ Unwritten(<<"CLAIM", k>>)'
        PROVE  ChainInv'
    <2>1. \A t, k : OnChain(t, k)' <=> OnChain(t, k)
      BY <1>1 DEF OnChain
    <2>2. crashes' = 0 => \A k \in 1 .. Len(claims') :
                             OnChain("CLAIM", k)' \/ Unwritten(<<"CLAIM", k>>)'
      BY <1>1, <2>1 DEF ChainInv
    <2>3. \A k \in 1 .. MaxClaims :
             /\ OnChain("CLAIM", k)' => k \in 1 .. Len(disk'.claims)
             /\ OnChain("PAYOUT", k)' => OnChain("CLAIM", k)' /\ disk'.claims[k].status = "PAID"
      BY <1>1, <2>1 DEF ChainInv
    <2> QED  BY <2>2, <2>3 DEF ChainInv
  <1>2. CASE UNCHANGED vars \/ VenueOnly
    <2>1. UNCHANGED <<claims, disk, pending, chain, crashes>>
      BY <1>2 DEF VenueOnly, vars, engineVars
    <2>2. \A x : Unwritten(x)' <=> Unwritten(x)
      BY <1>0, <2>1
    <2> QED  BY <1>1, <2>1, <2>2
  <1>3. CASE Operated
    <2>1. pending = <<>> /\ UNCHANGED <<disk, chain, crashes>>
      BY <1>3 DEF Operated
    <2>2. \A x : ~Unwritten(x)
      BY <2>1 DEF Unwritten
    <2>3. CASE Len(claims') = Len(claims)
      BY <1>1, <2>1, <2>2, <2>3
    <2>4. CASE pending' = Booked \o Recorded(Len(claims) + 1) /\ Len(claims') = Len(claims) + 1
      <3> DEFINE n == Len(claims) + 1
      <3>0. Len(claims) \in Nat
        BY DEF Typed
      <3>1. n \in Nat /\ \A k \in 1 .. n : k = n \/ k \in 1 .. Len(claims)
        BY <3>0
      <3>2. pending' = Booked \o Recorded(n) /\ Len(claims') = n
        BY <2>4
      <3> HIDE DEF n
      <3>3. <<"CLAIM", n>> \in Members(pending')
        BY <3>1, <3>2, FiledWritten, RecordedIs, ZenonT(60)
      <3> QED  BY <1>0, <1>1, <2>1, <2>2, <3>1, <3>2, <3>3
    <2> QED  BY <1>3, <2>3, <2>4 DEF Operated
  <1>4. CASE Write
    <2>0. /\ Members(pending) = {Head(pending)} \cup Members(pending')
          /\ \A x \in Members(pending') : Rank(Head(pending)) < Rank(x)
          /\ UNCHANGED <<claims, crashes>>
      BY <1>4, Writing
    <2>1. /\ Len(claims) \in Nat /\ Len(claims) <= MaxClaims
          /\ 1 .. Len(claims) \subseteq 1 .. MaxClaims
          /\ Len(disk.claims) \in Nat /\ Len(disk.claims) <= Len(claims)
          /\ disk \in [book : [Guarantees -> Books],
                       guarantees : [Guarantees -> [status : Statuses, why : Reasons]],
                       claims : Seq(Claim), reserve : Reserve]
          /\ chain \in Seq(Entries)
      BY DEF Typed, ClaimsInv, FilesBehind
    <2>2. CASE Head(pending) \notin Entries
      <3>1. /\ chain' = chain
            /\ disk'.claims = disk.claims \/ disk'.claims = claims
        BY <1>4, <2>1, <2>2, Writing
      <3>2. \A t, k : OnChain(t, k)' <=> OnChain(t, k)
        BY <3>1 DEF OnChain
      <3>3. \A k : <<"CLAIM", k>> # Head(pending)
        <4>1. ASSUME NEW k, <<"CLAIM", k>> = Head(pending) PROVE FALSE
          <5>1. Head(pending) \in Writes /\ <<"CLAIM", k>>[1] = "CLAIM"
            <6>1. pending \in Seq(Writes) /\ pending # <<>>
              BY <1>4, Writing
            <6> QED  BY <6>1
          <5> QED  BY <2>2, <4>1, <5>1 DEF Writes, Files
        <4> QED  BY <4>1
      <3>4. crashes' = 0 => \A k \in 1 .. Len(claims') :
                               OnChain("CLAIM", k)' \/ Unwritten(<<"CLAIM", k>>)'
        BY <1>0, <2>0, <3>2, <3>3 DEF ChainInv
      <3>5. ASSUME NEW k \in 1 .. Len(disk.claims)
            PROVE  /\ k \in 1 .. Len(disk'.claims)
                   /\ disk.claims[k].status = "PAID" => disk'.claims[k].status = "PAID"
        <4>1. disk.claims[k].status = "PAID" => claims[k].status = "PAID"
          BY DEF ClaimsInv, FilesBehind
        <4>2. k \in 1 .. Len(claims)
          BY <2>1
        <4> QED  BY <3>1, <4>1, <4>2
      <3>6. \A k \in 1 .. MaxClaims :
               /\ OnChain("CLAIM", k)' => k \in 1 .. Len(disk'.claims)
               /\ OnChain("PAYOUT", k)' => OnChain("CLAIM", k)' /\ disk'.claims[k].status = "PAID"
        BY <3>2, <3>5 DEF ChainInv
      <3> QED  BY <3>4, <3>6 DEF ChainInv
    <2>3. CASE Head(pending) \in Entries
      <3>1. chain' = Append(chain, Head(pending)) /\ disk' = disk
        <4>1. /\ Head(pending) # <<"book", 0>> /\ Head(pending) # <<"guarantees", 0>>
              /\ Head(pending) # <<"claims", 0>> /\ Head(pending) # <<"reserve", 0>>
          BY <2>3 DEF Entries
        <4> QED  BY <1>4, <4>1, Writing
      <3>2. PICK t \in {"CLAIM", "PAYOUT"}, n \in Nat : Head(pending) = <<t, n>>
        BY <2>3 DEF Entries
      <3>3. /\ Len(chain') = Len(chain) + 1 /\ Len(chain) \in Nat
            /\ chain'[Len(chain) + 1] = <<t, n>>
            /\ \A i \in 1 .. Len(chain) : chain'[i] = chain[i]
        BY <2>1, <2>3, <3>1, <3>2
      <3>4. /\ 1 .. Len(chain') = 1 .. Len(chain) \cup {Len(chain) + 1}
        BY <3>3
      <3>5. ASSUME NEW s, NEW k
            PROVE  OnChain(s, k)' <=> OnChain(s, k) \/ (s = t /\ k = n)
        BY <3>3, <3>4, SMTT(60) DEF OnChain
      <3>6. Unwritten(<<t, n>>) /\ Rank(<<t, n>>) \in {5, 6}
        BY <1>0, <2>0, <3>2 DEF Rank
      <3>7. ~Unwritten(<<"claims", 0>>)
        <4>1. Rank(<<"claims", 0>>) = 3
          BY DEF Rank
        <4>2. <<"claims", 0>> # Head(pending)
          BY <3>2
        <4> QED  BY <1>0, <2>0, <3>2, <3>6, <4>1, <4>2
      <3>8. settling = 0 => disk.claims = claims
        BY <3>7 DEF WriteInv
      <3>9. ASSUME NEW k \in 1 .. MaxClaims, OnChain("CLAIM", k)'
            PROVE  k \in 1 .. Len(disk'.claims)
        <4>1. CASE OnChain("CLAIM", k)
          BY <3>1, <4>1 DEF ChainInv
        <4>2. CASE t = "CLAIM" /\ k = n
          BY <3>1, <3>6, <3>8, <4>2 DEF WriteInv
        <4> QED  BY <3>5, <3>9, <4>1, <4>2
      <3>10. ASSUME NEW k \in 1 .. MaxClaims, OnChain("PAYOUT", k)'
             PROVE  OnChain("CLAIM", k)' /\ disk'.claims[k].status = "PAID"
        <4>1. CASE OnChain("PAYOUT", k)
          BY <3>1, <3>5, <4>1 DEF ChainInv
        <4>2. CASE t = "PAYOUT" /\ k = n
          <5>1. Unwritten(<<"PAYOUT", k>>) /\ Head(pending) = <<"PAYOUT", k>>
            BY <3>2, <3>6, <4>2
          <5>2. /\ settling = 0 /\ claims[k].status = "PAID"
                /\ Unwritten(<<"CLAIM", k>>) \/ OnChain("CLAIM", k)
            BY <5>1 DEF WriteInv
          <5>3. ~Unwritten(<<"CLAIM", k>>)
            <6>1. Rank(<<"CLAIM", k>>) = 5 /\ Rank(<<"PAYOUT", k>>) = 6
              BY DEF Rank
            <6>2. <<"CLAIM", k>> # <<"PAYOUT", k>>
              OBVIOUS
            <6> QED  BY <1>0, <2>0, <5>1, <6>1, <6>2
          <5> QED  BY <3>1, <3>5, <3>8, <5>2, <5>3
        <4> QED  BY <3>5, <3>10, <4>1, <4>2
      <3>11. ASSUME crashes' = 0, NEW k \in 1 .. Len(claims')
             PROVE  OnChain("CLAIM", k)' \/ Unwritten(<<"CLAIM", k>>)'
        <4>1. OnChain("CLAIM", k) \/ Unwritten(<<"CLAIM", k>>)
          BY <2>0, <3>11 DEF ChainInv
        <4>2. <<"CLAIM", k>> = Head(pending) => t = "CLAIM" /\ k = n
          BY <3>2
        <4> QED  BY <1>0, <2>0, <3>5, <4>1, <4>2
      <3> QED  BY <3>9, <3>10, <3>11 DEF ChainInv
    <2> QED  BY <2>2, <2>3
  <1>5. CASE Crash
    <2>1. disk' = disk /\ chain' = chain /\ crashes' # 0
      BY <1>5 DEF Crash, Typed
    <2> QED  BY <1>1, <2>1
  <1> QED  BY <1>2, <1>3, <1>4, <1>5, Steps

----------------------------------------------------------------------------
(* Without a crash the book is exact                                       *)

LEMMA ExactNext == Typed /\ BookExact /\ [Next]_vars => BookExact'
  <1> SUFFICES ASSUME Typed, BookExact, [Next]_vars PROVE BookExact'
    OBVIOUS
  <1>0. /\ guarantee \in [Guarantees -> [status : Statuses, why : Reasons]]
        /\ book \in [Guarantees -> Books]
    BY DEF Typed
  <1>1. ASSUME UNCHANGED <<book, guarantee, crashes>> PROVE BookExact'
    BY <1>1 DEF BookExact, Outstanding
  <1>2. ASSUME NEW r, GivenBack(r), crashes' = crashes PROVE BookExact'
    <2>1. ASSUME NEW g \in Guarantees, crashes = 0
          PROVE  /\ guarantee'[g].status = "none" => book'[g] = "none"
                 /\ guarantee'[g].status \in {"ATTACHED", "CLAIMABLE"} => book'[g] = "held"
      BY <1>2, <2>1 DEF BookExact, Outstanding, GivenBack
    <2> QED  BY <1>2, <2>1 DEF BookExact, Outstanding
  <1>b. ASSUME NEW g \in Guarantees, Attach(g) PROVE BookExact'
    <2>1. /\ guarantee[g].status = "none" /\ crashes' = crashes
          /\ book' = [book EXCEPT ![g] = IF @ = "none" THEN "held" ELSE @]
          /\ guarantee' = [guarantee EXCEPT ![g].status = "ATTACHED"]
      BY <1>b DEF Attach
    <2>2. ASSUME NEW h \in Guarantees, crashes = 0
          PROVE  /\ guarantee'[h].status = "none" => book'[h] = "none"
                 /\ guarantee'[h].status \in {"ATTACHED", "CLAIMABLE"} => book'[h] = "held"
      BY <1>0, <2>1, <2>2 DEF BookExact, Outstanding
    <2> QED  BY <2>1, <2>2 DEF BookExact, Outstanding
  <1>c. ASSUME NEW g \in Guarantees, Complete(g) PROVE BookExact'
    <2>1. /\ guarantee[g].status = "ATTACHED" /\ crashes' = crashes /\ book' = book
          /\ guarantee' = [guarantee EXCEPT ![g].status = "CLAIMABLE"]
      BY <1>c DEF Complete
    <2>2. ASSUME NEW h \in Guarantees, crashes = 0
          PROVE  /\ guarantee'[h].status = "none" => book'[h] = "none"
                 /\ guarantee'[h].status \in {"ATTACHED", "CLAIMABLE"} => book'[h] = "held"
      BY <1>0, <2>1, <2>2 DEF BookExact, Outstanding
    <2> QED  BY <2>1, <2>2 DEF BookExact, Outstanding
  <1>e. ASSUME NEW g \in Guarantees, Release(g) \/ ExpireClaimWindow(g) PROVE BookExact'
    <2>1. /\ crashes' = crashes /\ {"void", "window"} \subseteq Reasons
          /\ Released(g, "void") \/ Released(g, "window")
      BY <1>e DEF Release, ExpireClaimWindow, Reasons
    <2> QED  BY <1>2, <2>1, Releases
  <1>i. ASSUME NEW g \in Guarantees, NEW amount \in Amounts, NEW barred \in BOOLEAN,
               FileClaim(g, amount, barred)
        PROVE  BookExact'
    <2>1. /\ Len(claims) + 1 \in 1 .. Len(claims) + 1 /\ crashes' = crashes
          /\ \E d \in Claim, covered \in BOOLEAN : Settle(Len(claims) + 1, d, covered)
      BY <1>i, FileClaims
    <2> QED  BY <1>2, <2>1, Settles
  <1>j. ASSUME NEW k \in 1 .. MaxClaims, NEW covered \in BOOLEAN, NEW amount \in Amounts,
               DecideClaim(k, covered, amount)
        PROVE  BookExact'
    <2> DEFINE d == [claims[k] EXCEPT !.by = "ops", !.payout =
                       IF covered THEN Capped(claims[k].of, amount) ELSE 0]
    <2>1. k \in 1 .. Len(claims) /\ Settle(k, d, covered) /\ crashes' = crashes
      BY <1>j DEF DecideClaim
    <2>2. d \in Claim
      BY <2>1, DecidedClaim
    <2> HIDE DEF d
    <2>3. k \in 1 .. Len(claims) + 1
      BY <2>1 DEF Typed
    <2> QED  BY <1>2, <2>1, <2>2, <2>3, Settles
  <1>l. CASE SettleNext
    <2>1. settling \in 1 .. Len(claims) /\ crashes' = crashes
      BY <1>l DEF SettleNext
    <2>2. CASE claims[settling].status = "DEFERRED"
      <3>1. Settle(settling, claims[settling], TRUE)
        BY <1>l, <2>2 DEF SettleNext
      <3>2. claims[settling] \in Claim /\ settling \in 1 .. Len(claims) + 1
        BY <2>1 DEF Typed
      <3> QED  BY <1>2, <2>1, <3>1, <3>2, Settles
    <2>3. CASE claims[settling].status # "DEFERRED"
      <3>1. UNCHANGED <<book, guarantee>>
        BY <1>l, <2>3 DEF SettleNext, engineVars
      <3> QED  BY <1>1, <2>1, <3>1
    <2> QED  BY <2>2, <2>3
  <1>o. CASE Crash
    <2>1. crashes' # 0
      BY <1>o DEF Crash, Typed
    <2> QED  BY <2>1 DEF BookExact
  <1>p. CASE UNCHANGED vars
    BY <1>1, <1>p DEF vars, engineVars
  <1>q. ASSUME \/ \E g \in Guarantees :
                     Commit(g) \/ Void(g) \/ DeleteJournal(g) \/ WindowPasses(g)
               \/ SettleEnd \/ Write \/ \E usd \in Amounts : AddCapital(usd)
        PROVE  BookExact'
    BY <1>1, <1>q DEF Commit, Void, DeleteJournal, WindowPasses, SettleEnd, Write,
       AddCapital, engineVars
  <1> QED
    BY <1>b, <1>c, <1>e, <1>i, <1>j, <1>l, <1>o, <1>p, <1>q DEF Next

----------------------------------------------------------------------------
(* The reserve, and where its capital goes                                 *)

LEMMA ReserveTyped ==
    ASSUME NEW r \in Reserve
    PROVE  r.capital \in Nat /\ r.premiums \in Nat /\ r.payouts \in Nat /\ Available(r) \in Int
  BY DEF Reserve, Available

\* Settling takes from the reserve no more than there is
LEMMA SettleBears ==
    ASSUME Typed, Available(reserve) >= 0, NEW k \in 1 .. Len(claims) + 1, NEW d \in Claim,
           NEW covered \in BOOLEAN, Settle(k, d, covered)
    PROVE  Available(reserve') >= 0 /\ Available(reserve') <= Available(reserve)
  <1>1. reserve \in Reserve /\ d.payout \in Nat
    BY DEF Typed, Claim
  <1>2. /\ reserve.capital \in Nat /\ reserve.premiums \in Nat /\ reserve.payouts \in Nat
    BY <1>1, ReserveTyped
  <1>3. CASE Pays(d, covered)
    <2>1. reserve' = [reserve EXCEPT !.payouts = @ + d.payout]
      BY <1>3, Settles
    <2>2. /\ reserve'.capital = reserve.capital /\ reserve'.premiums = reserve.premiums
          /\ reserve'.payouts = reserve.payouts + d.payout
      BY <1>1, <2>1 DEF Reserve
    <2>3. d.payout <= Available(reserve)
      BY <1>3 DEF Pays, Payable
    <2> QED  BY <1>1, <1>2, <2>2, <2>3 DEF Available
  <1>4. CASE ~Pays(d, covered)
    <2>1. reserve' = reserve
      BY <1>4, Settles
    <2>2. Available(reserve) \in Int
      BY <1>1, ReserveTyped
    <2> QED  BY <2>1, <2>2
  <1> QED  BY <1>3, <1>4

LEMMA BearsNext == Typed /\ WriteInv /\ ReserveBears /\ [Next]_vars => ReserveBears'
  <1> SUFFICES ASSUME Typed, WriteInv, ReserveBears, [Next]_vars PROVE ReserveBears'
    OBVIOUS
  <1>0. /\ reserve \in Reserve /\ Premium \in Nat
        /\ disk \in [book : [Guarantees -> Books],
                     guarantees : [Guarantees -> [status : Statuses, why : Reasons]],
                     claims : Seq(Claim), reserve : Reserve]
        /\ Available(reserve) >= 0 /\ Available(disk.reserve) >= 0
    BY DEF Typed, ReserveBears
  <1>1. reserve.capital \in Nat /\ reserve.premiums \in Nat /\ reserve.payouts \in Nat
    BY <1>0, ReserveTyped
  <1>2. ASSUME UNCHANGED <<reserve, disk>> PROVE ReserveBears'
    BY <1>0, <1>2 DEF ReserveBears, Available
  <1>3. ASSUME disk' = disk, Available(reserve') >= 0 PROVE ReserveBears'
    BY <1>0, <1>3 DEF ReserveBears, Available
  <1>b. ASSUME NEW g \in Guarantees, Attach(g) PROVE ReserveBears'
    <2>1. reserve' = [reserve EXCEPT !.premiums = @ + Premium] /\ disk' = disk
      BY <1>b DEF Attach
    <2>2. /\ reserve'.capital = reserve.capital /\ reserve'.payouts = reserve.payouts
          /\ reserve'.premiums = reserve.premiums + Premium
      BY <1>0, <2>1 DEF Reserve
    <2>3. Available(reserve') >= 0
      BY <1>0, <1>1, <2>2, SMTT(60) DEF Available
    <2> QED  BY <1>3, <2>1, <2>3
  <1>i. ASSUME NEW g \in Guarantees, NEW amount \in Amounts, NEW barred \in BOOLEAN,
               FileClaim(g, amount, barred)
        PROVE  ReserveBears'
    <2>1. /\ Len(claims) + 1 \in 1 .. Len(claims) + 1 /\ disk' = disk
          /\ \E d \in Claim, covered \in BOOLEAN : Settle(Len(claims) + 1, d, covered)
      BY <1>i, FileClaims
    <2> DEFINE n == Len(claims) + 1
    <2>2. PICK d \in Claim, covered \in BOOLEAN : Settle(n, d, covered)
      BY <2>1
    <2>3. n \in 1 .. Len(claims) + 1
      BY <2>1
    <2> HIDE DEF n
    <2>4. Available(reserve') >= 0
      BY <1>0, <2>2, <2>3, SettleBears
    <2> QED  BY <1>3, <2>1, <2>4
  <1>j. ASSUME NEW k \in 1 .. MaxClaims, NEW covered \in BOOLEAN, NEW amount \in Amounts,
               DecideClaim(k, covered, amount)
        PROVE  ReserveBears'
    <2> DEFINE d == [claims[k] EXCEPT !.by = "ops", !.payout =
                       IF covered THEN Capped(claims[k].of, amount) ELSE 0]
    <2>1. k \in 1 .. Len(claims) /\ Settle(k, d, covered) /\ disk' = disk
      BY <1>j DEF DecideClaim
    <2>2. d \in Claim
      BY <2>1, DecidedClaim
    <2> HIDE DEF d
    <2>3. k \in 1 .. Len(claims) + 1
      BY <2>1 DEF Typed
    <2> QED  BY <1>0, <1>3, <2>1, <2>2, <2>3, SettleBears
  <1>k. ASSUME NEW usd \in Amounts, AddCapital(usd) PROVE ReserveBears'
    <2>1. reserve' = [reserve EXCEPT !.capital = @ + usd] /\ disk' = disk /\ usd \in Nat
      BY <1>k DEF AddCapital
    <2>2. /\ reserve'.capital = reserve.capital + usd /\ reserve'.payouts = reserve.payouts
          /\ reserve'.premiums = reserve.premiums
      BY <1>0, <2>1 DEF Reserve
    <2>3. Available(reserve') >= 0
      BY <1>0, <1>1, <2>1, <2>2, SMTT(60) DEF Available
    <2> QED  BY <1>3, <2>1, <2>3
  <1>l. CASE SettleNext
    <2>1. settling \in 1 .. Len(claims) /\ disk' = disk
      BY <1>l DEF SettleNext
    <2>2. CASE claims[settling].status = "DEFERRED"
      <3>1. Settle(settling, claims[settling], TRUE)
        BY <1>l, <2>2 DEF SettleNext
      <3>2. claims[settling] \in Claim /\ settling \in 1 .. Len(claims) + 1
        BY <2>1 DEF Typed
      <3> QED  BY <1>0, <1>3, <2>1, <3>1, <3>2, SettleBears
    <2>3. CASE claims[settling].status # "DEFERRED"
      <3>1. reserve' = reserve
        BY <1>l, <2>3 DEF SettleNext, engineVars
      <3> QED  BY <1>2, <2>1, <3>1
    <2> QED  BY <2>2, <2>3
  <1>n. CASE Write
    <2>1. /\ reserve' = reserve
          /\ disk'.reserve = disk.reserve \/ disk'.reserve = reserve
      BY <1>0, <1>n, Writing
    <2>2. CASE disk'.reserve = disk.reserve
      BY <1>0, <2>1, <2>2 DEF ReserveBears, Available
    <2>3. CASE disk'.reserve = reserve
      BY <1>0, <2>1, <2>3 DEF ReserveBears, Available
    <2> QED  BY <2>1, <2>2, <2>3
  <1>o. CASE Crash
    <2>1. reserve' = disk.reserve /\ disk' = disk
      BY <1>o DEF Crash
    <2> QED  BY <1>0, <2>1 DEF ReserveBears, Available
  <1>p. CASE UNCHANGED vars
    BY <1>2, <1>p DEF vars, engineVars
  <1>q. ASSUME \/ \E g \in Guarantees : \/ Commit(g) \/ Complete(g) \/ Void(g) \/ Release(g)
                                        \/ DeleteJournal(g) \/ WindowPasses(g)
                                        \/ ExpireClaimWindow(g)
               \/ SettleEnd
        PROVE  ReserveBears'
    BY <1>2, <1>q DEF Commit, Complete, Void, Release, DeleteJournal, WindowPasses,
       ExpireClaimWindow, SettleEnd, engineVars
  <1> QED
    BY <1>b, <1>i, <1>j, <1>k, <1>l, <1>n, <1>o, <1>p, <1>q DEF Next

LEMMA SettlingNext == Typed /\ ReserveBears /\ SettleInv /\ [Next]_vars => SettleInv'
  <1> SUFFICES ASSUME Typed, ReserveBears, SettleInv, [Next]_vars PROVE SettleInv'
    OBVIOUS
  <1>0. /\ claims \in Seq(Claim) /\ Len(claims) \in Nat
        /\ \A k \in 1 .. Len(claims) : claims[k] \in Claim /\ claims[k].payout \in Nat
        /\ settling \in Nat /\ reserve \in Reserve
    <2>1. claims \in Seq(Claim) /\ settling \in Nat /\ reserve \in Reserve
      BY DEF Typed
    <2>2. Len(claims) \in Nat /\ \A k \in 1 .. Len(claims) : claims[k] \in Claim
      BY <2>1
    <2> QED  BY <2>1, <2>2 DEF Claim
  <1>1. ASSUME UNCHANGED <<claims, reserve, settling, journal>> PROVE SettleInv'
    BY <1>1 DEF SettleInv, Payable, Available
  <1>2. ASSUME settling' = 0 PROVE SettleInv'
    BY <1>2 DEF SettleInv
  <1>3. ASSUME NEW g \in Guarantees, journal[g] # "none", settling' = settling PROVE SettleInv'
    BY <1>3 DEF SettleInv
  <1>a. ASSUME NEW g \in Guarantees, Attach(g) \/ Release(g) \/ DeleteJournal(g) PROVE SettleInv'
    BY <1>3, <1>a DEF Attach, Release, DeleteJournal
  <1>b. ASSUME \/ \E g \in Guarantees :
                     \/ Commit(g) \/ Complete(g) \/ Void(g) \/ ExpireClaimWindow(g)
                     \/ \E amount \in Amounts, barred \in BOOLEAN : FileClaim(g, amount, barred)
               \/ \E k \in 1 .. MaxClaims, covered \in BOOLEAN, amount \in Amounts :
                     DecideClaim(k, covered, amount)
        PROVE  SettleInv'
    <2>1. settling' = 0
      BY <1>b DEF Commit, Complete, Void, ExpireClaimWindow, FileClaim, DecideClaim,
         Serving, Quiet
    <2> QED  BY <1>2, <2>1
  <1>c. ASSUME NEW g \in Guarantees, WindowPasses(g) PROVE SettleInv'
    BY <1>1, <1>c DEF WindowPasses, engineVars
  <1>k. ASSUME NEW usd \in Amounts, AddCapital(usd) PROVE SettleInv'
    <2>1. /\ settling' = 1 /\ \A g \in Guarantees : journal'[g] = "none"
          /\ claims' = claims
      BY <1>k DEF AddCapital, Serving, venueVars
    <2>2. \A k \in 1 .. Len(claims') : ~(k < settling')
      BY <1>0, <2>1
    <2> QED  BY <2>1, <2>2 DEF SettleInv
  <1>l. CASE SettleNext
    <2>1. /\ settling \in 1 .. Len(claims) /\ settling' = settling + 1
          /\ journal' = journal /\ settling # 0
      BY <1>l DEF SettleNext, venueVars
    <2>2. \A k \in 1 .. Len(claims) : k < settling' => k = settling \/ k < settling
      BY <1>0, <2>1
    <2>3. CASE claims[settling].status = "DEFERRED"
      <3> DEFINE d == claims[settling]
      <3>1. d \in Claim /\ settling \in 1 .. Len(claims) + 1 /\ ~(settling > Len(claims))
        BY <1>0, <2>1
      <3>2. Settle(settling, d, TRUE)
        BY <1>l, <2>3 DEF SettleNext
      <3> HIDE DEF d
      <3>3. /\ Len(claims') = Len(claims)
            /\ \A i \in 1 .. Len(claims) : i # settling => claims'[i] = claims[i]
            /\ claims'[settling].payout = d.payout
            /\ claims'[settling].status = IF Pays(d, TRUE) THEN "PAID" ELSE "DEFERRED"
            /\ ~Pays(d, TRUE) => reserve' = reserve
        BY <3>1, <3>2, Settles
      <3>4. Available(reserve') <= Available(reserve) /\ reserve' \in Reserve
        BY <3>1, <3>2, Settles, SettleBears DEF ReserveBears
      <3>5. Available(reserve) \in Int /\ Available(reserve') \in Int
        BY <1>0, <3>4, ReserveTyped
      <3>6. ASSUME NEW k \in 1 .. Len(claims), k < settling, claims[k].status = "DEFERRED"
            PROVE  ~(claims[k].payout <= Available(reserve'))
        <4>1. ~(claims[k].payout <= Available(reserve))
          BY <2>1, <3>6 DEF SettleInv, Payable
        <4>2. claims[k].payout \in Nat
          BY <1>0
        <4> QED  BY <3>4, <3>5, <4>1, <4>2
      <3>7. claims'[settling].status = "DEFERRED" =>
               ~(claims'[settling].payout <= Available(reserve'))
        BY <3>3 DEF Pays, Payable
      <3>8. \A k \in 1 .. Len(claims) : k < settling => k # settling
        BY <1>0
      <3>9. ASSUME NEW k \in 1 .. Len(claims'), k < settling', claims'[k].status = "DEFERRED"
            PROVE  ~(claims'[k].payout <= Available(reserve'))
        <4>1. k = settling \/ k < settling
          BY <2>2, <3>3, <3>9
        <4>2. CASE k = settling
          BY <3>7, <3>9, <4>2
        <4>3. CASE k < settling
          <5>1. claims'[k] = claims[k]
            BY <3>3, <3>8, <4>3
          <5> QED  BY <3>3, <3>6, <3>9, <4>3, <5>1
        <4> QED  BY <4>1, <4>2, <4>3
      <3> QED  BY <2>1, <3>9 DEF SettleInv, Payable
    <2>4. CASE claims[settling].status # "DEFERRED"
      <3>1. UNCHANGED <<claims, reserve>>
        BY <1>l, <2>4 DEF SettleNext, engineVars
      <3>2. ASSUME NEW k \in 1 .. Len(claims), k < settling', claims[k].status = "DEFERRED"
            PROVE  ~(claims[k].payout <= Available(reserve))
        BY <2>1, <2>2, <2>4, <3>2 DEF SettleInv, Payable
      <3> QED  BY <2>1, <3>1, <3>2 DEF SettleInv, Payable, Available
    <2> QED  BY <2>3, <2>4
  <1>m. CASE SettleEnd \/ Crash
    BY <1>2, <1>m DEF SettleEnd, Crash
  <1>n. CASE Write
    BY <1>1, <1>n DEF Write, engineVars, venueVars
  <1>p. CASE UNCHANGED vars
    BY <1>1, <1>p DEF vars, engineVars, venueVars
  <1> QED
    BY <1>a, <1>b, <1>c, <1>k, <1>l, <1>m, <1>n, <1>p DEF Next

----------------------------------------------------------------------------
(* Theorems                                                                *)

LEMMA InvInit == Init => Typed /\ Inv /\ ReserveBears
  <1> SUFFICES ASSUME Init PROVE Typed /\ Inv /\ ReserveBears
    OBVIOUS
  <1>1. Typed
    BY TypedInit
  <1>2. WriteInv
    BY WriteInit
  <1>3. /\ disk.book = book /\ disk.guarantees = guarantee /\ disk.claims = claims
        /\ disk.reserve = reserve /\ claims = <<>> /\ chain = <<>>
        /\ Len(claims) = 0 /\ Len(chain) = 0
        /\ \A g \in Guarantees : /\ book[g] = "none" /\ journal[g] = "none"
                                 /\ guarantee[g] = [status |-> "none", why |-> "none"]
        /\ committed = {} /\ settling = 0
    BY DEF Init, OnFile
  <1>4. RecordInv
    BY <1>3 DEF RecordInv, BookSound, ClaimsSound, FilesBehind
  <1>5. ChainInv
    BY <1>3 DEF ChainInv, OnChain
  <1>6. BookExact
    BY <1>3 DEF BookExact, Outstanding
  <1>7. SettleInv
    BY <1>3 DEF SettleInv
  <1>8. ReserveBears
    <2>1. reserve.capital = Capital /\ reserve.premiums = 0 /\ reserve.payouts = 0
      BY DEF Init
    <2> QED  BY <1>3, <2>1 DEF ReserveBears, Available
  <1> QED  BY <1>1, <1>2, <1>4, <1>5, <1>6, <1>7, <1>8 DEF Inv

LEMMA InvNext == Typed /\ Inv /\ ReserveBears /\ [Next]_vars => Typed' /\ Inv' /\ ReserveBears'
  <1> SUFFICES ASSUME Typed, Inv, ReserveBears, [Next]_vars PROVE Typed' /\ Inv' /\ ReserveBears'
    OBVIOUS
  <1>1. WriteInv /\ BothSound /\ ClaimsInv /\ ChainInv /\ BookExact /\ SettleInv /\ FilesBehind
    BY DEF Inv, RecordInv, BothSound, ClaimsInv
  <1>2. BothSound' /\ ClaimsInv'
    BY <1>1, SoundNext, ClaimsNext
  <1>3. RecordInv'
    BY <1>2 DEF RecordInv, BothSound, ClaimsInv
  <1>4. /\ Typed' /\ WriteInv' /\ ChainInv' /\ BookExact' /\ SettleInv' /\ ReserveBears'
    BY <1>1, TypedNext, WriteNext, ChainNext, ExactNext, SettlingNext, BearsNext
  <1> QED  BY <1>3, <1>4 DEF Inv

LEMMA Invariant == Spec => [](Typed /\ Inv /\ ReserveBears)
  BY InvInit, InvNext, PTL DEF Spec

\* "Never paid from nothing", for any capital, premiums and claims, in memory and in
\* what a restart would read (settle, persist)
THEOREM NeverPaidFromNothing == Spec => []ReserveBears
  BY Invariant, PTL

\* Claims are right for any number of guarantees, claims and crashes between any two
\* files: the rules pay one claim of a guarantee when it is filed, the ledger says
\* nothing the files do not, and a claim that waits keeps its guarantee
THEOREM ClaimsAlwaysRight == Spec => []ClaimsAreRight
  <1>1. Typed /\ Inv => ClaimsAreRight
    <2> SUFFICES ASSUME Typed, Inv PROVE ClaimsAreRight
      OBVIOUS
    <2>1. PaidOnceWhenFiled /\ DeferredHeldOpen
      BY DEF Inv, RecordInv, ClaimsSound, PaidOnceWhenFiled, DeferredHeldOpen
    <2>2. Serving => \A x : ~Unwritten(x)
      BY NothingWaits DEF Inv, Serving, Quiet
    <2>3. ChainFollowsFiles
      BY <2>2 DEF Inv, ChainInv, ChainFollowsFiles
    <2> QED  BY <2>1, <2>3 DEF ClaimsAreRight
  <1> QED  BY <1>1, Invariant, PTL

\* Between operations every commitment has its guarantee and its entry in the book,
\* and a guarantee given back holds nothing, after any crash (attach, release, recover)
THEOREM ExposureBooked == Spec => []ExposureComesBack
  <1>1. Typed /\ Inv => ExposureComesBack
    <2> SUFFICES ASSUME Typed, Inv, Serving PROVE ExposureComesBack
      BY DEF ExposureComesBack
    <2>1. /\ \A g \in Guarantees : journal[g] = "none"
          /\ BookSound(book, guarantee) /\ BookExact
          /\ guarantee \in [Guarantees -> [status : Statuses, why : Reasons]]
      BY DEF Serving, Inv, RecordInv, Typed
    <2>2. ASSUME NEW g \in Guarantees
          PROVE  /\ g \in committed <=> guarantee[g].status # "none"
                 /\ g \in committed <=> book[g] # "none"
                 /\ g \notin Outstanding(guarantee) => book[g] # "held"
                 /\ crashes = 0 /\ g \in Outstanding(guarantee) => book[g] = "held"
      <3>1. g \in committed <=> guarantee[g].status # "none"
        BY <2>1 DEF BookSound
      <3>2. g \in committed <=> book[g] # "none"
        BY <2>1, <3>1 DEF BookSound
      <3>3. crashes = 0 /\ g \in Outstanding(guarantee) => book[g] = "held"
        BY <2>1 DEF BookExact
      <3>4. g \notin Outstanding(guarantee) => guarantee[g].status \in {"none", "RELEASED"}
        <4>1. guarantee[g].status \in Statuses
          BY <2>1
        <4> QED  BY <4>1 DEF Outstanding, Statuses
      <3>5. g \notin Outstanding(guarantee) => book[g] # "held"
        BY <2>1, <3>1, <3>2, <3>4 DEF BookSound
      <3> QED  BY <3>1, <3>2, <3>3, <3>5
    <2> QED  BY <2>2 DEF ExposureComesBack
  <1> QED  BY <1>1, Invariant, PTL

\* However many claims wait and whatever they claim: when the settling ends, each that
\* still waits is larger than what is left (settleDeferred)
THEOREM CapitalReachesClaims == Spec => CapitalGoesToClaims
  <1> DEFINE A == settling # 0 /\ settling' = 0 /\ UNCHANGED crashes =>
                     \A k \in 1 .. Len(claims) :
                        claims[k].status = "DEFERRED" => ~Payable(claims[k].payout)
  <1>1. Typed /\ Inv /\ [Next]_vars => [A]_vars
    <2> SUFFICES ASSUME Typed, Inv, Next, settling # 0, settling' = 0, crashes' = crashes
                 PROVE  \A k \in 1 .. Len(claims) :
                           claims[k].status = "DEFERRED" => ~Payable(claims[k].payout)
      OBVIOUS
    <2>1. /\ settling \in Nat /\ Len(claims) \in Nat /\ crashes \in Nat
          /\ settling # 0 => \A g \in Guarantees : journal[g] = "none"
      BY DEF Typed, Inv, SettleInv
    <2>2. SettleEnd
      <3>1. ~SettleNext /\ ~Crash
        <4>1. SettleNext => settling' = settling + 1
          BY DEF SettleNext
        <4>2. Crash => crashes' = crashes + 1
          BY DEF Crash
        <4> QED  BY <2>1, <4>1, <4>2
      <3>2. ASSUME NEW g \in Guarantees
            PROVE  /\ ~Commit(g) /\ ~Attach(g) /\ ~Complete(g) /\ ~Void(g) /\ ~Release(g)
                   /\ ~DeleteJournal(g) /\ ~WindowPasses(g) /\ ~ExpireClaimWindow(g)
                   /\ \A amount \in Amounts, barred \in BOOLEAN : ~FileClaim(g, amount, barred)
        BY <2>1 DEF Commit, Attach, Complete, Void, Release, DeleteJournal, WindowPasses,
           ExpireClaimWindow, FileClaim, Serving, Quiet
      <3>3. /\ ~Write
            /\ \A usd \in Amounts : ~AddCapital(usd)
            /\ \A k \in 1 .. MaxClaims, covered \in BOOLEAN, amount \in Amounts :
                  ~DecideClaim(k, covered, amount)
        BY DEF Write, AddCapital, DecideClaim, Serving, Quiet
      <3> QED  BY <3>1, <3>2, <3>3 DEF Next
    <2>3. \A k \in 1 .. Len(claims) : k < settling
      BY <2>1, <2>2 DEF SettleEnd
    <2> QED  BY <2>3 DEF Inv, SettleInv
  <1>2. Spec => [][A]_vars
    BY <1>1, Invariant, PTL DEF Spec
  <1> QED  BY <1>2 DEF CapitalGoesToClaims

----------------------------------------------------------------------------
(* Sums over finite sets, by induction on their size                       *)

\* What a number meets that its successor meets too, every number meets
LEMMA NoLeastMissed ==
    ASSUME NEW S, 0 \in S, \A n \in Nat : n \in S => n + 1 \in S
    PROVE  Nat \subseteq S
  <1> SUFFICES ASSUME NEW x \in Nat, x \notin S PROVE FALSE
    OBVIOUS
  <1>1. PICK T : T = Nat \ S
    OBVIOUS
  <1>2. T \in SUBSET Nat /\ x \in T
    BY <1>1
  <1>3. PICK t \in T : \A u \in T : ~(<<u, t>> \in OpToRel(<, Nat))
    BY <1>2, NatLessThanWellFounded, WFMin, Zenon
  <1>4. t \in Nat /\ t \notin S /\ t # 0
    BY <1>1, <1>3
  <1>5. t - 1 \in Nat /\ t - 1 < t /\ t = (t - 1) + 1
    BY <1>4
  <1>6. t - 1 \in S
    BY <1>1, <1>3, <1>5 DEF OpToRel
  <1> QED  BY <1>4, <1>5, <1>6

\* The function that Total folds with
SumIs(f, set, H) == H = [s \in SUBSET set |->
                           IF s = {} THEN 0
                           ELSE LET x == CHOOSE y \in s : TRUE IN f[x] + H[s \ {x}]]

First(s) == CHOOSE y \in s : TRUE
Rest(s) == s \ {First(s)}

LEMMA TotalIs == ASSUME NEW f, NEW set PROVE Total(f, set) = (CHOOSE H : SumIs(f, set, H))[set]
  BY Zenon DEF Total, MapThenSumSet, MapThenFoldSet, SumIs

LEMMA FirstIn == ASSUME NEW s, s # {} PROVE First(s) \in s
  BY DEF First

LEMMA SumUnfolds ==
    ASSUME NEW f, NEW set, NEW H, SumIs(f, set, H), NEW s \in SUBSET set
    PROVE  H[s] = IF s = {} THEN 0 ELSE f[First(s)] + H[Rest(s)]
  <1>1. PICK G : G = H
    OBVIOUS
  <1>2. H = [r \in SUBSET set |->
               IF r = {} THEN 0 ELSE f[First(r)] + G[Rest(r)]]
    BY <1>1, Zenon DEF SumIs, First, Rest
  <1> QED  BY <1>1, <1>2

LEMMA SumOfNone == ASSUME NEW f, NEW set, NEW H, SumIs(f, set, H) PROVE H[{}] = 0
  <1>1. {} \in SUBSET set
    OBVIOUS
  <1>2. H[{}] = IF {} = {} THEN 0 ELSE f[First({})] + H[Rest({})]
    BY <1>1, SumUnfolds, Zenon
  <1> QED  BY <1>2, Zenon

LEMMA SumOfSome ==
    ASSUME NEW f, NEW set, NEW H, SumIs(f, set, H), NEW s \in SUBSET set, s # {}
    PROVE  H[s] = f[First(s)] + H[Rest(s)]
  BY SumUnfolds

\* A set with one element more than n has a first, and n others
LEMMA OneLess ==
    ASSUME NEW s, IsFiniteSet(s), NEW x \in s
    PROVE  /\ IsFiniteSet(s \ {x}) /\ Cardinality(s \ {x}) \in Nat
           /\ Cardinality(s) = Cardinality(s \ {x}) + 1
  <1>1. IsFiniteSet(s \ {x}) /\ Cardinality(s \ {x}) = Cardinality(s) - 1
    BY FS_RemoveElement
  <1>2. Cardinality(s) \in Nat /\ Cardinality(s \ {x}) \in Nat
    BY <1>1, FS_CardinalityType
  <1> QED  BY <1>1, <1>2

\* Sums of the same numbers are the same
LEMMA SumsAgree ==
    ASSUME NEW f, NEW g, NEW A, NEW B, NEW G, NEW H, SumIs(f, A, G), SumIs(g, B, H),
           NEW s, s \in SUBSET A, s \in SUBSET B, IsFiniteSet(s), \A x \in s : f[x] = g[x]
    PROVE  G[s] = H[s]
  <1> DEFINE Same(r) == G[r] = H[r]
             S == {n \in Nat : \A r \in SUBSET s : IsFiniteSet(r) /\ Cardinality(r) = n => Same(r)}
  <1>1. 0 \in S
    <2> SUFFICES ASSUME NEW r \in SUBSET s, IsFiniteSet(r), Cardinality(r) = 0 PROVE Same(r)
      OBVIOUS
    <2>1. r = {}
      BY FS_EmptySet
    <2>2. r \in SUBSET A /\ r \in SUBSET B
      OBVIOUS
    <2>3. G[{}] = 0 /\ H[{}] = 0
      BY SumOfNone
    <2> QED  BY <2>1, <2>3, Zenon
  <1>2. ASSUME NEW n \in Nat, n \in S PROVE n + 1 \in S
    <2> SUFFICES ASSUME NEW r \in SUBSET s, IsFiniteSet(r), Cardinality(r) = n + 1 PROVE Same(r)
      OBVIOUS
    <2>1. r # {}
      <3>1. CASE r = {}
        BY <3>1, FS_EmptySet
      <3> QED  BY <3>1
    <2>2. PICK x : x = First(r)
      OBVIOUS
    <2>3. x \in r
      BY <2>1, <2>2, FirstIn
    <2>4. PICK q : q = Rest(r)
      OBVIOUS
    <2>5. q \in SUBSET s /\ IsFiniteSet(q) /\ Cardinality(q) = n
      <3>1. q = r \ {x}
        BY <2>2, <2>4 DEF Rest
      <3>2. IsFiniteSet(q) /\ Cardinality(q) \in Nat /\ Cardinality(r) = Cardinality(q) + 1
        BY <2>3, <3>1, OneLess, Zenon
      <3>3. Cardinality(q) = n
        BY <3>2
      <3> QED  BY <3>1, <3>2, <3>3
    <2>6. G[q] = H[q]
      BY <1>2, <2>5
    <2>7. G[r] = f[x] + G[q] /\ H[r] = g[x] + H[q]
      <3>1. r \in SUBSET A /\ r \in SUBSET B
        OBVIOUS
      <3>2. G[r] = f[First(r)] + G[Rest(r)]
        BY <2>1, <3>1, SumOfSome
      <3>3. H[r] = g[First(r)] + H[Rest(r)]
        BY <2>1, <3>1, SumOfSome
      <3> QED  BY <2>2, <2>4, <3>2, <3>3, Zenon
    <2>8. f[x] = g[x]
      BY <2>3
    <2> QED  BY <2>6, <2>7, <2>8
  <1>3. Nat \subseteq S
    <2> HIDE DEF S
    <2> QED  BY <1>1, <1>2, NoLeastMissed
  <1>4. Cardinality(s) \in Nat
    BY FS_CardinalityType
  <1> QED  BY <1>3, <1>4

\* The sum of a finite set is there
LEMMA SumThere ==
    ASSUME NEW f, NEW set, IsFiniteSet(set)
    PROVE  \E H : SumIs(f, set, H)
  <1> DEFINE There(r) == \E H : SumIs(f, r, H)
             S == {n \in Nat : \A r \in SUBSET set :
                                  IsFiniteSet(r) /\ Cardinality(r) <= n => There(r)}
             Of(r) == CHOOSE H : SumIs(f, r, H)
  <1>1. 0 \in S
    <2> SUFFICES ASSUME NEW r \in SUBSET set, IsFiniteSet(r), Cardinality(r) <= 0 PROVE There(r)
      OBVIOUS
    <2>1. r = {}
      BY FS_EmptySet, FS_CardinalityType
    <2>2. PICK H : H = [s \in SUBSET r |-> 0]
      OBVIOUS
    <2>3. \A s \in SUBSET r : s = {}
      BY <2>1
    <2>4. H = [s \in SUBSET r |-> IF s = {} THEN 0
                                  ELSE LET x == CHOOSE y \in s : TRUE IN f[x] + H[s \ {x}]]
      BY <2>2, <2>3
    <2> QED  BY <2>4, ZenonT(60) DEF SumIs
  <1>2. ASSUME NEW n \in Nat, n \in S PROVE n + 1 \in S
    <2> SUFFICES ASSUME NEW r \in SUBSET set, IsFiniteSet(r), Cardinality(r) <= n + 1 PROVE There(r)
      OBVIOUS
    <2>1. ASSUME NEW s \in SUBSET r, NEW x \in s
          PROVE  SumIs(f, s \ {x}, Of(s \ {x})) /\ IsFiniteSet(s \ {x})
      <3>1. IsFiniteSet(s) /\ Cardinality(s) <= Cardinality(r)
        BY FS_Subset
      <3>2. IsFiniteSet(s \ {x}) /\ Cardinality(s \ {x}) <= n
        <4>1. /\ IsFiniteSet(s \ {x}) /\ Cardinality(s \ {x}) \in Nat
              /\ Cardinality(s) = Cardinality(s \ {x}) + 1
          BY <3>1, OneLess
        <4>2. Cardinality(r) \in Nat
          BY FS_CardinalityType
        <4> QED  BY <3>1, <4>1, <4>2
      <3>3. There(s \ {x})
        BY <1>2, <3>2
      <3> QED  BY <3>2, <3>3
    <2>2. PICK G : G = [s \in SUBSET r |-> IF s = {} THEN 0
                                           ELSE f[First(s)] + Of(Rest(s))[Rest(s)]]
      OBVIOUS
    <2>3. ASSUME NEW s \in SUBSET r, NEW x \in s
          PROVE  G[s \ {x}] = Of(s \ {x})[s \ {x}]
      <3>1. PICK q : q = s \ {x}
        OBVIOUS
      <3>2. q \in SUBSET r /\ SumIs(f, q, Of(q)) /\ IsFiniteSet(q)
        BY <2>1, <3>1
      <3>3. CASE q = {}
        <4>1. PICK H : H = Of(q)
          OBVIOUS
        <4>2. H[{}] = 0
          BY <3>2, <4>1, SumOfNone, Zenon
        <4>3. G[q] = 0
          BY <2>2, <3>2, <3>3
        <4> QED  BY <3>1, <3>3, <4>1, <4>2, <4>3, Zenon
      <3>4. CASE q # {}
        <4>1. PICK y : y = First(q)
          OBVIOUS
        <4>2. PICK p : p = Rest(q) /\ p = q \ {y}
          BY <4>1 DEF Rest
        <4>3. y \in q
          BY <3>4, <4>1, FirstIn
        <4>4. G[q] = f[y] + Of(p)[p]
          BY <2>2, <3>2, <3>4, <4>1, <4>2
        <4>5. PICK H : H = Of(q)
          OBVIOUS
        <4>6. H[q] = f[y] + H[p]
          <5>1. q \in SUBSET q /\ SumIs(f, q, H)
            BY <3>2, <4>5
          <5>2. H[q] = f[First(q)] + H[Rest(q)]
            BY <3>4, <5>1, SumOfSome
          <5> QED  BY <4>1, <4>2, <5>2, Zenon
        <4>7. SumIs(f, p, Of(p)) /\ IsFiniteSet(p)
          BY <2>1, <3>2, <4>2, <4>3
        <4>8. PICK K : K = Of(p)
          OBVIOUS
        <4>9. p \in SUBSET p /\ p \in SUBSET q
          BY <4>2
        <4>10. H[p] = K[p]
          BY <3>2, <4>5, <4>7, <4>8, <4>9, SumsAgree
        <4> QED  BY <3>1, <4>4, <4>5, <4>6, <4>8, <4>10, Zenon
      <3> QED  BY <3>3, <3>4
    <2>4. G = [s \in SUBSET r |-> IF s = {} THEN 0 ELSE f[First(s)] + G[Rest(s)]]
      <3>1. ASSUME NEW s \in SUBSET r, s # {}
            PROVE  G[Rest(s)] = Of(Rest(s))[Rest(s)]
        BY <2>3, <3>1, FirstIn DEF Rest
      <3> HIDE DEF Of
      <3>2. \A s \in SUBSET r : s # {} => G[Rest(s)] = Of(Rest(s))[Rest(s)]
        BY <3>1
      <3> QED  BY <2>2, <3>2
    <2>5. SumIs(f, r, G)
      BY <2>4, Zenon DEF SumIs, First, Rest
    <2> QED  BY <2>5
  <1>3. Nat \subseteq S
    <2> HIDE DEF S
    <2> QED  BY <1>1, <1>2, NoLeastMissed
  <1>4. Cardinality(set) \in Nat
    BY FS_CardinalityType
  <1> QED  BY <1>3, <1>4

\* What a sum is made of: nothing, or one number and the rest
LEMMA TotalOfNone == ASSUME NEW f PROVE Total(f, {}) = 0
  <1>1. PICK H : H = CHOOSE K : SumIs(f, {}, K)
    OBVIOUS
  <1>2. \E K : SumIs(f, {}, K)
    BY SumThere, FS_EmptySet
  <1>3. SumIs(f, {}, H)
    BY <1>1, <1>2, Zenon
  <1>4. Total(f, {}) = H[{}]
    BY <1>1, TotalIs, Zenon
  <1> QED  BY <1>3, <1>4, SumOfNone

LEMMA TotalOfSome ==
    ASSUME NEW f, NEW s, IsFiniteSet(s), s # {}
    PROVE  Total(f, s) = f[First(s)] + Total(f, Rest(s))
  <1>1. PICK H : H = CHOOSE K : SumIs(f, s, K)
    OBVIOUS
  <1>2. SumIs(f, s, H) /\ Total(f, s) = H[s]
    BY <1>1, SumThere, TotalIs
  <1>3. PICK x : x = First(s)
    OBVIOUS
  <1>4. PICK q : q = Rest(s) /\ q = s \ {x}
    BY <1>3 DEF Rest
  <1>5. x \in s
    BY <1>3, FirstIn
  <1>6. IsFiniteSet(q) /\ q \in SUBSET s /\ q \in SUBSET q /\ s \in SUBSET s
    BY <1>5, <1>4, OneLess
  <1>7. PICK K : K = CHOOSE J : SumIs(f, q, J)
    OBVIOUS
  <1>8. SumIs(f, q, K) /\ Total(f, q) = K[q]
    BY <1>6, <1>7, SumThere, TotalIs
  <1>9. H[q] = K[q]
    BY <1>2, <1>6, <1>8, SumsAgree
  <1>10. H[s] = f[First(s)] + H[Rest(s)]
    BY <1>2, <1>6, SumOfSome
  <1> QED  BY <1>2, <1>8, <1>9, <1>10, <1>3, <1>4, Zenon

LEMMA TotalAgrees ==
    ASSUME NEW f, NEW g, NEW s, IsFiniteSet(s), \A x \in s : f[x] = g[x]
    PROVE  Total(f, s) = Total(g, s)
  <1>1. PICK H : H = CHOOSE K : SumIs(f, s, K)
    OBVIOUS
  <1>2. PICK G : G = CHOOSE K : SumIs(g, s, K)
    OBVIOUS
  <1>3. SumIs(f, s, H) /\ Total(f, s) = H[s] /\ SumIs(g, s, G) /\ Total(g, s) = G[s]
    BY <1>1, <1>2, SumThere, TotalIs
  <1>4. s \in SUBSET s
    OBVIOUS
  <1> QED  BY <1>3, <1>4, SumsAgree

LEMMA TotalType ==
    ASSUME NEW f, NEW s, IsFiniteSet(s), \A x \in s : f[x] \in Nat
    PROVE  Total(f, s) \in Nat
  <1> DEFINE S == {n \in Nat : \A r \in SUBSET s : IsFiniteSet(r) /\ Cardinality(r) = n => Total(f, r) \in Nat}
  <1>1. 0 \in S
    <2> SUFFICES ASSUME NEW r \in SUBSET s, IsFiniteSet(r), Cardinality(r) = 0 PROVE Total(f, r) \in Nat
      OBVIOUS
    <2>1. r = {}
      BY FS_EmptySet
    <2>2. Total(f, {}) = 0
      BY TotalOfNone
    <2> QED  BY <2>1, <2>2
  <1>2. ASSUME NEW n \in Nat, n \in S PROVE n + 1 \in S
    <2> SUFFICES ASSUME NEW r \in SUBSET s, IsFiniteSet(r), Cardinality(r) = n + 1 PROVE Total(f, r) \in Nat
      OBVIOUS
    <2>1. r # {}
      <3>1. CASE r = {}
        BY <3>1, FS_EmptySet
      <3> QED  BY <3>1
    <2>2. PICK x : x = First(r)
      OBVIOUS
    <2>3. x \in r
      BY <2>1, <2>2, FirstIn
    <2>4. PICK q : q = Rest(r) /\ q = r \ {x}
      BY <2>2 DEF Rest
    <2>5. q \in SUBSET s /\ IsFiniteSet(q) /\ Cardinality(q) = n
      BY <2>3, <2>4, OneLess
    <2>6. Total(f, q) \in Nat
      BY <1>2, <2>5
    <2>7. Total(f, r) = f[x] + Total(f, q)
      <3>1. Total(f, r) = f[First(r)] + Total(f, Rest(r))
        BY <2>1, TotalOfSome, Zenon
      <3> QED  BY <2>2, <2>4, <3>1, Zenon
    <2>8. f[x] \in Nat
      BY <2>3
    <2> QED  BY <2>6, <2>7, <2>8
  <1>3. Nat \subseteq S
    <2> HIDE DEF S
    <2> QED  BY <1>1, <1>2, NoLeastMissed
  <1>4. Cardinality(s) \in Nat
    BY FS_CardinalityType
  <1> QED  BY <1>3, <1>4

\* The order of a sum does not matter: any number may be taken out
LEMMA TotalWithout ==
    ASSUME NEW f, NEW s, IsFiniteSet(s), \A y \in s : f[y] \in Nat,
           NEW x \in s, NEW q, q = s \ {x}
    PROVE  Total(f, s) = f[x] + Total(f, q)
  <1> DEFINE Any(r) == \A y \in r, u \in SUBSET r :
                          u = r \ {y} => Total(f, r) = f[y] + Total(f, u)
             S == {n \in Nat : \A r \in SUBSET s : IsFiniteSet(r) /\ Cardinality(r) = n => Any(r)}
  <1>1. 0 \in S
    <2> SUFFICES ASSUME NEW r \in SUBSET s, IsFiniteSet(r), Cardinality(r) = 0, NEW y \in r PROVE FALSE
      OBVIOUS
    <2>1. r = {}
      BY FS_EmptySet
    <2> QED  BY <2>1
  <1>2. ASSUME NEW n \in Nat, n \in S PROVE n + 1 \in S
    <2> SUFFICES ASSUME NEW r \in SUBSET s, IsFiniteSet(r), Cardinality(r) = n + 1,
                        NEW y \in r, NEW u \in SUBSET r, u = r \ {y}
                 PROVE  Total(f, r) = f[y] + Total(f, u)
      OBVIOUS
    <2>1. PICK z : z = First(r)
      OBVIOUS
    <2>2. PICK p : p = Rest(r) /\ p = r \ {z}
      BY <2>1 DEF Rest
    <2>3. z \in r /\ r # {}
      BY <2>1, FirstIn
    <2>4. Total(f, r) = f[z] + Total(f, p)
      <3>1. Total(f, r) = f[First(r)] + Total(f, Rest(r))
        BY <2>3, TotalOfSome, Zenon
      <3> QED  BY <2>1, <2>2, <3>1, Zenon
    <2>5. CASE z = y
      <3>1. p = u
        BY <2>2, <2>5
      <3> QED  BY <2>4, <2>5, <3>1, Zenon
    <2>6. CASE z # y
      <3>1. p \in SUBSET s /\ IsFiniteSet(p) /\ Cardinality(p) = n /\ y \in p
        <4>1. IsFiniteSet(p) /\ Cardinality(p) \in Nat /\ Cardinality(r) = Cardinality(p) + 1
          BY <2>2, <2>3, OneLess
        <4>2. Cardinality(p) = n
          BY <4>1
        <4> QED  BY <2>2, <2>6, <4>1, <4>2
      <3>2. u \in SUBSET s /\ IsFiniteSet(u) /\ Cardinality(u) = n /\ z \in u
        <4>1. IsFiniteSet(u) /\ Cardinality(u) \in Nat /\ Cardinality(r) = Cardinality(u) + 1
          BY OneLess
        <4>2. Cardinality(u) = n
          BY <4>1
        <4> QED  BY <2>3, <2>6, <4>1, <4>2
      <3>3. PICK t : t = p \ {y}
        OBVIOUS
      <3>4. t = u \ {z} /\ t \in SUBSET p /\ t \in SUBSET u /\ t \in SUBSET s
        BY <2>2, <3>1, <3>3
      <3>5. Any(p) /\ Any(u)
        BY <1>2, <3>1, <3>2
      <3>6. Total(f, p) = f[y] + Total(f, t) /\ Total(f, u) = f[z] + Total(f, t)
        BY <3>1, <3>2, <3>3, <3>4, <3>5, ZenonT(60)
      <3>7. Total(f, t) \in Nat
        <4>1. IsFiniteSet(t)
          BY <3>1, <3>3, OneLess
        <4>2. \A w \in t : f[w] \in Nat
          BY <3>4
        <4> QED  BY <4>1, <4>2, TotalType
      <3>8. PICK a, b, c, d, e : /\ a = Total(f, r) /\ b = Total(f, p) /\ c = Total(f, u)
                                 /\ d = Total(f, t) /\ e = f[z]
        OBVIOUS
      <3>9. e \in Nat /\ f[y] \in Nat
        BY <2>3, <3>8
      <3> HIDE DEF S
      <3> QED  BY <2>4, <3>6, <3>7, <3>8, <3>9
    <2> QED  BY <2>5, <2>6
  <1>3. Nat \subseteq S
    <2> HIDE DEF S
    <2> QED  BY <1>1, <1>2, NoLeastMissed
  <1>4. Cardinality(s) \in Nat /\ s \in SUBSET s /\ q \in SUBSET s
    BY FS_CardinalityType
  <1>5. Any(s)
    BY <1>3, <1>4
  <1> QED  BY <1>4, <1>5

LEMMA TotalWith ==
    ASSUME NEW f, NEW s, IsFiniteSet(s), NEW x, x \notin s, \A y \in s \cup {x} : f[y] \in Nat,
           NEW r, r = s \cup {x}
    PROVE  IsFiniteSet(r) /\ Total(f, s) \in Nat /\ Total(f, r) = Total(f, s) + f[x]
  <1>1. IsFiniteSet(r) /\ s = r \ {x} /\ x \in r /\ \A y \in r : f[y] \in Nat
    BY FS_AddElement
  <1>2. Total(f, r) = f[x] + Total(f, s)
    BY <1>1, TotalWithout
  <1>3. Total(f, s) \in Nat /\ f[x] \in Nat
    BY <1>1, TotalType
  <1> QED  BY <1>1, <1>2, <1>3

----------------------------------------------------------------------------
(* The sums of the files                                                   *)

\* What a book holds of a carrier, and the sums of the files
HeldOf(b, c) == {g \in Guarantees : CarrierOf[g] = c /\ b[g] = "held"}
OnRecord(gs) == {g \in Guarantees : gs[g].status # "none"}
EarnedBy(gs) == Premium * Cardinality(OnRecord(gs))
PaidIn(cs) == {k \in 1 .. Len(cs) : cs[k].status = "PAID"}
PaidOutIn(cs) == Total([k \in PaidIn(cs) |-> cs[k].payout], PaidIn(cs))

\* One transaction of the venue is open at a time
OneOpen(j) == \A g, h \in Guarantees : j[g] # "none" /\ j[h] # "none" => g = h

\* The limit of a carrier holds of this book, also when the guarantee that is being
\* attached is entered
WithinLimit(b, j) ==
    /\ \A c \in Carriers : CoveredBy(HeldOf(b, c)) <= CarrierLimit
    /\ \A g \in Guarantees : j[g] = "COMMIT" /\ b[g] = "none" =>
          CoveredBy(HeldOf(b, CarrierOf[g])) + Covered[g] <= CarrierLimit

LimitsInv ==
    /\ IsFiniteSet(committed) /\ OneOpen(journal)
    /\ WithinLimit(book, journal) /\ WithinLimit(disk.book, journal)

\* Without a crash the portfolio is the sum of what is outstanding, within the limit
PortfolioInv ==
    crashes = 0 =>
        /\ portfolio = CoveredBy(Outstanding(guarantee)) /\ portfolio <= VenueLimit
        /\ \A g \in Guarantees : journal[g] = "COMMIT" /\ guarantee[g].status = "none" =>
              portfolio + Covered[g] <= VenueLimit

\* The reserve counts no premium that is not on record, in memory and on disk
PremiumsInv ==
    /\ reserve.premiums <= EarnedBy(guarantee)
    /\ disk.reserve.premiums <= EarnedBy(disk.guarantees)
    /\ disk.reserve.premiums <= reserve.premiums
    /\ crashes = 0 => reserve.premiums = EarnedBy(guarantee)

\* Nor a payout: the claims are written before the reserve
PayoutsInv ==
    /\ Unwritten(<<"reserve", 0>>) /\ ~Unwritten(<<"claims", 0>>) => disk.claims = claims
    /\ reserve.payouts <= PaidOutIn(claims)
    /\ disk.reserve.payouts <= PaidOutIn(disk.claims)
    /\ disk.reserve.payouts <= reserve.payouts
    /\ crashes = 0 => reserve.payouts = PaidOutIn(claims)

SumsInv == LimitsInv /\ PortfolioInv /\ PremiumsInv /\ PayoutsInv

\* A sum without some of its numbers, or with one more
LEMMA CoveredLess ==
    ASSUME NEW s \in SUBSET Guarantees, IsFiniteSet(s), NEW g \in Guarantees, NEW q, q = s \ {g}
    PROVE  /\ IsFiniteSet(q) /\ CoveredBy(q) \in Nat /\ CoveredBy(s) \in Nat
           /\ CoveredBy(q) <= CoveredBy(s)
           /\ g \in s => CoveredBy(q) = CoveredBy(s) - Covered[g]
           /\ g \notin s => q = s
  <1>1. \A h \in s : Covered[h] \in Nat
    BY GuaranteesAssumption
  <1>2. CASE g \in s
    <2>1. IsFiniteSet(q) /\ \A h \in q : Covered[h] \in Nat
      BY <1>1, <1>2, OneLess
    <2>2. Total(Covered, s) = Covered[g] + Total(Covered, q)
      BY <1>1, <1>2, TotalWithout
    <2>3. Total(Covered, q) \in Nat /\ Covered[g] \in Nat
      BY <1>1, <1>2, <2>1, TotalType
    <2> QED  BY <1>2, <2>1, <2>2, <2>3 DEF CoveredBy
  <1>3. CASE g \notin s
    <2>1. q = s
      BY <1>3
    <2>2. Total(Covered, s) \in Nat
      BY <1>1, TotalType
    <2> QED  BY <1>3, <2>1, <2>2 DEF CoveredBy
  <1> QED  BY <1>2, <1>3

LEMMA CoveredMore ==
    ASSUME NEW s \in SUBSET Guarantees, IsFiniteSet(s), NEW g \in Guarantees, g \notin s,
           NEW r, r = s \cup {g}
    PROVE  CoveredBy(s) \in Nat /\ CoveredBy(r) = CoveredBy(s) + Covered[g]
  <1>1. \A h \in s \cup {g} : Covered[h] \in Nat
    BY GuaranteesAssumption
  <1> QED  BY <1>1, TotalWith DEF CoveredBy

\* What is on record, or held by a book, is committed
LEMMA AllFinite ==
    ASSUME NEW b, NEW gs, BookSound(b, gs), IsFiniteSet(committed),
           gs \in [Guarantees -> [status : Statuses, why : Reasons]]
    PROVE  /\ IsFiniteSet(OnRecord(gs)) /\ IsFiniteSet(Outstanding(gs))
           /\ \A c : IsFiniteSet(HeldOf(b, c)) /\ HeldOf(b, c) \in SUBSET Guarantees
           /\ OnRecord(gs) \in SUBSET Guarantees /\ Outstanding(gs) \in SUBSET Guarantees
  <1>1. OnRecord(gs) \subseteq committed /\ Outstanding(gs) \subseteq committed
    BY DEF OnRecord, Outstanding, BookSound
  <1>2. ASSUME NEW c PROVE HeldOf(b, c) \subseteq committed
    BY DEF HeldOf, BookSound
  <1>3. /\ \A c : HeldOf(b, c) \in SUBSET Guarantees
        /\ OnRecord(gs) \in SUBSET Guarantees /\ Outstanding(gs) \in SUBSET Guarantees
    BY DEF HeldOf, OnRecord, Outstanding
  <1> QED  BY <1>1, <1>2, <1>3, FS_Subset

----------------------------------------------------------------------------
(* What the steps do to what is summed                                     *)

\* No claim is decided for more than its guarantee covers
PayoutsCapped(cs) == \A k \in 1 .. Len(cs) : cs[k].payout <= Covered[cs[k].of]

SettlesOne ==
    \E k \in 1 .. Len(claims) + 1, d \in Claim, covered \in BOOLEAN :
        /\ Settle(k, d, covered)
        /\ k > Len(claims) \/ claims[k].status # "PAID"
        /\ PayoutsCapped(claims) => d.payout <= Covered[d.of]

SumsStay ==
    /\ UNCHANGED <<book, guarantee, claims, portfolio, disk, journal, committed, crashes>>
    /\ reserve' \in Reserve
    /\ reserve'.premiums = reserve.premiums /\ reserve'.payouts = reserve.payouts

LEMMA SumSteps ==
    ASSUME Typed, [Next]_vars
    PROVE  \/ \E g \in Guarantees :
                 \/ Commit(g) \/ Attach(g) \/ Complete(g) \/ Void(g) \/ DeleteJournal(g)
           \/ SettlesOne /\ UNCHANGED <<disk, journal, committed, crashes>>
           \/ /\ \E g \in Guarantees, r \in Reasons : Released(g, r)
              /\ UNCHANGED <<claims, reserve, disk, journal, committed, crashes>>
           \/ SumsStay \/ Write \/ Crash
  <1>0. reserve \in Reserve /\ Len(claims) \in Nat /\ claims \in Seq(Claim)
    BY DEF Typed
  <1>a. ASSUME NEW g \in Guarantees, WindowPasses(g) PROVE SumsStay
    BY <1>0, <1>a DEF WindowPasses, SumsStay, engineVars
  <1>e. ASSUME NEW g \in Guarantees, Release(g) \/ ExpireClaimWindow(g)
        PROVE  /\ \E h \in Guarantees, r \in Reasons : Released(h, r)
               /\ UNCHANGED <<claims, reserve, disk, journal, committed, crashes>>
    <2>1. /\ Released(g, "void") \/ Released(g, "window")
          /\ UNCHANGED <<claims, reserve, disk, journal, committed, crashes>>
      BY <1>e DEF Release, ExpireClaimWindow, venueVars
    <2>2. "void" \in Reasons /\ "window" \in Reasons
      BY DEF Reasons
    <2> QED  BY <2>1, <2>2
  <1>i. ASSUME NEW g \in Guarantees, NEW amount \in Amounts, NEW barred \in BOOLEAN,
               FileClaim(g, amount, barred)
        PROVE  SettlesOne /\ UNCHANGED <<disk, journal, committed, crashes>>
    <2> DEFINE n == Len(claims) + 1
    <2>1. /\ n \in 1 .. Len(claims) + 1 /\ n > Len(claims)
          /\ \E d \in Claim, covered \in BOOLEAN :
                Settle(n, d, covered) /\ d.payout <= Covered[d.of]
          /\ UNCHANGED <<disk, journal, committed, crashes>>
      BY <1>0, <1>i, FileClaims DEF venueVars
    <2> HIDE DEF n
    <2> QED  BY <2>1 DEF SettlesOne
  <1>j. ASSUME NEW k \in 1 .. MaxClaims, NEW covered \in BOOLEAN, NEW amount \in Amounts,
               DecideClaim(k, covered, amount)
        PROVE  SettlesOne /\ UNCHANGED <<disk, journal, committed, crashes>>
    <2> DEFINE d == [claims[k] EXCEPT !.by = "ops", !.payout =
                       IF covered THEN Capped(claims[k].of, amount) ELSE 0]
    <2>1. /\ k \in 1 .. Len(claims) /\ Settle(k, d, covered) /\ claims[k].status # "PAID"
          /\ UNCHANGED <<disk, journal, committed, crashes>>
      BY <1>j DEF DecideClaim, venueVars
    <2>2. d \in Claim /\ claims[k] \in Claim
      BY <2>1, DecidedClaim
    <2>3. d.payout <= Covered[d.of]
      <3>1. PICK g \in Guarantees : g = claims[k].of
        BY <2>2 DEF Claim
      <3>2. Capped(g, amount) <= Covered[g] /\ Covered[g] \in Nat
        BY NewClaim
      <3>3. d.of = g /\ d.payout = IF covered THEN Capped(g, amount) ELSE 0
        BY <2>2, <3>1 DEF Claim
      <3> QED  BY <3>2, <3>3
    <2> HIDE DEF d
    <2>4. k \in 1 .. Len(claims) + 1
      BY <1>0, <2>1
    <2> QED  BY <2>1, <2>2, <2>3, <2>4 DEF SettlesOne
  <1>k. ASSUME NEW usd \in Amounts, AddCapital(usd) PROVE SumsStay
    <2>1. /\ reserve' = [reserve EXCEPT !.capital = @ + usd] /\ usd \in Nat
          /\ UNCHANGED <<book, guarantee, claims, portfolio, disk, journal, committed, crashes>>
      BY <1>k DEF AddCapital, venueVars
    <2>2. /\ reserve' \in Reserve
          /\ reserve'.premiums = reserve.premiums /\ reserve'.payouts = reserve.payouts
      BY <1>0, <2>1, SMTT(60) DEF Reserve
    <2> QED  BY <2>1, <2>2 DEF SumsStay
  <1>l. CASE SettleNext
    <2>1. settling \in 1 .. Len(claims) /\ UNCHANGED <<disk, journal, committed, crashes>>
      BY <1>l DEF SettleNext, venueVars
    <2>2. CASE claims[settling].status = "DEFERRED"
      <3>1. Settle(settling, claims[settling], TRUE)
        BY <1>l, <2>2 DEF SettleNext
      <3>2. claims[settling] \in Claim /\ settling \in 1 .. Len(claims) + 1
        BY <1>0, <2>1
      <3> QED  BY <2>1, <2>2, <3>1, <3>2 DEF SettlesOne, PayoutsCapped
    <2>3. CASE claims[settling].status # "DEFERRED"
      BY <1>0, <1>l, <2>1, <2>3 DEF SettleNext, SumsStay, engineVars
    <2> QED  BY <2>2, <2>3
  <1>m. CASE SettleEnd
    BY <1>0, <1>m DEF SettleEnd, SumsStay, engineVars, venueVars
  <1>p. CASE UNCHANGED vars
    BY <1>0, <1>p DEF vars, SumsStay, engineVars, venueVars
  <1> QED
    BY <1>a, <1>e, <1>i, <1>j, <1>k, <1>l, <1>m, <1>p DEF Next

\* Guarantees given back: at most one less is outstanding, and held
LEMMA ReleaseSums ==
    ASSUME Typed, NEW g \in Guarantees, NEW r \in Reasons, Released(g, r)
    PROVE  /\ \A h \in Guarantees : book'[h] = "none" => book[h] = "none"
           /\ \A h \in Guarantees : guarantee'[h].status = "none" <=> guarantee[h].status = "none"
           /\ \A c : HeldOf(book', c) \in {HeldOf(book, c), HeldOf(book, c) \ {g}}
           /\ \/ portfolio' = portfolio /\ Outstanding(guarantee') = Outstanding(guarantee)
              \/ /\ g \in Outstanding(guarantee) /\ portfolio' = portfolio - Covered[g]
                 /\ Outstanding(guarantee') = Outstanding(guarantee) \ {g}
  <1>1. /\ book \in [Guarantees -> Books]
        /\ guarantee \in [Guarantees -> [status : Statuses, why : Reasons]]
    BY DEF Typed
  <1>2. CASE g \notin Outstanding(guarantee)
    <2>1. book' = book /\ guarantee' = guarantee /\ portfolio' = portfolio
      BY <1>2 DEF Released
    <2> QED  BY <2>1
  <1>3. CASE g \in Outstanding(guarantee)
    <2>1. /\ book' = [book EXCEPT ![g] = "released"] /\ portfolio' = portfolio - Covered[g]
          /\ guarantee' = [guarantee EXCEPT ![g] = [status |-> "RELEASED", why |-> r]]
      BY <1>3 DEF Released
    <2>2. \A h \in Guarantees : /\ book'[h] = IF h = g THEN "released" ELSE book[h]
                                /\ guarantee'[h].status =
                                      IF h = g THEN "RELEASED" ELSE guarantee[h].status
      BY <1>1, <2>1
    <2>3. guarantee[g].status \in {"ATTACHED", "CLAIMABLE"}
      BY <1>3 DEF Outstanding
    <2>4. \A h \in Guarantees : guarantee'[h].status = "none" <=> guarantee[h].status = "none"
      BY <2>2, <2>3
    <2>5. Outstanding(guarantee') = Outstanding(guarantee) \ {g}
      BY <2>2 DEF Outstanding
    <2>6. \A c : HeldOf(book', c) = HeldOf(book, c) \ {g}
      BY <2>2 DEF HeldOf
    <2>7. \A c : HeldOf(book', c) \in {HeldOf(book, c), HeldOf(book, c) \ {g}}
      BY <2>6, Zenon
    <2>8. \A h \in Guarantees : book'[h] = "none" => book[h] = "none"
      BY <2>2
    <2> QED  BY <1>3, <2>1, <2>4, <2>5, <2>7, <2>8, Zenon
  <1> QED  BY <1>2, <1>3

----------------------------------------------------------------------------
(* The limits hold                                                         *)

\* A book that holds no more, with no transaction opened, stays within the limit
LEMMA BookShrinks ==
    ASSUME NEW b, NEW j, WithinLimit(b, j),
           \A c : IsFiniteSet(HeldOf(b, c)) /\ HeldOf(b, c) \in SUBSET Guarantees,
           NEW x, NEW k, NEW y \in Guarantees,
           \A c : HeldOf(x, c) \in {HeldOf(b, c), HeldOf(b, c) \ {y}},
           \A g \in Guarantees : x[g] = "none" => b[g] = "none",
           \A g \in Guarantees : k[g] = "COMMIT" => j[g] = "COMMIT"
    PROVE  WithinLimit(x, k)
  <1>1. ASSUME NEW c PROVE /\ CoveredBy(HeldOf(x, c)) <= CoveredBy(HeldOf(b, c))
                           /\ CoveredBy(HeldOf(x, c)) \in Nat /\ CoveredBy(HeldOf(b, c)) \in Nat
    <2>1. PICK s : s = HeldOf(b, c)
      OBVIOUS
    <2>2. PICK q : q = s \ {y}
      OBVIOUS
    <2>3. s \in SUBSET Guarantees /\ IsFiniteSet(s)
      BY <2>1
    <2>4. CoveredBy(q) \in Nat /\ CoveredBy(s) \in Nat /\ CoveredBy(q) <= CoveredBy(s)
      BY <2>2, <2>3, CoveredLess
    <2>5. HeldOf(x, c) = s \/ HeldOf(x, c) = q
      BY <2>1, <2>2
    <2>6. CASE HeldOf(x, c) = s
      BY <2>1, <2>4, <2>6
    <2>7. CASE HeldOf(x, c) = q
      BY <2>1, <2>4, <2>7
    <2> QED  BY <2>5, <2>6, <2>7
  <1>2. ASSUME NEW c \in Carriers PROVE CoveredBy(HeldOf(x, c)) <= CarrierLimit
    <2>1. CoveredBy(HeldOf(b, c)) <= CarrierLimit
      BY DEF WithinLimit
    <2> QED  BY <1>1, <2>1
  <1>3. ASSUME NEW g \in Guarantees, k[g] = "COMMIT", x[g] = "none"
        PROVE  CoveredBy(HeldOf(x, CarrierOf[g])) + Covered[g] <= CarrierLimit
    <2>1. CoveredBy(HeldOf(b, CarrierOf[g])) + Covered[g] <= CarrierLimit
      BY <1>3 DEF WithinLimit
    <2>2. Covered[g] \in Nat
      OBVIOUS
    <2> QED  BY <1>1, <2>1, <2>2
  <1> QED  BY <1>2, <1>3 DEF WithinLimit

LEMMA LimitsNext ==
    Typed /\ WriteInv /\ BookSound(book, guarantee) /\ BookSound(disk.book, disk.guarantees)
    /\ LimitsInv /\ [Next]_vars => LimitsInv'
  <1> SUFFICES ASSUME Typed, WriteInv, BookSound(book, guarantee),
                      BookSound(disk.book, disk.guarantees), LimitsInv, [Next]_vars
               PROVE  LimitsInv'
    OBVIOUS
  <1>1. /\ book \in [Guarantees -> Books] /\ disk.book \in [Guarantees -> Books]
        /\ guarantee \in [Guarantees -> [status : Statuses, why : Reasons]]
        /\ disk.guarantees \in [Guarantees -> [status : Statuses, why : Reasons]]
        /\ journal \in [Guarantees -> {"none", "COMMIT", "VOID"}]
        /\ IsFiniteSet(committed) /\ OneOpen(journal)
        /\ WithinLimit(book, journal) /\ WithinLimit(disk.book, journal)
    BY DEF Typed, LimitsInv
  <1>2. /\ \A c : IsFiniteSet(HeldOf(book, c)) /\ HeldOf(book, c) \in SUBSET Guarantees
        /\ \A c : IsFiniteSet(HeldOf(disk.book, c)) /\ HeldOf(disk.book, c) \in SUBSET Guarantees
    BY <1>1, AllFinite
  <1>3. ASSUME UNCHANGED <<book, disk, committed>>, OneOpen(journal'),
               \A g \in Guarantees : journal'[g] = "COMMIT" => journal[g] = "COMMIT"
        PROVE  LimitsInv'
    BY <1>1, <1>3 DEF LimitsInv, WithinLimit
  <1>4. ASSUME UNCHANGED <<disk, journal, committed>>, WithinLimit(book', journal) PROVE LimitsInv'
    BY <1>1, <1>4 DEF LimitsInv
  <1>5. ASSUME NEW g \in Guarantees, Commit(g) PROVE LimitsInv'
    <2>1. /\ Quoted(g) /\ pending = <<>> /\ UNCHANGED <<book, disk>>
          /\ committed' = committed \cup {g} /\ \A h \in Guarantees : journal[h] = "none"
          /\ journal' = [journal EXCEPT ![g] = "COMMIT"]
      BY <1>5 DEF Commit, Serving, Quiet, engineVars
    <2>2. disk.book = book
      BY <2>1, NothingWaits
    <2>3. \A h \in Guarantees : journal'[h] = IF h = g THEN "COMMIT" ELSE "none"
      BY <1>1, <2>1
    <2>4. CoveredBy(HeldOf(book, CarrierOf[g])) + Covered[g] <= CarrierLimit
      BY <2>1 DEF Quoted, Exposure, HeldOf
    <2>5. WithinLimit(book, journal') /\ OneOpen(journal')
      BY <1>1, <2>3, <2>4 DEF WithinLimit, OneOpen
    <2>6. IsFiniteSet(committed')
      BY <1>1, <2>1, FS_AddElement
    <2> QED  BY <2>1, <2>2, <2>5, <2>6 DEF LimitsInv
  <1>6. ASSUME NEW g \in Guarantees, Attach(g) PROVE LimitsInv'
    <2>1. /\ journal[g] = "COMMIT" /\ UNCHANGED <<disk, journal, committed>>
          /\ book' = [book EXCEPT ![g] = IF @ = "none" THEN "held" ELSE @]
      BY <1>6 DEF Attach, venueVars
    <2>2. CASE book[g] # "none"
      <3>1. book' = book
        BY <1>1, <2>1, <2>2
      <3> QED  BY <1>1, <1>4, <2>1, <3>1
    <2>3. CASE book[g] = "none"
      <3>1. PICK b : b = book'
        OBVIOUS
      <3>2. \A h \in Guarantees : b[h] = IF h = g THEN "held" ELSE book[h]
        BY <1>1, <2>1, <2>3, <3>1
      <3>3. PICK c0 : c0 = CarrierOf[g]
        OBVIOUS
      <3>4. PICK s : s = HeldOf(book, c0)
        OBVIOUS
      <3>5. PICK r : r = HeldOf(b, c0)
        OBVIOUS
      <3>6. r = s \cup {g} /\ g \notin s
        BY <2>3, <3>2, <3>3, <3>4, <3>5 DEF HeldOf
      <3>7. IsFiniteSet(s) /\ s \in SUBSET Guarantees
        BY <1>2, <3>4
      <3>8. CoveredBy(s) \in Nat /\ CoveredBy(r) = CoveredBy(s) + Covered[g]
        BY <3>6, <3>7, CoveredMore
      <3>9. CoveredBy(s) + Covered[g] <= CarrierLimit
        BY <1>1, <2>1, <2>3, <3>3, <3>4 DEF WithinLimit
      <3>10. ASSUME NEW c \in Carriers PROVE CoveredBy(HeldOf(b, c)) <= CarrierLimit
        <4>1. CASE c = c0
          BY <3>5, <3>8, <3>9, <4>1
        <4>2. CASE c # c0
          <5>1. HeldOf(b, c) = HeldOf(book, c)
            BY <3>2, <3>3, <4>2 DEF HeldOf
          <5> QED  BY <1>1, <5>1 DEF WithinLimit
        <4> QED  BY <4>1, <4>2
      <3>11. \A h \in Guarantees : journal[h] = "COMMIT" => b[h] # "none"
        BY <1>1, <2>1, <3>2 DEF OneOpen
      <3>12. WithinLimit(b, journal)
        BY <3>10, <3>11 DEF WithinLimit
      <3> QED  BY <1>4, <2>1, <3>1, <3>12
    <2> QED  BY <2>2, <2>3
  <1>7. ASSUME NEW g \in Guarantees, Complete(g) \/ Void(g) \/ DeleteJournal(g) PROVE LimitsInv'
    <2>1. CASE Complete(g)
      BY <1>1, <1>3, <2>1 DEF Complete, venueVars
    <2>2. CASE Void(g)
      <3>1. /\ UNCHANGED <<book, disk, committed>> /\ journal' = [journal EXCEPT ![g] = "VOID"]
            /\ \A h \in Guarantees : journal[h] = "none"
        BY <2>2 DEF Void, Serving, engineVars
      <3>2. \A h \in Guarantees : journal'[h] = IF h = g THEN "VOID" ELSE "none"
        BY <1>1, <3>1
      <3>3. OneOpen(journal') /\ \A h \in Guarantees : journal'[h] # "COMMIT"
        BY <3>2 DEF OneOpen
      <3> QED  BY <1>3, <3>1, <3>3
    <2>3. CASE DeleteJournal(g)
      <3>1. UNCHANGED <<book, disk, committed>> /\ journal' = [journal EXCEPT ![g] = "none"]
        BY <2>3 DEF DeleteJournal, engineVars
      <3>2. \A h \in Guarantees : journal'[h] = IF h = g THEN "none" ELSE journal[h]
        BY <1>1, <3>1
      <3>3. OneOpen(journal') /\ \A h \in Guarantees : journal'[h] = "COMMIT" => journal[h] = "COMMIT"
        BY <1>1, <3>2 DEF OneOpen
      <3> QED  BY <1>3, <3>1, <3>3
    <2> QED  BY <1>7, <2>1, <2>2, <2>3
  <1>8. ASSUME NEW g \in Guarantees, NEW r \in Reasons, Released(g, r),
               UNCHANGED <<disk, journal, committed>>
        PROVE  LimitsInv'
    <2>1. PICK b : b = book'
      OBVIOUS
    <2>2. /\ \A h \in Guarantees : b[h] = "none" => book[h] = "none"
          /\ \A c : HeldOf(b, c) \in {HeldOf(book, c), HeldOf(book, c) \ {g}}
      BY <1>8, <2>1, ReleaseSums
    <2>3. WithinLimit(b, journal)
      BY <1>1, <1>2, <2>2, BookShrinks
    <2> QED  BY <1>4, <1>8, <2>1, <2>3
  <1>9. ASSUME SettlesOne, UNCHANGED <<disk, journal, committed, crashes>> PROVE LimitsInv'
    <2>1. PICK k \in 1 .. Len(claims) + 1, d \in Claim, covered \in BOOLEAN : Settle(k, d, covered)
      BY <1>9 DEF SettlesOne
    <2>2. CASE Pays(d, covered)
      <3>1. Released(d.of, "claim") /\ d.of \in Guarantees /\ "claim" \in Reasons
        BY <2>1, <2>2, Settles DEF Claim, Reasons
      <3> QED  BY <1>8, <1>9, <3>1
    <2>3. CASE ~Pays(d, covered)
      <3>1. book' = book
        BY <2>1, <2>3, Settles
      <3> QED  BY <1>1, <1>3, <1>9, <3>1
    <2> QED  BY <2>2, <2>3
  <1>10. CASE SumsStay
    BY <1>1, <1>3, <1>10 DEF SumsStay
  <1>11. CASE Write
    <2>1. /\ UNCHANGED <<book, journal, committed>>
          /\ disk'.book = disk.book \/ disk'.book = book
      BY <1>11, Writing DEF Typed
    <2>2. WithinLimit(disk'.book, journal)
      BY <1>1, <2>1
    <2> QED  BY <1>1, <2>1, <2>2 DEF LimitsInv
  <1>12. CASE Crash
    <2>1. book' = disk.book /\ UNCHANGED <<disk, journal, committed>>
      BY <1>12 DEF Crash, venueVars
    <2> QED  BY <1>1, <2>1 DEF LimitsInv
  <1> QED  BY <1>5, <1>6, <1>7, <1>8, <1>9, <1>10, <1>11, <1>12, SumSteps

----------------------------------------------------------------------------
(* The portfolio is the sum of what is outstanding                         *)

LEMMA PortfolioNext ==
    Typed /\ BookSound(book, guarantee) /\ LimitsInv /\ PortfolioInv /\ [Next]_vars
    => PortfolioInv'
  <1> SUFFICES ASSUME Typed, BookSound(book, guarantee), LimitsInv, PortfolioInv,
                      [Next]_vars, crashes' = 0
               PROVE  PortfolioInv'
    BY DEF PortfolioInv
  <1>1. /\ guarantee \in [Guarantees -> [status : Statuses, why : Reasons]]
        /\ journal \in [Guarantees -> {"none", "COMMIT", "VOID"}] /\ crashes \in Nat
        /\ IsFiniteSet(committed) /\ OneOpen(journal)
    BY DEF Typed, LimitsInv
  <1> DEFINE out == Outstanding(guarantee)
  <1>2. IsFiniteSet(out) /\ out \in SUBSET Guarantees
    BY <1>1, AllFinite
  <1>3. CoveredBy(out) \in Nat
    <2> HIDE DEF out
    <2>1. \A h \in out : Covered[h] \in Nat
      BY <1>2
    <2> QED  BY <1>2, <2>1, TotalType DEF CoveredBy
  <1> HIDE DEF out
  <1>4. ASSUME crashes' = crashes
        PROVE  /\ portfolio = CoveredBy(out) /\ portfolio <= VenueLimit
               /\ \A g \in Guarantees : journal[g] = "COMMIT" /\ guarantee[g].status = "none" =>
                     portfolio + Covered[g] <= VenueLimit
    BY <1>4 DEF PortfolioInv, out
  <1>5. ASSUME crashes' = crashes, portfolio' = CoveredBy(Outstanding(guarantee')),
               portfolio' \in Nat, portfolio' <= portfolio,
               \A g \in Guarantees : journal'[g] = "COMMIT" => journal[g] = "COMMIT",
               \A g \in Guarantees : guarantee'[g].status = "none" => guarantee[g].status = "none"
        PROVE  PortfolioInv'
    <2>1. portfolio \in Nat /\ VenueLimit \in Nat
      BY <1>3, <1>4, <1>5
    <2>2. portfolio' <= VenueLimit
      BY <1>4, <1>5, <2>1
    <2>3. ASSUME NEW g \in Guarantees, journal'[g] = "COMMIT", guarantee'[g].status = "none"
          PROVE  portfolio' + Covered[g] <= VenueLimit
      <3>1. portfolio + Covered[g] <= VenueLimit /\ Covered[g] \in Nat
        BY <1>4, <1>5, <2>3
      <3> QED  BY <1>5, <2>1, <3>1
    <2> QED  BY <1>5, <2>2, <2>3 DEF PortfolioInv
  <1>6. ASSUME NEW g \in Guarantees, Commit(g) PROVE PortfolioInv'
    <2>1. /\ portfolio + Covered[g] <= VenueLimit
          /\ UNCHANGED <<guarantee, portfolio, crashes>>
          /\ \A h \in Guarantees : journal[h] = "none"
          /\ journal' = [journal EXCEPT ![g] = "COMMIT"]
      BY <1>6 DEF Commit, Quoted, Serving, engineVars
    <2>2. \A h \in Guarantees : journal'[h] = "COMMIT" => h = g
      BY <1>1, <2>1
    <2> QED  BY <1>4, <2>1, <2>2 DEF PortfolioInv, out
  <1>7. ASSUME NEW g \in Guarantees, Attach(g) PROVE PortfolioInv'
    <2>1. /\ journal[g] = "COMMIT" /\ guarantee[g].status = "none"
          /\ guarantee' = [guarantee EXCEPT ![g].status = "ATTACHED"]
          /\ portfolio' = portfolio + Covered[g] /\ UNCHANGED <<journal, crashes>>
      BY <1>7 DEF Attach, venueVars
    <2>2. PICK gs : gs = guarantee'
      OBVIOUS
    <2>3. \A h \in Guarantees : gs[h].status = IF h = g THEN "ATTACHED" ELSE guarantee[h].status
      BY <1>1, <2>1, <2>2
    <2>4. Outstanding(gs) = out \cup {g} /\ g \notin out
      BY <2>1, <2>3 DEF Outstanding, out
    <2>5. CoveredBy(Outstanding(gs)) = CoveredBy(out) + Covered[g]
      BY <1>2, <2>4, CoveredMore
    <2>6. portfolio' = CoveredBy(Outstanding(gs)) /\ portfolio' <= VenueLimit
      BY <1>4, <2>1, <2>5
    <2>7. \A h \in Guarantees : journal'[h] = "COMMIT" => gs[h].status # "none"
      BY <1>1, <2>1, <2>3 DEF OneOpen
    <2> QED  BY <2>2, <2>6, <2>7 DEF PortfolioInv
  <1>8. ASSUME NEW g \in Guarantees, Complete(g) PROVE PortfolioInv'
    <2>1. /\ guarantee[g].status = "ATTACHED"
          /\ guarantee' = [guarantee EXCEPT ![g].status = "CLAIMABLE"]
          /\ UNCHANGED <<portfolio, journal, crashes>>
      BY <1>8 DEF Complete, venueVars
    <2>2. \A h \in Guarantees : guarantee'[h].status =
                                   IF h = g THEN "CLAIMABLE" ELSE guarantee[h].status
      BY <1>1, <2>1
    <2>3. Outstanding(guarantee') = out
      BY <2>1, <2>2 DEF Outstanding, out
    <2>4. \A h \in Guarantees : guarantee'[h].status = "none" => guarantee[h].status = "none"
      BY <2>2
    <2> QED  BY <1>3, <1>4, <1>5, <2>1, <2>3, <2>4
  <1>9. ASSUME NEW g \in Guarantees, Void(g) \/ DeleteJournal(g) PROVE PortfolioInv'
    <2>1. /\ UNCHANGED <<guarantee, portfolio, crashes>>
          /\ \/ journal' = [journal EXCEPT ![g] = "VOID"]
             \/ journal' = [journal EXCEPT ![g] = "none"]
      BY <1>9 DEF Void, DeleteJournal, engineVars
    <2>2. \A h \in Guarantees : journal'[h] = "COMMIT" => journal[h] = "COMMIT"
      BY <1>1, <2>1
    <2> QED  BY <1>3, <1>4, <1>5, <2>1, <2>2 DEF out
  <1>10. ASSUME NEW g \in Guarantees, NEW r \in Reasons, Released(g, r),
                UNCHANGED <<journal, crashes>>
         PROVE  PortfolioInv'
    <2>1. PICK gs : gs = guarantee'
      OBVIOUS
    <2>2. /\ \A h \in Guarantees : gs[h].status = "none" <=> guarantee[h].status = "none"
          /\ \/ portfolio' = portfolio /\ Outstanding(gs) = out
             \/ g \in out /\ portfolio' = portfolio - Covered[g] /\ Outstanding(gs) = out \ {g}
      BY <1>10, <2>1, ReleaseSums DEF out
    <2>3. ASSUME NEW q, q = out \ {g}
          PROVE  /\ CoveredBy(q) \in Nat /\ CoveredBy(q) <= CoveredBy(out)
                 /\ g \in out => CoveredBy(q) = CoveredBy(out) - Covered[g]
      BY <1>2, <2>3, CoveredLess
    <2>4. /\ portfolio' = CoveredBy(Outstanding(gs)) /\ portfolio' \in Nat
          /\ portfolio' <= portfolio
      <3>1. CASE portfolio' = portfolio /\ Outstanding(gs) = out
        BY <1>3, <1>4, <1>10, <3>1
      <3>2. CASE g \in out /\ portfolio' = portfolio - Covered[g] /\ Outstanding(gs) = out \ {g}
        BY <1>3, <1>4, <1>10, <2>3, <3>2
      <3> QED  BY <2>2, <3>1, <3>2
    <2> QED  BY <1>5, <1>10, <2>1, <2>2, <2>4
  <1>11. ASSUME SettlesOne, UNCHANGED <<journal, crashes>> PROVE PortfolioInv'
    <2>1. PICK k \in 1 .. Len(claims) + 1, d \in Claim, covered \in BOOLEAN : Settle(k, d, covered)
      BY <1>11 DEF SettlesOne
    <2>2. CASE Pays(d, covered)
      <3>1. Released(d.of, "claim") /\ d.of \in Guarantees /\ "claim" \in Reasons
        BY <2>1, <2>2, Settles, SMTT(60) DEF Claim, Reasons
      <3> QED  BY <1>10, <1>11, <3>1
    <2>3. CASE ~Pays(d, covered)
      <3>1. guarantee' = guarantee /\ portfolio' = portfolio
        BY <2>1, <2>3 DEF Settle, Pays
      <3> QED  BY <1>3, <1>4, <1>5, <1>11, <3>1 DEF out
    <2> QED  BY <2>2, <2>3
  <1>12. CASE SumsStay \/ Write
    <2>1. UNCHANGED <<guarantee, portfolio, journal, crashes>>
      BY <1>12 DEF SumsStay, Write, engineVars, venueVars
    <2> QED  BY <1>3, <1>4, <1>5, <2>1 DEF out
  <1>13. ~Crash
    BY <1>1 DEF Crash
  <1> QED  BY <1>6, <1>7, <1>8, <1>9, <1>10, <1>11, <1>12, <1>13, SumSteps

----------------------------------------------------------------------------
(* Premiums: the guarantees are written before the reserve                 *)

LEMMA EarnedMore ==
    ASSUME NEW s, IsFiniteSet(s), NEW g, g \notin s, NEW r, r = s \cup {g}
    PROVE  /\ Premium * Cardinality(s) \in Nat
           /\ Premium * Cardinality(r) = Premium * Cardinality(s) + Premium
  <1>1. Cardinality(s) \in Nat /\ Cardinality(r) = Cardinality(s) + 1
    BY FS_CardinalityType, FS_AddElement
  <1>2. ASSUME NEW n \in Nat PROVE Premium * n \in Nat /\ Premium * (n + 1) = Premium * n + Premium
    BY GuaranteesAssumption
  <1> QED  BY <1>1, <1>2

\* Before the reserve is written, the guarantees and the claims were
LEMMA ReserveLast ==
    ASSUME Typed, WriteInv, Write, Head(pending) = <<"reserve", 0>>
    PROVE  /\ ~Unwritten(<<"guarantees", 0>>) /\ ~Unwritten(<<"claims", 0>>)
           /\ Unwritten(<<"reserve", 0>>)
  <1>1. /\ Members(pending) = {<<"reserve", 0>>} \cup Members(pending')
        /\ \A x \in Members(pending') : Rank(<<"reserve", 0>>) < Rank(x)
    BY Writing
  <1>2. /\ Rank(<<"reserve", 0>>) = 4 /\ Rank(<<"guarantees", 0>>) = 2
        /\ Rank(<<"claims", 0>>) = 3
    BY DEF Rank
  <1>3. <<"guarantees", 0>> \notin Members(pending') /\ <<"claims", 0>> \notin Members(pending')
    BY <1>1, <1>2
  <1> QED  BY <1>1, <1>3, UnwrittenIs

LEMMA PremiumsNext ==
    Typed /\ WriteInv /\ BookSound(book, guarantee) /\ LimitsInv /\ PremiumsInv /\ [Next]_vars
    => PremiumsInv'
  <1> SUFFICES ASSUME Typed, WriteInv, BookSound(book, guarantee), LimitsInv, PremiumsInv,
                      [Next]_vars
               PROVE  PremiumsInv'
    OBVIOUS
  <1>1. /\ guarantee \in [Guarantees -> [status : Statuses, why : Reasons]]
        /\ reserve \in Reserve /\ disk.reserve \in Reserve
        /\ IsFiniteSet(committed) /\ crashes \in Nat
    BY DEF Typed, LimitsInv
  <1>2. reserve.premiums \in Nat /\ disk.reserve.premiums \in Nat
    BY <1>1 DEF Reserve
  <1>3. ASSUME UNCHANGED <<disk, crashes>>, reserve'.premiums = reserve.premiums,
               \A g \in Guarantees : guarantee'[g].status = "none" <=> guarantee[g].status = "none"
        PROVE  PremiumsInv'
    <2>1. OnRecord(guarantee') = OnRecord(guarantee)
      BY <1>3 DEF OnRecord
    <2>2. EarnedBy(guarantee') = EarnedBy(guarantee)
      BY <2>1 DEF EarnedBy
    <2> QED  BY <1>3, <2>2 DEF PremiumsInv
  <1>4. ASSUME NEW g \in Guarantees, Attach(g) PROVE PremiumsInv'
    <2>1. /\ guarantee[g].status = "none" /\ UNCHANGED <<disk, crashes>>
          /\ guarantee' = [guarantee EXCEPT ![g].status = "ATTACHED"]
          /\ reserve' = [reserve EXCEPT !.premiums = @ + Premium]
      BY <1>4 DEF Attach
    <2>2. PICK gs : gs = guarantee'
      OBVIOUS
    <2>3. \A h \in Guarantees : gs[h].status = IF h = g THEN "ATTACHED" ELSE guarantee[h].status
      BY <1>1, <2>1, <2>2
    <2>4. OnRecord(gs) = OnRecord(guarantee) \cup {g} /\ g \notin OnRecord(guarantee)
      BY <2>1, <2>3 DEF OnRecord
    <2>5. IsFiniteSet(OnRecord(guarantee))
      BY <1>1, AllFinite
    <2>6. EarnedBy(guarantee) \in Nat /\ EarnedBy(gs) = EarnedBy(guarantee) + Premium
      BY <2>4, <2>5, EarnedMore DEF EarnedBy
    <2>7. reserve'.premiums = reserve.premiums + Premium /\ Premium \in Nat
      BY <1>1, <2>1, GuaranteesAssumption DEF Reserve
    <2>8. /\ reserve'.premiums <= EarnedBy(gs) /\ disk.reserve.premiums <= reserve'.premiums
          /\ disk.reserve.premiums <= EarnedBy(disk.guarantees)
          /\ crashes = 0 => reserve'.premiums = EarnedBy(gs)
      <3>1. PICK e : e = EarnedBy(gs)
        OBVIOUS
      <3> QED  BY <1>2, <2>6, <2>7, <3>1 DEF PremiumsInv
    <2> QED  BY <2>1, <2>2, <2>8 DEF PremiumsInv
  <1>5. ASSUME NEW g \in Guarantees, Complete(g) PROVE PremiumsInv'
    <2>1. /\ guarantee[g].status = "ATTACHED" /\ UNCHANGED <<reserve, disk, crashes>>
          /\ guarantee' = [guarantee EXCEPT ![g].status = "CLAIMABLE"]
      BY <1>5 DEF Complete
    <2>2. \A h \in Guarantees : guarantee'[h].status = "none" <=> guarantee[h].status = "none"
      BY <1>1, <2>1
    <2> QED  BY <1>3, <2>1, <2>2
  <1>6. ASSUME NEW g \in Guarantees, Commit(g) \/ Void(g) \/ DeleteJournal(g) PROVE PremiumsInv'
    <2>1. UNCHANGED <<guarantee, reserve, disk, crashes>>
      BY <1>6 DEF Commit, Void, DeleteJournal, engineVars
    <2> QED  BY <1>3, <2>1
  <1>7. ASSUME NEW g \in Guarantees, NEW r \in Reasons, Released(g, r),
               UNCHANGED <<disk, crashes>>, reserve'.premiums = reserve.premiums
        PROVE  PremiumsInv'
    <2>1. \A h \in Guarantees : guarantee'[h].status = "none" <=> guarantee[h].status = "none"
      BY <1>7, ReleaseSums
    <2> QED  BY <1>3, <1>7, <2>1
  <1>8. ASSUME SettlesOne, UNCHANGED <<disk, crashes>> PROVE PremiumsInv'
    <2>1. PICK k \in 1 .. Len(claims) + 1, d \in Claim, covered \in BOOLEAN : Settle(k, d, covered)
      BY <1>8 DEF SettlesOne
    <2>2. CASE Pays(d, covered)
      <3>1. /\ Released(d.of, "claim") /\ d.of \in Guarantees /\ "claim" \in Reasons
            /\ reserve' = [reserve EXCEPT !.payouts = @ + d.payout]
        BY <2>1, <2>2, Settles, SMTT(60) DEF Claim, Reasons
      <3>2. reserve'.premiums = reserve.premiums
        BY <1>1, <3>1 DEF Reserve
      <3> QED  BY <1>7, <1>8, <3>1, <3>2
    <2>3. CASE ~Pays(d, covered)
      <3>1. guarantee' = guarantee /\ reserve' = reserve
        BY <2>1, <2>3, Settles
      <3> QED  BY <1>3, <1>8, <3>1
    <2> QED  BY <2>2, <2>3
  <1>9. CASE SumsStay
    BY <1>3, <1>9 DEF SumsStay
  <1>10. CASE Write
    <2>1. UNCHANGED <<guarantee, reserve, crashes>>
      BY <1>10, Writing
    <2>2. EarnedBy(guarantee) \in Nat
      <3>1. IsFiniteSet(OnRecord(guarantee))
        BY <1>1, AllFinite
      <3>2. Cardinality(OnRecord(guarantee)) \in Nat /\ Premium \in Nat
        BY <3>1, FS_CardinalityType, GuaranteesAssumption
      <3> QED  BY <3>2 DEF EarnedBy
    <2>3. CASE disk'.guarantees = disk.guarantees /\ disk'.reserve = disk.reserve
      BY <2>1, <2>3 DEF PremiumsInv
    <2>4. CASE disk'.guarantees = guarantee /\ disk'.reserve = disk.reserve
      <3>1. disk.reserve.premiums <= EarnedBy(guarantee)
        BY <1>2, <2>2 DEF PremiumsInv
      <3> QED  BY <2>1, <2>4, <3>1 DEF PremiumsInv
    <2>5. CASE Head(pending) = <<"reserve", 0>> /\ disk' = [disk EXCEPT !.reserve = reserve]
      <3>1. disk.guarantees = guarantee
        BY <1>10, <2>5, ReserveLast DEF WriteInv
      <3>2. disk'.reserve = reserve /\ disk'.guarantees = guarantee
        BY <2>5, <3>1 DEF Typed
      <3> QED  BY <1>2, <2>1, <3>2 DEF PremiumsInv
    <2>6. \/ disk'.guarantees = disk.guarantees /\ disk'.reserve = disk.reserve
          \/ disk'.guarantees = guarantee /\ disk'.reserve = disk.reserve
          \/ Head(pending) = <<"reserve", 0>> /\ disk' = [disk EXCEPT !.reserve = reserve]
      BY <1>10, Writing DEF Typed
    <2> QED  BY <2>3, <2>4, <2>5, <2>6
  <1>11. CASE Crash
    <2>1. /\ reserve' = disk.reserve /\ guarantee' = disk.guarantees /\ disk' = disk
          /\ crashes' = crashes + 1
      BY <1>11 DEF Crash
    <2>2. crashes' # 0
      BY <1>1, <2>1
    <2> QED  BY <1>2, <2>1, <2>2 DEF PremiumsInv
  <1> QED  BY <1>4, <1>5, <1>6, <1>7, <1>8, <1>9, <1>10, <1>11, SumSteps

----------------------------------------------------------------------------
(* Payouts: the claims are written before the reserve                      *)

LEMMA PaidTyped ==
    ASSUME NEW cs \in Seq(Claim)
    PROVE  /\ IsFiniteSet(PaidIn(cs)) /\ PaidOutIn(cs) \in Nat
           /\ \A k \in PaidIn(cs) : cs[k].payout \in Nat
  <1>1. Len(cs) \in Nat /\ \A k \in 1 .. Len(cs) : cs[k] \in Claim
    OBVIOUS
  <1>2. \A c \in Claim : c.payout \in Nat
    BY DEF Claim
  <1>3. PaidIn(cs) \subseteq 1 .. Len(cs)
    BY DEF PaidIn
  <1>4. IsFiniteSet(1 .. Len(cs))
    BY <1>1, FS_Interval
  <1>5. IsFiniteSet(PaidIn(cs))
    BY <1>3, <1>4, FS_Subset
  <1>6. \A k \in PaidIn(cs) : cs[k].payout \in Nat
    BY <1>1, <1>2, <1>3
  <1>7. PICK f : f = [k \in PaidIn(cs) |-> cs[k].payout]
    OBVIOUS
  <1>8. \A k \in PaidIn(cs) : f[k] \in Nat
    BY <1>6, <1>7
  <1>9. Total(f, PaidIn(cs)) \in Nat
    BY <1>5, <1>8, TotalType
  <1> QED  BY <1>5, <1>6, <1>7, <1>9 DEF PaidOutIn

\* The same claims paid the same, or one more paid
LEMMA PaidSame ==
    ASSUME NEW cs \in Seq(Claim), NEW ds \in Seq(Claim), PaidIn(ds) = PaidIn(cs),
           \A k \in PaidIn(cs) : ds[k].payout = cs[k].payout
    PROVE  PaidOutIn(ds) = PaidOutIn(cs)
  <1>1. PICK s : s = PaidIn(cs)
    OBVIOUS
  <1>2. [k \in s |-> cs[k].payout] = [k \in s |-> ds[k].payout]
    BY <1>1
  <1> QED  BY <1>1, <1>2 DEF PaidOutIn

LEMMA PaidMore ==
    ASSUME NEW cs \in Seq(Claim), NEW ds \in Seq(Claim), NEW k, k \notin PaidIn(cs),
           PaidIn(ds) = PaidIn(cs) \cup {k},
           \A i \in PaidIn(cs) : ds[i].payout = cs[i].payout
    PROVE  PaidOutIn(ds) = PaidOutIn(cs) + ds[k].payout
  <1>1. PICK s : s = PaidIn(cs)
    OBVIOUS
  <1>2. PICK f : f = [i \in s |-> cs[i].payout]
    OBVIOUS
  <1>3. PICK r : r = s \cup {k}
    OBVIOUS
  <1>4. PICK g : g = [i \in r |-> ds[i].payout]
    OBVIOUS
  <1>5. PaidOutIn(cs) = Total(f, s) /\ PaidOutIn(ds) = Total(g, r)
    BY <1>1, <1>2, <1>3, <1>4 DEF PaidOutIn
  <1>6. IsFiniteSet(s) /\ \A i \in r : g[i] \in Nat
    BY <1>1, <1>3, <1>4, PaidTyped
  <1>7. \A i \in s : g[i] = f[i]
    BY <1>1, <1>2, <1>3, <1>4
  <1>8. Total(g, s) = Total(f, s)
    BY <1>6, <1>7, TotalAgrees
  <1>9. k \notin s /\ \A i \in s \cup {k} : g[i] \in Nat
    BY <1>1, <1>3, <1>6
  <1>10. Total(g, r) = Total(g, s) + g[k]
    BY <1>3, <1>6, <1>9, TotalWith
  <1>11. g[k] = ds[k].payout
    BY <1>3, <1>4
  <1> QED  BY <1>5, <1>8, <1>10, <1>11

\* Settling a claim that is not paid: the sum of the paid ones and the reserve's
\* payouts grow by the same
LEMMA SettlesSum ==
    ASSUME Typed, SettlesOne
    PROVE  /\ claims' \in Seq(Claim) /\ reserve' \in Reserve
           /\ \E p \in Nat : /\ reserve'.payouts = reserve.payouts + p
                             /\ PaidOutIn(claims') = PaidOutIn(claims) + p
  <1>1. PICK k \in 1 .. Len(claims) + 1, d \in Claim, covered \in BOOLEAN :
           Settle(k, d, covered) /\ (k > Len(claims) \/ claims[k].status # "PAID")
    BY DEF SettlesOne
  <1>2. claims \in Seq(Claim) /\ Len(claims) \in Nat /\ reserve \in Reserve
    BY DEF Typed
  <1>3. PICK cs : cs = claims'
    OBVIOUS
  <1>4. /\ cs \in Seq(Claim) /\ reserve' \in Reserve
        /\ Len(cs) = IF k > Len(claims) THEN k ELSE Len(claims)
        /\ \A i \in 1 .. Len(claims) : i # k => cs[i] = claims[i]
        /\ cs[k].payout = d.payout
    BY <1>1, <1>3, Settles
  <1>5. k \notin PaidIn(claims) /\ k \in 1 .. Len(cs)
    BY <1>1, <1>2, <1>4 DEF PaidIn
  <1>6. \A i \in 1 .. Len(cs) : i # k => i \in 1 .. Len(claims)
    BY <1>2, <1>4
  <1>7. \A i \in 1 .. Len(claims) : i \in 1 .. Len(cs)
    BY <1>2, <1>4
  <1>8. \A i \in PaidIn(claims) : cs[i].payout = claims[i].payout
    BY <1>4, <1>5 DEF PaidIn
  <1>9. CASE Pays(d, covered)
    <2>1. cs[k].status = "PAID" /\ reserve' = [reserve EXCEPT !.payouts = @ + d.payout]
      BY <1>1, <1>3, <1>9, Settles, SMTT(60)
    <2>2. PaidIn(cs) = PaidIn(claims) \cup {k}
      BY <1>4, <1>5, <1>6, <1>7, <2>1 DEF PaidIn
    <2>3. PaidOutIn(cs) = PaidOutIn(claims) + cs[k].payout
      BY <1>2, <1>4, <1>5, <1>8, <2>2, PaidMore
    <2>4. d.payout \in Nat
      BY DEF Claim
    <2>5. reserve'.payouts = reserve.payouts + d.payout
      BY <1>2, <2>1 DEF Reserve
    <2> QED  BY <1>3, <1>4, <2>3, <2>4, <2>5
  <1>10. CASE ~Pays(d, covered)
    <2>1. cs[k].status # "PAID" /\ reserve' = reserve
      <3>1. cs[k].status \in {"DEFERRED", "DENIED"} /\ reserve' = reserve
        BY <1>1, <1>3, <1>10, Settles
      <3> QED  BY <3>1
    <2>2. PaidIn(cs) = PaidIn(claims)
      BY <1>4, <1>5, <1>6, <1>7, <2>1 DEF PaidIn
    <2>3. PaidOutIn(cs) = PaidOutIn(claims)
      BY <1>2, <1>4, <1>8, <2>2, PaidSame
    <2>4. reserve.payouts \in Nat /\ PaidOutIn(claims) \in Nat
      BY <1>2, PaidTyped DEF Reserve
    <2>5. reserve'.payouts = reserve.payouts + 0 /\ PaidOutIn(cs) = PaidOutIn(claims) + 0
      BY <2>1, <2>3, <2>4
    <2> QED  BY <1>3, <1>4, <2>5
  <1> QED  BY <1>9, <1>10

\* The reserve waits only behind the claims, or when they are on file
ReserveWaits ==
    Unwritten(<<"reserve", 0>>) /\ ~Unwritten(<<"claims", 0>>) => disk.claims = claims

LEMMA WaitsNext == Typed /\ WriteInv /\ ReserveWaits /\ [Next]_vars => ReserveWaits'
  <1> SUFFICES ASSUME Typed, WriteInv, ReserveWaits, [Next]_vars PROVE ReserveWaits'
    OBVIOUS
  <1>1. /\ \A x : Unwritten(x) <=> x \in Members(pending)
        /\ \A x : Unwritten(x)' <=> x \in Members(pending')
    BY DEF Unwritten, Members
  <1>2. CASE UNCHANGED vars \/ VenueOnly
    <2>1. UNCHANGED <<pending, claims, disk>>
      BY <1>2 DEF vars, VenueOnly, engineVars, venueVars
    <2> QED  BY <1>1, <2>1 DEF ReserveWaits
  <1>3. ASSUME pending' = <<>> PROVE ReserveWaits'
    <2>1. Members(pending') = {}
      BY <1>3 DEF Members
    <2> QED  BY <1>1, <2>1 DEF ReserveWaits
  <1>4. CASE Operated
    <2>1. pending' = <<>> \/ <<"claims", 0>> \in Members(pending')
      <3>1. Len(claims) + 1 \in Nat
        BY DEF Typed
      <3>2. <<"claims", 0>> \in Members(Booked) /\ <<"claims", 0>> \in Members(Persisted)
        BY FilesWritten
      <3>3. PICK n \in Nat : n = Len(claims) + 1
        BY <3>1
      <3>4. <<"claims", 0>> \in Members(Booked \o Recorded(n))
        BY <3>2, FiledWritten, RecordedIs
      <3> QED  BY <1>4, <3>2, <3>3, <3>4 DEF Operated
    <2> QED  BY <1>1, <1>3, <2>1 DEF ReserveWaits
  <1>5. CASE Write
    <2>1. Members(pending) = {Head(pending)} \cup Members(pending') /\ claims' = claims
      BY <1>5, Writing
    <2>2. \/ disk'.claims = claims
          \/ disk'.claims = disk.claims /\ Head(pending) # <<"claims", 0>>
      BY <1>5, Writing, SMTT(60) DEF Typed, Entries
    <2> QED  BY <1>1, <2>1, <2>2 DEF ReserveWaits
  <1>6. CASE Crash
    BY <1>3, <1>6 DEF Crash
  <1> QED  BY <1>2, <1>4, <1>5, <1>6, Steps

LEMMA PayoutsNext ==
    Typed /\ WriteInv /\ PayoutsInv /\ [Next]_vars => PayoutsInv'
  <1> SUFFICES ASSUME Typed, WriteInv, PayoutsInv, [Next]_vars PROVE PayoutsInv'
    OBVIOUS
  <1>1. /\ claims \in Seq(Claim) /\ disk.claims \in Seq(Claim) /\ crashes \in Nat
        /\ reserve \in Reserve /\ disk.reserve \in Reserve
    BY DEF Typed
  <1>2. /\ reserve.payouts \in Nat /\ disk.reserve.payouts \in Nat
        /\ PaidOutIn(claims) \in Nat /\ PaidOutIn(disk.claims) \in Nat
    BY <1>1, PaidTyped DEF Reserve
  <1>3. ReserveWaits'
    BY WaitsNext DEF PayoutsInv, ReserveWaits
  <1>4. ASSUME UNCHANGED <<claims, disk, crashes>>, reserve'.payouts = reserve.payouts
        PROVE  PayoutsInv'
    BY <1>3, <1>4 DEF PayoutsInv, ReserveWaits
  <1>5. ASSUME NEW g \in Guarantees, Attach(g) PROVE PayoutsInv'
    <2>1. /\ reserve' = [reserve EXCEPT !.premiums = @ + Premium]
          /\ UNCHANGED <<claims, disk, crashes>>
      BY <1>5 DEF Attach
    <2>2. reserve'.payouts = reserve.payouts
      BY <1>1, <2>1 DEF Reserve
    <2> QED  BY <1>4, <2>1, <2>2
  <1>6. ASSUME NEW g \in Guarantees, Commit(g) \/ Complete(g) \/ Void(g) \/ DeleteJournal(g)
        PROVE  PayoutsInv'
    <2>1. UNCHANGED <<claims, reserve, disk, crashes>>
      BY <1>6 DEF Commit, Complete, Void, DeleteJournal, engineVars
    <2> QED  BY <1>4, <2>1
  <1>7. ASSUME SettlesOne, UNCHANGED <<disk, crashes>> PROVE PayoutsInv'
    <2>1. PICK p \in Nat : /\ reserve'.payouts = reserve.payouts + p
                           /\ PaidOutIn(claims') = PaidOutIn(claims) + p
      BY <1>7, SettlesSum
    <2>2. PICK q : q = PaidOutIn(claims')
      OBVIOUS
    <2>3. /\ reserve'.payouts <= q /\ disk.reserve.payouts <= reserve'.payouts
          /\ crashes = 0 => reserve'.payouts = q
      BY <1>2, <2>1, <2>2 DEF PayoutsInv
    <2> QED  BY <1>3, <1>7, <2>2, <2>3 DEF PayoutsInv, ReserveWaits
  <1>8. CASE SumsStay
    BY <1>4, <1>8 DEF SumsStay
  <1>9. CASE Write
    <2>1. UNCHANGED <<claims, reserve, crashes>>
      BY <1>9, Writing
    <2>2. CASE disk'.claims = disk.claims /\ disk'.reserve = disk.reserve
      BY <1>3, <2>1, <2>2 DEF PayoutsInv, ReserveWaits
    <2>3. CASE disk'.claims = claims /\ disk'.reserve = disk.reserve
      <3>1. disk.reserve.payouts <= PaidOutIn(claims)
        BY <1>2 DEF PayoutsInv
      <3> QED  BY <1>3, <2>1, <2>3, <3>1 DEF PayoutsInv, ReserveWaits
    <2>4. CASE Head(pending) = <<"reserve", 0>> /\ disk' = [disk EXCEPT !.reserve = reserve]
      <3>1. disk.claims = claims
        BY <1>9, <2>4, ReserveLast DEF PayoutsInv
      <3>2. disk'.reserve = reserve /\ disk'.claims = claims
        BY <2>4, <3>1 DEF Typed
      <3> QED  BY <1>2, <1>3, <2>1, <3>2 DEF PayoutsInv, ReserveWaits
    <2>5. \/ disk'.claims = disk.claims /\ disk'.reserve = disk.reserve
          \/ disk'.claims = claims /\ disk'.reserve = disk.reserve
          \/ Head(pending) = <<"reserve", 0>> /\ disk' = [disk EXCEPT !.reserve = reserve]
      BY <1>9, Writing DEF Typed
    <2> QED  BY <2>2, <2>3, <2>4, <2>5
  <1>10. CASE Crash
    <2>1. /\ reserve' = disk.reserve /\ claims' = disk.claims /\ disk' = disk
          /\ crashes' = crashes + 1
      BY <1>10 DEF Crash
    <2>2. crashes' # 0
      BY <1>1, <2>1
    <2> QED  BY <1>2, <1>3, <2>1, <2>2 DEF PayoutsInv, ReserveWaits
  <1>11. ASSUME UNCHANGED <<claims, reserve, disk, crashes>> PROVE PayoutsInv'
    BY <1>4, <1>11
  <1> QED  BY <1>5, <1>6, <1>7, <1>8, <1>9, <1>10, <1>11, SumSteps

----------------------------------------------------------------------------
(* The sums are right                                                      *)

LEMMA SumsInit == Init => SumsInv
  <1> SUFFICES ASSUME Init PROVE SumsInv
    OBVIOUS
  <1>1. /\ \A g \in Guarantees : /\ book[g] = "none" /\ guarantee[g].status = "none"
                                 /\ journal[g] = "none"
        /\ committed = {} /\ claims = <<>> /\ pending = <<>> /\ portfolio = 0
        /\ reserve.premiums = 0 /\ reserve.payouts = 0
        /\ disk.book = book /\ disk.guarantees = guarantee /\ disk.claims = claims
        /\ disk.reserve = reserve
    BY DEF Init, OnFile
  <1>2. /\ \A c : HeldOf(book, c) = {}
        /\ Outstanding(guarantee) = {} /\ OnRecord(guarantee) = {} /\ PaidIn(claims) = {}
    BY <1>1 DEF HeldOf, Outstanding, OnRecord, PaidIn
  <1>3. CoveredBy({}) = 0
    BY TotalOfNone DEF CoveredBy
  <1>4. LimitsInv
    <2>1. IsFiniteSet(committed) /\ OneOpen(journal)
      BY <1>1, FS_EmptySet DEF OneOpen
    <2>2. \A c : CoveredBy(HeldOf(book, c)) <= CarrierLimit
      BY <1>2, <1>3, LimitsAssumption
    <2> QED  BY <1>1, <2>1, <2>2 DEF LimitsInv, WithinLimit
  <1>5. PortfolioInv
    BY <1>1, <1>2, <1>3, LimitsAssumption DEF PortfolioInv
  <1>6. EarnedBy(guarantee) = 0
    <2>1. Cardinality({}) = 0
      BY FS_EmptySet
    <2> QED  BY <1>2, <2>1, GuaranteesAssumption DEF EarnedBy
  <1>7. PaidOutIn(claims) = 0
    <2>1. PaidOutIn(claims) = Total([k \in {} |-> claims[k].payout], {})
      BY <1>2 DEF PaidOutIn
    <2> QED  BY <2>1, TotalOfNone
  <1>8. \A x : ~Unwritten(x)
    BY <1>1 DEF Unwritten
  <1> QED  BY <1>1, <1>4, <1>5, <1>6, <1>7, <1>8 DEF SumsInv, PremiumsInv, PayoutsInv

LEMMA SumsHold == Spec => []SumsInv
  <1>1. Typed /\ Inv /\ SumsInv /\ [Next]_vars => SumsInv'
    BY LimitsNext, PortfolioNext, PremiumsNext, PayoutsNext DEF Inv, RecordInv, SumsInv
  <1> QED  BY <1>1, SumsInit, Invariant, PTL DEF Spec

\* What is summed is a number, in memory and after a crash, and payouts are capped
CapInv == PayoutsCapped(claims) /\ PayoutsCapped(disk.claims) /\ portfolio \in Int

LEMMA CapNext ==
    Typed /\ WriteInv /\ BookSound(disk.book, disk.guarantees) /\ LimitsInv /\ CapInv /\ [Next]_vars
    => CapInv'
  <1> SUFFICES ASSUME Typed, WriteInv, BookSound(disk.book, disk.guarantees), LimitsInv, CapInv,
                      [Next]_vars
               PROVE  CapInv'
    OBVIOUS
  <1>1. /\ PayoutsCapped(claims) /\ PayoutsCapped(disk.claims) /\ portfolio \in Int
        /\ \A g \in Guarantees : Covered[g] \in Int
        /\ claims \in Seq(Claim) /\ Len(claims) \in Nat
    BY GuaranteesAssumption DEF CapInv, Typed
  <1>2. ASSUME UNCHANGED <<claims, disk>>, portfolio' \in Int PROVE CapInv'
    BY <1>1, <1>2 DEF CapInv
  <1>3. ASSUME NEW g \in Guarantees,
               Commit(g) \/ Attach(g) \/ Complete(g) \/ Void(g) \/ DeleteJournal(g)
        PROVE  CapInv'
    <2>1. /\ UNCHANGED <<claims, disk>>
          /\ portfolio' = portfolio \/ portfolio' = portfolio + Covered[g]
      BY <1>3 DEF Commit, Attach, Complete, Void, DeleteJournal, engineVars
    <2>2. portfolio' \in Int
      BY <1>1, <2>1
    <2> QED  BY <1>2, <2>1, <2>2
  <1>4. ASSUME NEW g \in Guarantees, NEW r \in Reasons, Released(g, r) PROVE portfolio' \in Int
    <2>1. portfolio' = portfolio \/ portfolio' = portfolio - Covered[g]
      BY <1>4 DEF Released
    <2> QED  BY <1>1, <2>1
  <1>5. ASSUME SettlesOne, UNCHANGED disk PROVE CapInv'
    <2>1. PICK k \in 1 .. Len(claims) + 1, d \in Claim, covered \in BOOLEAN :
             Settle(k, d, covered) /\ d.payout <= Covered[d.of]
      BY <1>1, <1>5 DEF SettlesOne
    <2>2. PICK cs : cs = claims'
      OBVIOUS
    <2>3. /\ Len(cs) = IF k > Len(claims) THEN k ELSE Len(claims)
          /\ \A i \in 1 .. Len(claims) : i # k => cs[i] = claims[i]
          /\ cs[k].of = d.of /\ cs[k].payout = d.payout
      BY <2>1, <2>2, Settles, SMTT(60)
    <2>4. \A i \in 1 .. Len(cs) : i # k => i \in 1 .. Len(claims)
      BY <1>1, <2>3
    <2>5. PayoutsCapped(cs)
      BY <1>1, <2>1, <2>3, <2>4 DEF PayoutsCapped
    <2>6. portfolio' \in Int
      <3>1. CASE Pays(d, covered)
        <4>1. Released(d.of, "claim") /\ d.of \in Guarantees /\ "claim" \in Reasons
          BY <2>1, <3>1, Settles DEF Claim, Reasons
        <4> QED  BY <1>4, <4>1
      <3>2. CASE ~Pays(d, covered)
        BY <1>1, <2>1, <3>2 DEF Settle, Pays
      <3> QED  BY <3>1, <3>2
    <2> QED  BY <1>1, <1>5, <2>2, <2>5, <2>6 DEF CapInv
  <1>6. CASE SumsStay
    BY <1>1, <1>2, <1>6 DEF SumsStay
  <1>7. CASE Write
    <2>1. /\ UNCHANGED <<claims, portfolio>>
          /\ disk'.claims = disk.claims \/ disk'.claims = claims
      BY <1>7, Writing DEF Typed, Write, engineVars
    <2> QED  BY <1>1, <2>1 DEF CapInv
  <1>8. CASE Crash
    <2>1. /\ claims' = disk.claims /\ disk' = disk
          /\ portfolio' = CoveredBy(Attached(disk.guarantees))
      BY <1>8 DEF Crash
    <2>2. PICK s : s = Attached(disk.guarantees)
      OBVIOUS
    <2>3. IsFiniteSet(Outstanding(disk.guarantees))
      BY AllFinite DEF Typed, LimitsInv
    <2>4. s \subseteq Outstanding(disk.guarantees) /\ s \subseteq Guarantees
      BY <2>2 DEF Attached, Outstanding
    <2>5. CoveredBy(s) \in Nat
      <3>1. IsFiniteSet(s) /\ \A g \in s : Covered[g] \in Nat
        BY <2>3, <2>4, FS_Subset, GuaranteesAssumption
      <3> QED  BY <3>1, TotalType DEF CoveredBy
    <2> QED  BY <1>1, <2>1, <2>2, <2>5 DEF CapInv
  <1> QED  BY <1>2, <1>3, <1>4, <1>5, <1>6, <1>7, <1>8, SumSteps

\* The records keep their types, in memory and on disk, through any crash: what a
\* restart reads is a record of the engine's, and its sum of what is attached a number
\* (UnderwritingEngine's constructor); no claim is decided for more than is covered
THEOREM RecordsKeepTypes == Spec => []TypeOK
  <1>1. Init => CapInv
    <2> SUFFICES ASSUME Init PROVE CapInv
      OBVIOUS
    <2>1. claims = <<>> /\ disk.claims = claims /\ portfolio = 0
      BY DEF Init, OnFile
    <2> QED  BY <2>1 DEF CapInv, PayoutsCapped
  <1>2. Typed /\ Inv /\ SumsInv /\ CapInv /\ [Next]_vars => CapInv'
    BY CapNext DEF Inv, RecordInv, SumsInv
  <1>3. Typed /\ CapInv => TypeOK
    BY DEF Typed, CapInv, PayoutsCapped, TypeOK
  <1> QED  BY <1>1, <1>2, <1>3, Invariant, SumsHold, PTL DEF Spec

\* The money and the books of it, for any number of guarantees, amounts and crashes:
\* exposure comes back, no limit is passed, and the reserve counts every premium and
\* payout once (attach, release, settle, persist and the constructor)
THEOREM SumsAlwaysRight == Spec => []SumsAreRight
  <1>1. Typed /\ Inv /\ SumsInv => LimitsHold
    <2> SUFFICES ASSUME Typed, Inv, SumsInv PROVE LimitsHold
      OBVIOUS
    <2>1. /\ guarantee \in [Guarantees -> [status : Statuses, why : Reasons]]
          /\ BookSound(book, guarantee) /\ BookExact /\ WithinLimit(book, journal)
          /\ PortfolioInv
      BY DEF Typed, Inv, RecordInv, SumsInv, LimitsInv
    <2>2. \A c \in Carriers : CoveredBy(HeldOf(book, c)) <= CarrierLimit
      BY <2>1 DEF WithinLimit
    <2>3. \A c \in Carriers : Exposure(c) <= CarrierLimit
      BY <2>2 DEF Exposure, HeldOf
    <2>4. ASSUME crashes = 0, NEW c \in Carriers
          PROVE  CoveredBy(OutstandingOf(c)) <= CarrierLimit
      <3>1. \A g \in Guarantees : g \in Outstanding(guarantee) <=> book[g] = "held"
        <4>1. ASSUME NEW g \in Guarantees, book[g] = "held" PROVE g \in Outstanding(guarantee)
          <5>1. guarantee[g].status \in Statuses
            BY <2>1
          <5>2. guarantee[g].status # "none" /\ guarantee[g].status # "RELEASED"
            BY <2>1, <2>4, <4>1 DEF BookSound, BookExact
          <5> QED  BY <5>1, <5>2 DEF Statuses, Outstanding
        <4> QED  BY <2>1, <2>4, <4>1 DEF BookExact
      <3>2. OutstandingOf(c) = HeldOf(book, c)
        BY <3>1 DEF OutstandingOf, HeldOf, Outstanding
      <3> QED  BY <2>2, <3>2
    <2> QED  BY <2>1, <2>3, <2>4 DEF LimitsHold, PortfolioInv
  <1>2. SumsInv => ReserveCounts
    <2>1. PaidOut = PaidOutIn(claims) /\ Earned = EarnedBy(guarantee)
      BY DEF PaidOut, PaidOutIn, Paid, PaidIn, Earned, EarnedBy, OnRecord
    <2> QED  BY <2>1 DEF SumsInv, PremiumsInv, PayoutsInv, ReserveCounts
  <1> QED  BY <1>1, <1>2, Invariant, SumsHold, ExposureBooked, PTL DEF SumsAreRight
=============================================================================
