-------------------------- MODULE Artifact_proofs --------------------------
(***************************************************************************)
(* Theorems about Registry and about Artifact, which extends it, for any    *)
(* mirrors and witnesses, of which any may lie, any notice and any clock.   *)
(*                                                                         *)
(* Of Registry: no honest party is ever convicted of a falsehood, the       *)
(* insurer's word keeps its promise for a load that moves on it, and what   *)
(* an honest mirror has heard blocks a commitment.  Of Artifact: the        *)
(* verifier's verdict is just.                                             *)
(*                                                                         *)
(* What they rest on relates three clocks: when a copy was taken and when  *)
(* its mirror says so, when a word was signed, and the dates of a filing;   *)
(* and, for the witnesses, when a head was cosigned and when what follows   *)
(* it was recorded.                                                        *)
(***************************************************************************)
EXTENDS Artifact, Integers, WellFoundedInduction, FiniteSetTheorems, TLAPS

USE RegistryAssumption

Attestation == [copied : Nat, sync : Nat, filings : BOOLEAN]
InsurerWord == [asOf : Nat, filed : Nat, effective : Nat]
Commitment  == [status : {"active", "voided", "in transit"},
                conditional : BOOLEAN, satisfied : BOOLEAN]

\* A cancellation is filed at least the notice ahead, and received after that
WorldInv ==
    /\ now \in Nat /\ now <= MaxTime
    /\ \/ filed = NotFiled
       \/ /\ filed \in [filed : Nat, effective : Nat]
          /\ filed.filed <= Day(now) /\ filed.filed + NoticeDays <= filed.effective
          /\ filed.effective <= filed.filed + NoticeDays + 1
    /\ \/ received = Never
       \/ filed # NotFiled /\ received \in Nat /\ received <= now

\* A copy is never newer than now; an honest mirror says when it was taken
Held(m, a) ==
    /\ a \in Attestation /\ a.copied <= now /\ a.sync <= now
    /\ m \in honest => a.copied = a.sync /\ (a.filings = TRUE \/ FilingsFail = TRUE)

HeldInv ==
    /\ relied \subseteq Mirrors
    /\ \A m \in relied : held[m] # NoAnswer
    /\ \A m \in Mirrors : held[m] # NoAnswer => Held(m, held[m])

\* A word shows the filing that was made, or none; what an honest insurer has signed
\* shows what it had filed by then
Genuine(w) ==
    /\ w \in InsurerWord /\ w.asOf <= now
    /\ w.effective # Never =>
          filed # NotFiled /\ w.filed = filed.filed /\ w.effective = filed.effective
    /\ Insurer \in honest =>
          \/ w.effective = filed.effective
          \/ w.effective = Never /\ filed # NotFiled /\ Day(w.asOf) <= filed.filed

WordInv == word # NoAnswer => Genuine(word)

\* Nothing filed from now on can end the cover before the day of delivery
Assured ==
    IF filed = NotFiled
    THEN Day(Delivery) <= Never /\ Delivery <= now + NoticeDays * DayLength
    ELSE Day(Delivery) <= filed.effective

DealInv ==
    /\ deal.status = "none" \/ deal \in Commitment
    /\ deal.status # "none" /\ (~deal.conditional \/ deal.satisfied) /\ Insurer \in honest
          => Assured

Inv == WorldInv /\ HeldInv /\ WordInv /\ DealInv

----------------------------------------------------------------------------
(* Days                                                                    *)

LEMMA Never1 == Never \in Nat /\ \A t \in Nat : t <= MaxTime => t # Never /\ t < Never
  BY DEF Never

LEMMA DayBounds ==
    ASSUME NEW a \in Nat
    PROVE  Day(a) \in Nat /\ DayLength * Day(a) <= a /\ a < DayLength * Day(a) + DayLength
  BY DEF Day

LEMMA NextDay ==
    ASSUME NEW x \in Int, NEW y \in Int, x < y
    PROVE  DayLength * x + DayLength <= DayLength * y
  <1>1. DayLength * x + DayLength = DayLength * (x + 1)
    OBVIOUS
  <1>2. PICK k \in Nat : y = (x + 1) + k
    <2>1. y - (x + 1) \in Nat /\ y = (x + 1) + (y - (x + 1))
      OBVIOUS
    <2> QED  BY <2>1
  <1>3. DayLength * y = DayLength * (x + 1) + DayLength * k
    BY <1>2
  <1>4. DayLength * k \in Nat /\ DayLength * (x + 1) \in Int
    OBVIOUS
  <1> QED  BY <1>1, <1>3, <1>4

LEMMA DayMonotonic ==
    ASSUME NEW a \in Nat, NEW b \in Nat, a <= b
    PROVE  Day(a) <= Day(b)
  <1>1. Day(a) \in Nat /\ Day(b) \in Nat
    BY DayBounds
  <1>2. CASE Day(b) < Day(a)
    <2>1. DayLength * Day(b) + DayLength <= DayLength * Day(a)
      BY <1>1, <1>2, NextDay
    <2>2. DayLength * Day(a) \in Int /\ DayLength * Day(b) \in Int
      BY <1>1
    <2> QED  BY <2>1, <2>2, DayBounds
  <1> QED  BY <1>1, <1>2

\* The day some days later
LEMMA DaysLater ==
    ASSUME NEW a \in Nat, NEW n \in Nat
    PROVE  Day(a + n * DayLength) = Day(a) + n /\ a + n * DayLength \in Nat
  <1> DEFINE b == a + n * DayLength
  <1>1. b \in Nat /\ n * DayLength = DayLength * n
    OBVIOUS
  <1>2. Day(a) \in Nat /\ Day(b) \in Nat
    BY <1>1, DayBounds
  <1>3. DayLength * (Day(a) + n) = DayLength * Day(a) + DayLength * n
    BY <1>2
  <1>4. CASE Day(b) < Day(a) + n
    <2>1. DayLength * Day(b) + DayLength <= DayLength * (Day(a) + n)
      BY <1>2, <1>4, NextDay
    <2> HIDE DEF b
    <2> QED  BY <1>1, <1>2, <1>3, <2>1, DayBounds DEF b
  <1>5. CASE Day(b) > Day(a) + n
    <2>1. DayLength * (Day(a) + n) + DayLength <= DayLength * Day(b)
      BY <1>2, <1>5, NextDay
    <2> HIDE DEF b
    <2> QED  BY <1>1, <1>2, <1>3, <2>1, DayBounds DEF b
  <1> QED  BY <1>1, <1>2, <1>4, <1>5

\* The day of a time before a midnight is no later than that day
LEMMA BeforeMidnight ==
    ASSUME NEW a \in Nat, NEW d \in Nat, a <= Midnight(d)
    PROVE  Day(a) <= d
  <1>1. Midnight(d) = 0 + d * DayLength /\ Midnight(d) \in Nat
    BY DEF Midnight
  <1>2. Day(Midnight(d)) = Day(0) + d
    BY <1>1, DaysLater
  <1>3. Day(0) = 0
    <2>1. Day(0) \in Nat /\ DayLength * Day(0) <= 0
      BY DayBounds
    <2>2. CASE Day(0) > 0
      <3>1. DayLength * 0 + DayLength <= DayLength * Day(0)
        BY <2>1, <2>2, NextDay
      <3> QED  BY <2>1, <3>1
    <2> QED  BY <2>1, <2>2
  <1> QED  BY <1>1, <1>2, <1>3, DayMonotonic

----------------------------------------------------------------------------
(* What the venue holds                                                    *)

\* A mirror answers with a copy it may have
LEMMA AttestedHeld ==
    ASSUME WorldInv, HeldInv, NEW m \in Mirrors, NEW a \in Attested(m)
    PROVE  Held(m, a) /\ a # NoAnswer
  <1> DEFINE last == IF held[m] = NoAnswer THEN 0 ELSE held[m].copied
  <1>1. last \in Nat /\ last <= now /\ now \in Nat
    BY DEF HeldInv, Held, Attestation, WorldInv
  <1>2. CASE m \in honest
    <2>1. a \in {[copied |-> t, sync |-> t, filings |-> f] :
                     t \in last .. now, f \in {TRUE, ~FilingsFail}}
      BY <1>2 DEF Attested
    <2>2. PICK t \in last .. now, f \in {TRUE, ~FilingsFail} :
             a = [copied |-> t, sync |-> t, filings |-> f]
      BY <2>1
    <2>3. /\ t \in Nat /\ t <= now
          /\ f \in BOOLEAN /\ (f = TRUE \/ FilingsFail = TRUE)
      <3> HIDE DEF last
      <3>1. t \in Nat /\ t <= now
        BY <1>1
      <3>2. f = TRUE \/ f = ~FilingsFail
        OBVIOUS
      <3>3. FilingsFail = TRUE \/ FilingsFail = FALSE
        OBVIOUS
      <3>4. f \in BOOLEAN /\ (f = TRUE \/ FilingsFail = TRUE)
        BY <3>2, <3>3
      <3> QED  BY <3>1, <3>4
    <2> QED  BY <2>2, <2>3 DEF Held, Attestation, NoAnswer
  <1>3. CASE m \notin honest
    <2>1. a \in {[copied |-> t, sync |-> now, filings |-> TRUE] : t \in {last, now}}
      BY <1>3 DEF Attested
    <2>2. PICK t \in {last, now} : a = [copied |-> t, sync |-> now, filings |-> TRUE]
      BY <2>1
    <2> QED  BY <1>1, <1>3, <2>2 DEF Held, Attestation, NoAnswer
  <1> QED  BY <1>2, <1>3

\* An answer that is taken is a copy not older than it is asked to be
LEMMA AnswerHeld ==
    ASSUME WorldInv, HeldInv, NEW m \in Mirrors, NEW maxAge \in Nat,
           NEW a \in Answers(m, maxAge), a # NoAnswer
    PROVE  Held(m, a) /\ now <= a.sync + maxAge
  <1>1. FreshAt(a, maxAge) /\ (a = held[m] \/ a \in Attested(m))
    BY DEF Answers
  <1>2. Held(m, a)
    BY <1>1, AttestedHeld DEF HeldInv
  <1> QED  BY <1>1, <1>2 DEF FreshAt

\* What a refresh brings is held, and what is held from before stays
LEMMA HeldKept ==
    ASSUME WorldInv, HeldInv, NEW maxAge \in Nat, NEW h \in Refreshed(maxAge), Hold(h),
           UNCHANGED world
    PROVE  /\ \A m \in Mirrors : held'[m] # NoAnswer => Held(m, held[m])'
           /\ \A m \in Mirrors : held[m] # NoAnswer => held'[m] # NoAnswer
           /\ Reached(h) \subseteq Mirrors
           /\ \A m \in Reached(h) : /\ held'[m] = h[m] /\ held'[m] # NoAnswer
                                    /\ now <= held'[m].sync + maxAge
  <1>1. ASSUME NEW m \in Mirrors
        PROVE  /\ m \in Reached(h) => held'[m] = h[m] /\ h[m] # NoAnswer
               /\ m \notin Reached(h) => held'[m] = held[m]
               /\ h[m] \in Answers(m, maxAge)
    BY DEF Hold, Reached, Refreshed
  <1>2. ASSUME NEW m \in Mirrors, m \in Reached(h)
        PROVE  Held(m, h[m]) /\ now <= h[m].sync + maxAge
    BY <1>1, <1>2, AnswerHeld
  <1>3. ASSUME NEW m \in Mirrors, held'[m] # NoAnswer
        PROVE  Held(m, held'[m])
    BY <1>1, <1>2, <1>3 DEF HeldInv
  <1>4. now' = now /\ honest' = honest
    BY DEF world
  <1>5. \A m \in Mirrors : held'[m] # NoAnswer => Held(m, held[m])'
    BY <1>3, <1>4 DEF Held
  <1> QED  BY <1>1, <1>2, <1>5 DEF Reached

LEMMA Relies ==
    ASSUME WorldInv, HeldInv, NEW maxAge \in Nat, NEW h \in Refreshed(maxAge), Rely(h),
           UNCHANGED world
    PROVE  /\ HeldInv'
           /\ \A m \in relied' : now <= held'[m].sync + maxAge
  <1>1. Hold(h) /\ relied' = Reached(h)
    BY DEF Rely
  <1> QED  BY <1>1, HeldKept DEF HeldInv

----------------------------------------------------------------------------
(* What is shown, and what is promised                                     *)

\* Whoever shows a cancellation shows the one that was filed and received
LEMMA ShownIsFiled ==
    ASSUME WorldInv, NEW on, NEW h, \A m \in on : Held(m, h[m]), NEW e \in Evidence(on, h)
    PROVE  /\ filed # NotFiled /\ received \in Nat /\ received <= now
           /\ e.filed = filed.filed /\ e.effective = filed.effective
           /\ e.received = Day(received)
  <1>1. PICK m \in on : e \in FilingsShownBy(m, h[m])
    BY DEF Evidence
  <1> DEFINE a == h[m]
  <1>2. a.copied \in Nat /\ a.copied <= now
    BY DEF Held, Attestation
  <1>3. ~(a.copied < received \/ ~a.filings)
    BY <1>1 DEF FilingsShownBy, Record
  <1>4. /\ e = [source |-> m, asOf |-> a.sync, filed |-> filed.filed,
                effective |-> filed.effective, received |-> Day(received)]
    BY <1>1, <1>3 DEF FilingsShownBy, Record
  <1> HIDE DEF a
  <1>5. received # Never
    BY <1>2, <1>3, Never1 DEF WorldInv
  <1> QED  BY <1>4, <1>5 DEF WorldInv

\* A word the insurer signs now
LEMMA SignedNow ==
    ASSUME WorldInv, NEW w \in Signed
    PROVE  /\ w # NoAnswer /\ Genuine(w)
           /\ Insurer \in honest => w.effective = filed.effective
  <1>1. PICK c \in (IF Insurer \in honest THEN {filed} ELSE {filed, NotFiled}) :
           w = [asOf |-> now, filed |-> c.filed, effective |-> c.effective]
    BY DEF Signed
  <1>2. c = filed \/ (c = NotFiled /\ Insurer \notin honest)
    BY <1>1
  <1>3. filed.filed \in Nat /\ filed.effective \in Nat
    BY Never1 DEF WorldInv, NotFiled
  <1>4. c.filed \in Nat /\ c.effective \in Nat
    BY <1>2, <1>3, Never1 DEF NotFiled
  <1>5. w \in InsurerWord /\ w.asOf = now /\ (Insurer \in honest => w.effective = filed.effective)
    BY <1>1, <1>2, <1>4 DEF InsurerWord, WorldInv
  <1>6. w # NoAnswer
    BY <1>1 DEF NoAnswer
  <1>7. w.effective # Never => filed # NotFiled /\ w.filed = filed.filed /\ w.effective = filed.effective
    <2>1. CASE c = filed
      BY <1>1, <2>1 DEF NotFiled
    <2>2. CASE c = NotFiled
      BY <1>1, <2>2 DEF NotFiled
    <2> QED  BY <1>2, <2>1, <2>2
  <1> QED  BY <1>5, <1>6, <1>7 DEF Genuine, WorldInv

\* The insurer's promise: a word that reaches the delivery assures it
LEMMA Promise ==
    ASSUME WorldInv, NEW w, Genuine(w), Insurer \in honest, CoverageAssuredThrough(w) >= Delivery
    PROVE  Assured
  <1>1. /\ w.asOf \in Nat /\ w.effective \in Nat /\ w.asOf <= now /\ now \in Nat
        /\ Never \in Nat
    BY Never1 DEF Genuine, InsurerWord, WorldInv
  <1> DEFINE statutory == w.asOf + NoticeDays * DayLength
  <1>2. statutory \in Nat /\ Midnight(w.effective) \in Nat
    BY <1>1 DEF Midnight
  <1>3. Delivery <= statutory /\ Delivery <= Midnight(w.effective)
    <2>1. CoverageAssuredThrough(w) =
             IF Midnight(w.effective) < statutory THEN Midnight(w.effective) ELSE statutory
      BY DEF CoverageAssuredThrough
    <2> HIDE DEF statutory
    <2> QED  BY <1>2, <2>1
  <1>4. Day(Delivery) <= w.effective
    BY <1>1, <1>3, BeforeMidnight
  <1>5. Day(Delivery) <= Day(w.asOf) + NoticeDays
    <2>1. Day(statutory) = Day(w.asOf) + NoticeDays
      BY <1>1, DaysLater
    <2>2. Day(Delivery) <= Day(statutory)
      BY <1>2, <1>3, DayMonotonic
    <2> QED  BY <2>1, <2>2
  <1>6. CASE filed = NotFiled
    <2>1. w.effective = Never
      BY <1>6 DEF Genuine, NotFiled
    <2>2. statutory <= now + NoticeDays * DayLength
      BY <1>1
    <2>3. NoticeDays * DayLength \in Nat
      OBVIOUS
    <2>4. Delivery <= now + NoticeDays * DayLength
      <3> HIDE DEF statutory
      <3> QED  BY <1>1, <1>2, <1>3, <2>2, <2>3
    <2> QED  BY <1>4, <1>6, <2>1, <2>4 DEF Assured
  <1>7. CASE filed # NotFiled
    <2>1. filed.filed \in Nat /\ filed.effective \in Nat /\ filed.filed + NoticeDays <= filed.effective
      BY <1>7 DEF WorldInv
    <2>2. CASE w.effective = filed.effective
      BY <1>4, <1>7, <2>2 DEF Assured
    <2>3. CASE Day(w.asOf) <= filed.filed
      <3>1. Day(w.asOf) \in Nat /\ Day(Delivery) \in Nat
        BY <1>1, DayBounds
      <3>2. Day(Delivery) <= filed.effective
        BY <1>5, <2>1, <2>3, <3>1
      <3> QED  BY <1>7, <3>2 DEF Assured
    <2> QED  BY <2>2, <2>3 DEF Genuine
  <1> QED  BY <1>6, <1>7

\* The condition of a renewal is satisfied only by a word that assures the delivery
LEMMA RenewalAssures ==
    ASSUME WorldInv, NEW d, d.status = "none" \/ d \in Commitment, NEW w,
           w # NoAnswer => Genuine(w), NEW evidence,
           d.status # "none" /\ (~d.conditional \/ d.satisfied) /\ Insurer \in honest => Assured,
           NEW e, e = RenewalChecked(d, w, evidence)
    PROVE  /\ e = d \/ (e \in Commitment /\ d \in Commitment)
           /\ e.status # "none" /\ (~e.conditional \/ e.satisfied) /\ Insurer \in honest => Assured
           /\ e.status = "active" => d.status = "active"
  <1>1. CASE d.status # "active" \/ ~d.conditional \/ d.satisfied
    <2>1. e = d
      BY <1>1 DEF RenewalChecked
    <2> QED  BY <2>1
  <1>2. CASE d.status = "active" /\ d.conditional /\ ~d.satisfied
    <2>1. d \in Commitment
      BY <1>2
    <2>2. \/ e = [d EXCEPT !.status = "voided"]
          \/ e = d
          \/ e = [d EXCEPT !.satisfied = TRUE] /\ w # NoAnswer /\ SatisfiesRenewal(w)
      BY <1>2 DEF RenewalChecked
    <2>3. CASE e = [d EXCEPT !.status = "voided"]
      <3>1. e \in Commitment /\ e.status = "voided" /\ e.conditional = d.conditional
            /\ e.satisfied = d.satisfied
        BY <2>1, <2>3 DEF Commitment
      <3> QED  BY <1>2, <2>1, <3>1
    <2>4. CASE e = [d EXCEPT !.satisfied = TRUE] /\ w # NoAnswer /\ SatisfiesRenewal(w)
      <3>1. e \in Commitment
        BY <2>1, <2>4 DEF Commitment
      <3>2. Insurer \in honest => Assured
        BY <2>4, Promise DEF SatisfiesRenewal
      <3> QED  BY <1>2, <2>1, <3>1, <3>2
    <2>5. CASE e = d
      BY <2>5
    <2> QED  BY <2>2, <2>3, <2>4, <2>5
  <1> QED  BY <1>1, <1>2

----------------------------------------------------------------------------
(* The inductive invariant                                                 *)

LEMMA InvInit == Init => Inv
  <1> SUFFICES ASSUME Init PROVE Inv
    OBVIOUS
  <1>1. WorldInv
    BY DEF Init, WorldInv
  <1>2. HeldInv
    BY DEF Init, HeldInv
  <1>3. WordInv
    BY DEF Init, WordInv
  <1>4. DealInv
    BY DEF Init, DealInv
  <1> QED  BY <1>1, <1>2, <1>3, <1>4 DEF Inv

LEMMA TickKeeps == Inv /\ Tick => Inv'
  <1> SUFFICES ASSUME Inv, Tick PROVE Inv'
    OBVIOUS
  <1>1. /\ now \in Nat /\ now' = now + 1 /\ now' <= MaxTime /\ now <= now'
        /\ UNCHANGED <<honest, filed, received, held, relied, word, deal>>
    BY DEF Tick, Inv, WorldInv, venue
  <1>2. Day(now) \in Nat /\ Day(now') \in Nat /\ Day(now) <= Day(now')
    BY <1>1, DayMonotonic, DayBounds
  <1>3. WorldInv'
    <2>1. /\ filed = NotFiled
             \/ /\ filed \in [filed : Nat, effective : Nat]
                /\ filed.filed <= Day(now) /\ filed.filed + NoticeDays <= filed.effective
                /\ filed.effective <= filed.filed + NoticeDays + 1
          /\ received = Never \/ (filed # NotFiled /\ received \in Nat /\ received <= now)
      BY DEF Inv, WorldInv
    <2>2. filed # NotFiled => filed.filed \in Nat /\ filed.filed <= Day(now)
      BY <2>1
    <2>3. filed # NotFiled => filed.filed <= Day(now')
      BY <1>2, <2>2
    <2>4. received # Never => received <= now'
      BY <1>1, <2>1
    <2>5. UNCHANGED <<NotFiled, Never>>
      BY DEF NotFiled, Never
    <2> QED  BY <1>1, <2>1, <2>3, <2>4, <2>5 DEF WorldInv, Day
  <1>4. HeldInv'
    <2>1. ASSUME NEW m \in Mirrors, NEW a, Held(m, a)
          PROVE  a.copied <= now' /\ a.sync <= now'
      BY <1>1, <2>1 DEF Held, Attestation
    <2> QED  BY <1>1, <2>1 DEF Inv, HeldInv, Held
  <1>5. WordInv'
    <2>1. word # NoAnswer => word.asOf \in Nat /\ word.asOf <= now
      BY DEF Inv, WordInv, Genuine, InsurerWord
    <2>2. word # NoAnswer => word.asOf <= now'
      BY <1>1, <2>1
    <2> QED  BY <1>1, <2>2 DEF Inv, WordInv, Genuine, Day
  <1>6. DealInv'
    <2>1. Assured => Assured'
      <3>1. NoticeDays * DayLength \in Nat
        OBVIOUS
      <3> QED  BY <1>1, <3>1 DEF Assured, Day
    <2> QED  BY <1>1, <2>1 DEF Inv, DealInv
  <1> QED  BY <1>3, <1>4, <1>5, <1>6 DEF Inv

\* A filing counts its notice from the day it is made: it can undo no word and no
\* commitment that rests on one
LEMMA FileKeeps == Inv /\ File => Inv'
  <1> SUFFICES ASSUME Inv, File PROVE Inv'
    OBVIOUS
  <1>1. /\ filed = NotFiled /\ received = Never /\ now \in Nat /\ now <= MaxTime
        /\ UNCHANGED <<now, honest, received, held, relied, word, deal>>
    BY DEF File, Inv, WorldInv, venue
  <1>2. PICK ahead \in NoticeDays .. NoticeDays + 1 :
           filed' = [filed |-> Day(now), effective |-> Day(now) + ahead]
    BY DEF File
  <1>3. ahead \in Nat /\ NoticeDays <= ahead /\ ahead <= NoticeDays + 1 /\ Day(now) \in Nat
    BY <1>1, DayBounds
  <1>4. Day(now) <= now
    BY <1>1 DEF Day
  <1>5. /\ filed'.filed = Day(now) /\ filed'.effective = Day(now) + ahead
        /\ filed' \in [filed : Nat, effective : Nat]
    BY <1>2, <1>3
  <1>6. filed' # NotFiled
    <2>1. NotFiled.filed = Never
      BY DEF NotFiled
    <2>2. Day(now) < Never
      BY <1>1, <1>3, <1>4 DEF Never
    <2>3. filed'.filed # NotFiled.filed
      BY <1>1, <1>3, <1>5, <2>1, <2>2 DEF Never
    <2> QED  BY <2>3
  <1>7. WorldInv'
    BY <1>1, <1>3, <1>5 DEF WorldInv, Never, Day
  <1>8. HeldInv'
    BY <1>1 DEF Inv, HeldInv, Held
  <1>9. WordInv'
    <2>1. word # NoAnswer => word.asOf \in Nat /\ word.asOf <= now
      BY DEF Inv, WordInv, Genuine, InsurerWord
    <2>2. word # NoAnswer => Day(word.asOf) <= filed'.filed
      BY <1>1, <1>5, <2>1, DayMonotonic
    <2>3. word # NoAnswer /\ Insurer \in honest => word.effective = Never
      BY <1>1 DEF Inv, WordInv, Genuine, NotFiled
    <2> QED  BY <1>1, <1>6, <2>2, <2>3 DEF Inv, WordInv, Genuine, Never, NotFiled, Day
  <1>10. DealInv'
    <2>1. ASSUME Assured PROVE Assured'
      <3>1. Delivery <= now + NoticeDays * DayLength
        BY <1>1, <2>1 DEF Assured
      <3>2. /\ Day(now + NoticeDays * DayLength) = Day(now) + NoticeDays
            /\ now + NoticeDays * DayLength \in Nat
        BY <1>1, DaysLater
      <3>3. Day(Delivery) <= Day(now) + NoticeDays /\ Day(Delivery) \in Nat
        BY <3>1, <3>2, DayMonotonic, DayBounds
      <3>4. Day(Delivery) <= filed'.effective
        BY <1>3, <1>5, <3>3
      <3> QED  BY <1>6, <3>4 DEF Assured, NotFiled, Never, Day
    <2> QED  BY <1>1, <2>1 DEF Inv, DealInv
  <1> QED  BY <1>7, <1>8, <1>9, <1>10 DEF Inv

LEMMA ReceiveKeeps == Inv /\ Receive => Inv'
  <1> SUFFICES ASSUME Inv, Receive PROVE Inv'
    OBVIOUS
  <1>1. /\ filed # NotFiled /\ received' = now
        /\ UNCHANGED <<now, honest, filed, held, relied, word, deal>>
    BY DEF Receive, venue
  <1>2. WorldInv'
    BY <1>1 DEF Inv, WorldInv, NotFiled, Never, Day
  <1>3. HeldInv' /\ WordInv'
    BY <1>1 DEF Inv, HeldInv, Held, WordInv, Genuine, Never, NotFiled, Day
  <1>4. DealInv'
    BY <1>1 DEF Inv, DealInv, Assured, Never, NotFiled, Day
  <1> QED  BY <1>2, <1>3, <1>4 DEF Inv

\* A step of the venue changes nothing outside
LEMMA VenueStep ==
    ASSUME Inv, UNCHANGED world
    PROVE  /\ WorldInv' /\ (Assured <=> Assured')
           /\ \A w : Genuine(w) => Genuine(w)'
  <1>1. UNCHANGED <<now, honest, filed, received>>
    BY DEF world
  <1>2. WorldInv'
    BY <1>1 DEF Inv, WorldInv, NotFiled, Never, Day
  <1>3. Assured <=> Assured'
    BY <1>1 DEF Assured, NotFiled, Never, Day
  <1>4. ASSUME NEW w, Genuine(w) PROVE Genuine(w)'
    BY <1>1, <1>4 DEF Genuine, NotFiled, Never, Day
  <1> QED  BY <1>2, <1>3, <1>4

LEMMA UnreachableKeeps == Inv /\ Unreachable => Inv'
  <1> SUFFICES ASSUME Inv, Unreachable PROVE Inv'
    OBVIOUS
  <1>1. UNCHANGED world /\ relied' = relied /\ word' = word /\ deal' = deal
    BY DEF Unreachable
  <1>2. PICK maxAge \in {0, MaxAge} : \E h \in Refreshed(maxAge) : Hold(h)
    BY DEF Unreachable
  <1>3. PICK h \in Refreshed(maxAge) : Hold(h)
    BY <1>2
  <1>4. maxAge \in Nat
    OBVIOUS
  <1>5. HeldInv'
    BY <1>1, <1>3, <1>4, HeldKept DEF Inv, HeldInv
  <1>6. WordInv' /\ DealInv'
    BY <1>1, VenueStep DEF Inv, WordInv, DealInv, world, NoAnswer, Never
  <1> QED  BY <1>1, <1>5, <1>6, VenueStep DEF Inv

LEMMA PresentKeeps == Inv /\ Present => Inv'
  <1> SUFFICES ASSUME Inv, Present PROVE Inv'
    OBVIOUS
  <1>1. UNCHANGED world
    BY DEF Present
  <1>2. PICK h \in Refreshed(MaxAge), w \in Signed :
           /\ Rely(h)
           /\ IF InsurerContradictedBy(w, Evidence(relied', held')) THEN UNCHANGED <<word, deal>>
              ELSE word' = w /\ deal' = RenewalChecked(deal, w, Evidence(relied', held'))
    BY DEF Present
  <1>3. HeldInv'
    BY <1>1, <1>2, Relies DEF Inv
  <1>4. w # NoAnswer /\ Genuine(w)
    BY SignedNow DEF Inv
  <1>5. NoAnswer' = NoAnswer
    BY DEF NoAnswer, Never
  <1>6. CASE InsurerContradictedBy(w, Evidence(relied', held'))
    <2>1. word' = word /\ deal' = deal
      BY <1>2, <1>6
    <2>2. WordInv' /\ DealInv'
      BY <1>1, <1>5, <2>1, VenueStep DEF Inv, WordInv, DealInv, world
    <2> QED  BY <1>1, <1>3, <2>2, VenueStep DEF Inv
  <1>7. CASE ~InsurerContradictedBy(w, Evidence(relied', held'))
    <2>1. word' = w /\ deal' = RenewalChecked(deal, w, Evidence(relied', held'))
      BY <1>2, <1>7
    <2>2. WordInv'
      BY <1>1, <1>4, <1>5, <2>1, VenueStep DEF WordInv
    <2>3. /\ deal' = deal \/ deal' \in Commitment
          /\ deal'.status # "none" /\ (~deal'.conditional \/ deal'.satisfied) /\ Insurer \in honest
                => Assured
      BY <1>4, <2>1, RenewalAssures DEF Inv, DealInv
    <2>4. DealInv'
      BY <1>1, <2>3, VenueStep DEF Inv, DealInv, world
    <2> QED  BY <1>1, <1>3, <2>2, <2>4, VenueStep DEF Inv
  <1> QED  BY <1>6, <1>7

LEMMA CommitKeeps == Inv /\ Commit => Inv'
  <1> SUFFICES ASSUME Inv, Commit PROVE Inv'
    OBVIOUS
  <1>1. UNCHANGED world /\ word' = word /\ word # NoAnswer
        /\ deal' = [status |-> "active", conditional |-> ~ReachesDelivery(word), satisfied |-> FALSE]
    BY DEF Commit
  <1>2. PICK h \in Refreshed(0) : Rely(h)
    BY DEF Commit
  <1>3. HeldInv'
    BY <1>1, <1>2, Relies DEF Inv
  <1>4. WordInv'
    BY <1>1, VenueStep DEF Inv, WordInv, NoAnswer, Never
  <1>5. deal' \in Commitment
    BY <1>1 DEF Commitment
  <1>6. ~deal'.conditional \/ deal'.satisfied => CoverageAssuredThrough(word) >= Delivery
    BY <1>1 DEF ReachesDelivery
  <1>7. Insurer \in honest /\ (~deal'.conditional \/ deal'.satisfied) => Assured
    BY <1>1, <1>6, Promise DEF Inv, WordInv
  <1>8. DealInv'
    BY <1>1, <1>5, <1>7, VenueStep DEF DealInv, world
  <1> QED  BY <1>1, <1>3, <1>4, <1>8, VenueStep DEF Inv

\* A commitment that is voided, or checked against the word on file
LEMMA CheckKeeps ==
    ASSUME Inv, UNCHANGED world, word' = word, NEW evidence,
           LET d == RenewalChecked(deal, word, evidence)
           IN  deal' = d \/ (deal' = [d EXCEPT !.status = "voided"] /\ d.status = "active")
    PROVE  WordInv' /\ DealInv'
  <1> DEFINE d == RenewalChecked(deal, word, evidence)
  <1>1. /\ d = deal \/ d \in Commitment
        /\ d.status # "none" /\ (~d.conditional \/ d.satisfied) /\ Insurer \in honest => Assured
    BY RenewalAssures DEF Inv, DealInv, WordInv
  <1>2. deal' = d \/ (deal' = [d EXCEPT !.status = "voided"] /\ d.status = "active")
    OBVIOUS
  <1>3. deal.status = "none" \/ deal \in Commitment
    BY DEF Inv, DealInv
  <1> HIDE DEF d
  <1>4. WordInv'
    BY VenueStep DEF Inv, WordInv, NoAnswer, Never
  <1>5. CASE deal' = d
    <2> QED  BY <1>1, <1>3, <1>4, <1>5, VenueStep DEF DealInv, world
  <1>6. CASE deal' = [d EXCEPT !.status = "voided"] /\ d.status = "active"
    <2>1. d \in Commitment
      BY <1>1, <1>3, <1>6
    <2>2. /\ deal' \in Commitment /\ deal'.conditional = d.conditional
          /\ deal'.satisfied = d.satisfied
      BY <1>6, <2>1 DEF Commitment
    <2> QED  BY <1>1, <1>4, <1>6, <2>2, VenueStep DEF DealInv, world
  <1> QED  BY <1>2, <1>5, <1>6

LEMMA PrePickupCheckKeeps == Inv /\ PrePickupCheck => Inv'
  <1> SUFFICES ASSUME Inv, PrePickupCheck PROVE Inv'
    OBVIOUS
  <1>1. UNCHANGED world /\ word' = word
    BY DEF PrePickupCheck
  <1>2. PICK h \in Refreshed(MaxAge) : Rely(h)
    BY DEF PrePickupCheck
  <1>3. HeldInv'
    BY <1>1, <1>2, Relies DEF Inv
  <1>4. LET d == RenewalChecked(deal, word, Evidence(relied', held'))
        IN  deal' = d \/ (deal' = [d EXCEPT !.status = "voided"] /\ d.status = "active")
    BY DEF PrePickupCheck
  <1>5. WordInv' /\ DealInv'
    BY <1>1, <1>4, CheckKeeps
  <1> QED  BY <1>1, <1>3, <1>5, VenueStep DEF Inv

LEMMA RenewalCheckKeeps == Inv /\ RenewalCheck => Inv'
  <1> SUFFICES ASSUME Inv, RenewalCheck PROVE Inv'
    OBVIOUS
  <1>1. UNCHANGED world /\ word' = word /\ held' = held /\ relied' = relied
        /\ deal' = RenewalChecked(deal, word, Evidence(relied, held))
    BY DEF RenewalCheck
  <1>2. HeldInv'
    BY <1>1 DEF Inv, HeldInv, Held, world, NoAnswer, Never
  <1>3. WordInv' /\ DealInv'
    BY <1>1, CheckKeeps
  <1> QED  BY <1>1, <1>2, <1>3, VenueStep DEF Inv

LEMMA PickUpKeeps == Inv /\ PickUp => Inv'
  <1> SUFFICES ASSUME Inv, PickUp PROVE Inv'
    OBVIOUS
  <1>1. UNCHANGED world /\ word' = word /\ held' = held /\ relied' = relied
        /\ deal.status = "active" /\ deal' = [deal EXCEPT !.status = "in transit"]
    BY DEF PickUp
  <1>2. HeldInv' /\ WordInv'
    BY <1>1, VenueStep DEF Inv, HeldInv, Held, WordInv, world, NoAnswer, Never
  <1>3. deal \in Commitment
    BY <1>1 DEF Inv, DealInv
  <1>4. /\ deal' \in Commitment /\ deal'.conditional = deal.conditional
        /\ deal'.satisfied = deal.satisfied
    BY <1>1, <1>3 DEF Commitment
  <1>5. DealInv'
    BY <1>1, <1>4, VenueStep DEF Inv, DealInv, world
  <1> QED  BY <1>1, <1>2, <1>5, VenueStep DEF Inv

LEMMA InvNext == Inv /\ [Next]_vars => Inv'
  <1> SUFFICES ASSUME Inv, [Next]_vars PROVE Inv'
    OBVIOUS
  <1>1. CASE Tick
    BY <1>1, TickKeeps
  <1>2. CASE File
    BY <1>2, FileKeeps
  <1>3. CASE Receive
    BY <1>3, ReceiveKeeps
  <1>4. CASE Unreachable
    BY <1>4, UnreachableKeeps
  <1>5. CASE Present
    BY <1>5, PresentKeeps
  <1>6. CASE Commit
    BY <1>6, CommitKeeps
  <1>7. CASE PrePickupCheck
    BY <1>7, PrePickupCheckKeeps
  <1>8. CASE RenewalCheck
    BY <1>8, RenewalCheckKeeps
  <1>9. CASE PickUp
    BY <1>9, PickUpKeeps
  <1>10. CASE UNCHANGED vars
    <2>1. UNCHANGED world /\ UNCHANGED venue
      BY <1>10 DEF vars
    <2>2. HeldInv'
      BY <2>1 DEF Inv, HeldInv, Held, world, venue, NoAnswer, Never
    <2>3. WordInv' /\ DealInv'
      BY <2>1, VenueStep DEF Inv, WordInv, DealInv, world, venue, NoAnswer, Never
    <2> QED  BY <2>1, <2>2, <2>3, VenueStep DEF Inv
  <1> QED  BY <1>1, <1>2, <1>3, <1>4, <1>5, <1>6, <1>7, <1>8, <1>9, <1>10 DEF Next

LEMMA InvAlways == Spec => []Inv
  BY InvInit, InvNext, PTL DEF Spec

----------------------------------------------------------------------------
(* The theorems                                                            *)

\* A copy that came after the registry received a filing shows it
LEMMA HonestShows ==
    ASSUME FilingsFail = FALSE, WorldInv, NEW m \in honest, NEW a, Held(m, a),
           received <= a.sync
    PROVE  Record(a).effective = filed.effective
  <1>1. a.copied = a.sync /\ a.filings = TRUE /\ a.copied \in Nat
    BY DEF Held, Attestation
  <1>2. ~(a.copied < received)
    BY <1>1 DEF WorldInv, Never
  <1> QED  BY <1>1, <1>2 DEF Record

\* Where every mirror has the registry's table of filings, no honest party is ever
\* convicted: not a mirror that lags behind the others, nor an insurer that files a
\* cancellation after it has signed (contradictedBy, insurerContradictedBy)
THEOREM InnocentNeverConvicted ==
    ASSUME FilingsFail = FALSE
    PROVE  Spec => []HonestNeverAccused
  <1>1. Inv => HonestNeverAccused
    <2> SUFFICES ASSUME Inv PROVE HonestNeverAccused
      OBVIOUS
    <2>1. ASSUME NEW e \in Evidence(relied, held)
          PROVE  /\ filed # NotFiled /\ received \in Nat /\ received <= now
                 /\ e.filed = filed.filed /\ e.effective = filed.effective
                 /\ e.received = Day(received)
      <3>1. \A m \in relied : Held(m, held[m])
        BY DEF Inv, HeldInv
      <3> QED  BY <3>1, ShownIsFiled DEF Inv
    <2>2. ASSUME NEW m \in relied \cap honest, NEW e \in Evidence(relied, held),
                 e.received < Day(held[m].sync), Record(held[m]).effective > e.effective
          PROVE  FALSE
      <3>1. Held(m, held[m])
        BY DEF Inv, HeldInv
      <3>2. held[m].sync \in Nat /\ received \in Nat /\ filed # NotFiled
        BY <2>1, <3>1 DEF Held, Attestation
      <3>3. Day(held[m].sync) \in Nat /\ Day(received) \in Nat
        BY <3>2, DayBounds
      <3>4. received <= held[m].sync
        <4>1. CASE held[m].sync < received
          <5>1. Day(held[m].sync) <= Day(received)
            BY <3>2, <4>1, DayMonotonic
          <5> QED  BY <2>1, <2>2, <3>3, <5>1
        <4> QED  BY <3>2, <4>1
      <3>5. Record(held[m]).effective = filed.effective
        BY <3>1, <3>4, HonestShows DEF Inv
      <3>6. filed.effective \in Nat
        BY <3>2 DEF Inv, WorldInv
      <3> QED  BY <2>1, <2>2, <3>5, <3>6
    <2>3. ASSUME Insurer \in honest, word # NoAnswer, NEW e \in Evidence(relied, held),
                 e.filed < Day(word.asOf), word.effective > e.effective
          PROVE  FALSE
      <3>1. Genuine(word)
        BY <2>3 DEF Inv, WordInv
      <3>2. filed.filed \in Nat /\ filed.effective \in Nat
        BY <2>1 DEF Inv, WorldInv
      <3>3. Day(word.asOf) \in Nat
        BY <3>1, DayBounds DEF Genuine, InsurerWord
      <3> QED  BY <2>1, <2>3, <3>1, <3>2, <3>3 DEF Genuine
    <2>4. \A m \in relied \cap honest : ~ContradictedBy(m, held[m], Evidence(relied, held))
      BY <2>2 DEF ContradictedBy
    <2>5. Insurer \in honest => ~WordFalse(Evidence(relied, held))
      BY <2>3 DEF WordFalse, InsurerContradictedBy
    <2> QED  BY <2>4, <2>5 DEF HonestNeverAccused
  <1> QED  BY <1>1, InvAlways, PTL

\* For any notice and any dates: a load that moves on the word of an honest insurer
\* is covered up to the day of delivery, whatever it files after it has signed
THEOREM CoverHolds == Spec => []CoveredInTransit
  <1>1. Inv => CoveredInTransit
    <2> SUFFICES ASSUME Inv, deal.status = "in transit", ~deal.conditional \/ deal.satisfied,
                        Insurer \in honest
                 PROVE  Day(Delivery) <= filed.effective
      BY DEF CoveredInTransit
    <2>1. Assured
      BY DEF Inv, DealInv
    <2>2. CASE filed = NotFiled
      <3>1. filed.effective = Never
        BY <2>2 DEF NotFiled
      <3> QED  BY <2>1, <2>2, <3>1 DEF Assured
    <2>3. CASE filed # NotFiled
      BY <2>1, <2>3 DEF Assured
    <2> QED  BY <2>2, <2>3
  <1> QED  BY <1>1, InvAlways, PTL

\* A live check that relies on an honest mirror that has synced since fails
LEMMA HonestBlocks ==
    ASSUME FilingsFail = FALSE, WorldInv, NEW on, NEW h, NEW m \in on, m \in honest,
           Held(m, h[m]), received <= h[m].sync, Delivery >= Midnight(filed.effective)
    PROVE  ~LiveCheck(on, h, Delivery)
  <1>1. Record(h[m]).effective = filed.effective
    BY HonestShows
  <1>2. Midnight(filed.effective) \in Nat
    <2>1. filed.effective \in Nat
      BY Never1 DEF WorldInv, NotFiled
    <2> QED  BY <2>1 DEF Midnight
  <1>3. ~FilingActive(Record(h[m]), Delivery)
    BY <1>1, <1>2 DEF FilingActive
  <1> QED  BY <1>3 DEF LiveCheck, Standing

\* One honest mirror is enough, however many lie: what the registry had received by
\* the oldest sync the policy allows blocks a commitment, and voids one at its check
THEOREM NewsAlwaysBlocks ==
    ASSUME FilingsFail = FALSE
    PROVE  Spec => NewsBlocks
  <1> DEFINE oldest == now - (IF deal.status = "none" THEN 0 ELSE MaxAge)
             Step == /\ deal'.status = "active" /\ relied' \cap honest # {} /\ now <= Pickup
                     /\ received < oldest /\ Delivery >= Midnight(filed.effective)
                     => ~Commit /\ ~PrePickupCheck
  <1>1. Inv /\ [Next]_vars => [Step]_vars
    <2> SUFFICES ASSUME Inv, deal'.status = "active", relied' \cap honest # {}, now <= Pickup,
                        received < oldest, Delivery >= Midnight(filed.effective)
                 PROVE  ~Commit /\ ~PrePickupCheck
      OBVIOUS
    <2>1. now \in Nat /\ received \in Nat
      BY Never1 DEF Inv, WorldInv
    <2>2. ASSUME NEW maxAge \in Nat, NEW h \in Refreshed(maxAge), Rely(h), UNCHANGED world,
                 oldest <= now - maxAge
          PROVE  ~LiveCheck(relied', held', Delivery)
      <3>1. PICK m \in relied' : m \in honest
        OBVIOUS
      <3>2. HeldInv' /\ now <= held'[m].sync + maxAge
        BY <2>2, Relies DEF Inv
      <3>3. Held(m, held[m])'
        BY <3>2 DEF HeldInv
      <3>4. Held(m, held'[m])
        BY <2>2, <3>3 DEF Held, world
      <3>5. held'[m].sync \in Nat
        BY <3>4 DEF Held, Attestation
      <3>6. received <= held'[m].sync
        <4>1. received < now - maxAge
          <5>1. oldest \in Int
            BY <2>1
          <5> HIDE DEF oldest
          <5> QED  BY <2>1, <2>2, <5>1
        <4> QED  BY <2>1, <3>2, <3>5, <4>1
      <3> HIDE DEF oldest
      <3> QED  BY <3>1, <3>4, <3>6, HonestBlocks DEF Inv
    <2>3. ASSUME Commit PROVE FALSE
      <3>1. PICK h \in Refreshed(0) : Rely(h)
        BY <2>3 DEF Commit
      <3>2. UNCHANGED world /\ deal.status = "none" /\ LiveCheck(relied', held', Delivery)
        BY <2>3 DEF Commit
      <3>3. oldest <= now - 0
        BY <2>1, <3>2
      <3> QED  BY <2>2, <3>1, <3>2, <3>3
    <2>4. ASSUME PrePickupCheck PROVE FALSE
      <3>1. PICK h \in Refreshed(MaxAge) : Rely(h)
        BY <2>4 DEF PrePickupCheck
      <3>2. UNCHANGED world /\ deal.status = "active"
        BY <2>4 DEF PrePickupCheck
      <3>3. oldest <= now - MaxAge
        BY <2>1, <3>2
      <3>4. ~LiveCheck(relied', held', Delivery)
        BY <2>2, <3>1, <3>2, <3>3
      <3> DEFINE d == RenewalChecked(deal, word, Evidence(relied', held'))
      <3>5. deal' = IF d.status = "active" THEN [d EXCEPT !.status = "voided"] ELSE d
        BY <2>4, <3>4 DEF PrePickupCheck
      <3>6. d \in Commitment
        <4>1. deal \in Commitment
          BY <3>2 DEF Inv, DealInv
        <4> QED  BY <4>1, RenewalAssures DEF Inv, DealInv, WordInv
      <3> HIDE DEF d
      <3>7. deal'.status # "active"
        BY <3>5, <3>6 DEF Commitment
      <3> QED  BY <3>7
    <2> QED  BY <2>3, <2>4
  <1>2. Spec => [][Step]_vars
    BY <1>1, InvAlways, PTL DEF Spec
  <1> QED  BY <1>2 DEF NewsBlocks

----------------------------------------------------------------------------
(* The artifact                                                            *)

\* What the artifact is made of was held, and signed, when it was made
MadeInv ==
    artifact # NoArtifact =>
        /\ \A m \in artifact.registries : m \in Mirrors /\ Held(m, artifact.attestations[m])
        /\ artifact.word # NoAnswer /\ Genuine(artifact.word)

RenewalInv == renewal # NoAnswer => Genuine(renewal)

\* What a mirror has said and an insurer has signed stays said
LEMMA Outside ==
    ASSUME Inv, [Next]_vars
    PROVE  Tick \/ File \/ Receive \/ UNCHANGED world
  <1>1. CASE UNCHANGED vars
    BY <1>1 DEF vars
  <1>2. CASE Next
    BY <1>2 DEF Next, Unreachable, Present, Commit, PrePickupCheck, RenewalCheck, PickUp
  <1> QED  BY <1>1, <1>2

LEMMA HeldStays ==
    ASSUME Inv, [Next]_vars
    PROVE  \A m, a : Held(m, a) => Held(m, a)'
  <1>1. honest' = honest /\ now \in Nat /\ (now' = now \/ now' = now + 1)
    BY Outside DEF Tick, File, Receive, world, Inv, WorldInv
  <1>2. ASSUME NEW m, NEW a, Held(m, a)
        PROVE  a.copied <= now' /\ a.sync <= now'
    BY <1>1, <1>2 DEF Held, Attestation
  <1> QED  BY <1>1, <1>2 DEF Held

LEMMA GenuineStays ==
    ASSUME Inv, [Next]_vars
    PROVE  \A w : Genuine(w) => Genuine(w)'
  <1>1. CASE UNCHANGED world
    BY <1>1, VenueStep
  <1>2. CASE Tick
    <2>1. UNCHANGED <<honest, filed>> /\ now \in Nat /\ now' = now + 1
      BY <1>2 DEF Tick, Inv, WorldInv
    <2>2. ASSUME NEW w, Genuine(w) PROVE w.asOf <= now'
      BY <2>1, <2>2 DEF Genuine, InsurerWord
    <2> QED  BY <2>1, <2>2 DEF Genuine, NotFiled, Never, Day
  <1>3. CASE File
    <2>1. UNCHANGED <<now, honest>> /\ filed = NotFiled /\ now \in Nat
      BY <1>3 DEF File, Inv, WorldInv
    <2>2. filed' # NotFiled /\ filed'.filed = Day(now)
      <3>1. PICK ahead \in NoticeDays .. NoticeDays + 1 :
               filed' = [filed |-> Day(now), effective |-> Day(now) + ahead]
        BY <1>3 DEF File
      <3>2. filed'.filed = Day(now) /\ Day(now) <= now /\ Day(now) \in Nat
        BY <2>1, <3>1, DayBounds DEF Day
      <3>3. NotFiled.filed = Never /\ Day(now) < Never
        BY <2>1, <3>2 DEF NotFiled, Never, Inv, WorldInv
      <3>4. filed'.filed # NotFiled.filed
        BY <3>2, <3>3 DEF Never
      <3> QED  BY <3>2, <3>4
    <2>3. ASSUME NEW w, Genuine(w)
          PROVE  w.effective = Never /\ Day(w.asOf) <= filed'.filed
      <3>1. w.asOf \in Nat /\ w.asOf <= now
        BY <2>3 DEF Genuine, InsurerWord
      <3>2. Day(w.asOf) <= Day(now)
        BY <2>1, <3>1, DayMonotonic
      <3> QED  BY <2>1, <2>2, <2>3, <3>2 DEF Genuine
    <2> QED  BY <2>1, <2>2, <2>3 DEF Genuine, NotFiled, Never, Day
  <1>4. CASE Receive
    BY <1>4 DEF Receive, Genuine, NotFiled, Never, Day
  <1> QED  BY <1>1, <1>2, <1>3, <1>4, Outside

\* A step here is one of Registry's, or changes nothing there
LEMMA ArtifactStep == [ANext]_avars => [Next]_vars
  BY DEF ANext, avars, Time, News, Word, Make, Recording, Lodge, Acknowledge, Read, Cosign,
         Verify, Next

LEMMA MadeInit == AInit => Inv /\ MadeInv /\ RenewalInv
  BY InvInit DEF AInit, MadeInv, RenewalInv

LEMMA MadeNext ==
    ASSUME Inv, MadeInv, RenewalInv, [ANext]_avars
    PROVE  Inv' /\ MadeInv' /\ RenewalInv'
  <1>1. [Next]_vars /\ Inv'
    BY ArtifactStep, InvNext
  <1>2. NoArtifact' = NoArtifact /\ NoAnswer' = NoAnswer
    BY DEF NoArtifact, NoAnswer, Never
  <1>3. CASE artifact' = artifact /\ renewal' = renewal
    <2>1. MadeInv'
      BY <1>1, <1>2, <1>3, HeldStays, GenuineStays DEF MadeInv
    <2>2. RenewalInv'
      BY <1>1, <1>2, <1>3, GenuineStays DEF RenewalInv
    <2> QED  BY <1>1, <2>1, <2>2
  <1>4. CASE Word
    <2>1. artifact' = artifact /\ (renewal' = renewal \/ renewal' = word')
      BY <1>4 DEF Word
    <2>2. MadeInv'
      BY <1>1, <1>2, <2>1, HeldStays, GenuineStays DEF MadeInv
    <2>3. RenewalInv'
      BY <1>1, <1>2, <2>1, GenuineStays DEF RenewalInv, Inv, WordInv
    <2> QED  BY <1>1, <2>2, <2>3
  <1>5. CASE Make
    <2>1. /\ artifact' = [at |-> now, registries |-> relied', attestations |-> held', word |-> word]
          /\ renewal' = renewal /\ word' = word /\ word # NoAnswer
      BY <1>5 DEF Make, Commit
    <2>2. HeldInv' /\ WordInv'
      BY <1>1 DEF Inv
    <2>3. \A m \in artifact'.registries : m \in Mirrors /\ Held(m, artifact.attestations[m])'
      BY <2>1, <2>2 DEF HeldInv
    <2>4. artifact'.word # NoAnswer /\ Genuine(artifact.word)'
      BY <1>2, <2>1, <2>2 DEF WordInv
    <2>5. MadeInv'
      BY <1>2, <2>3, <2>4 DEF MadeInv
    <2>6. RenewalInv'
      BY <1>1, <1>2, <2>1, GenuineStays DEF RenewalInv
    <2> QED  BY <1>1, <2>5, <2>6
  <1> QED
    BY <1>3, <1>4, <1>5
    DEF ANext, avars, Time, News, Recording, Lodge, Acknowledge, Read, Cosign, Verify

----------------------------------------------------------------------------
(* What fails, and the verdict                                             *)

\* A verdict of one of these reasons is about the check it is named for
LEMMA VerdictMeans ==
    ASSUME NEW failed
    PROVE  /\ VerdictFor(failed) = "fine" => failed = {}
           /\ VerdictFor(failed) = "REGISTRY_FALSE_ATTESTATION"
                 => "registry.true-when-signed" \in failed
           /\ VerdictFor(failed) = "INSURER_FALSE_ATTESTATION"
                 => "insurer.true-when-signed" \in failed
           /\ "registry.true-when-signed" \in failed /\ failed \subseteq AnyCheck
                 => VerdictFor(failed) = "REGISTRY_FALSE_ATTESTATION"
  <1> DEFINE applies(i) == failed \cap VerdictOrder[i][2] # {} /\ failed \subseteq VerdictOrder[i][3]
             first == {i \in 1 .. 14 : applies(i) /\ \A j \in 1 .. i - 1 : ~applies(j)}
  <1>1. Len(VerdictOrder) = 14
    BY DEF VerdictOrder
  <1>2. VerdictFor(failed) = IF failed = {} THEN "fine"
                             ELSE IF first = {} THEN "CREDENTIAL_ISSUER_INVALID"
                             ELSE VerdictOrder[CHOOSE i \in first : TRUE][1]
    BY <1>1 DEF VerdictFor
  <1>3. /\ VerdictOrder[1][3] = {"no-pending-notices"} \cup WitnessKind
        /\ VerdictOrder[2] = <<"REGISTRY_FALSE_ATTESTATION", {"registry.true-when-signed"}, AnyCheck>>
        /\ VerdictOrder[3] = <<"INSURER_FALSE_ATTESTATION", {"insurer.true-when-signed"}, AnyCheck>>
    BY DEF VerdictOrder
  <1>4. ASSUME NEW i \in 1 .. 14
        PROVE  /\ VerdictOrder[i][1] # "fine"
               /\ VerdictOrder[i][1] = "REGISTRY_FALSE_ATTESTATION" => i = 2
               /\ VerdictOrder[i][1] = "INSURER_FALSE_ATTESTATION" => i = 3
    BY DEF VerdictOrder
  <1> DEFINE i0 == CHOOSE i \in first : TRUE
  <1>5. first # {} => i0 \in first /\ i0 \in 1 .. 14 /\ applies(i0)
    OBVIOUS
  <1>6. VerdictFor(failed) = "fine" => failed = {}
    BY <1>2, <1>4, <1>5, SMTT(60)
  <1>7. VerdictFor(failed) = "REGISTRY_FALSE_ATTESTATION" => applies(2)
    BY <1>2, <1>4, <1>5, SMTT(60)
  <1>8. VerdictFor(failed) = "INSURER_FALSE_ATTESTATION" => applies(3)
    BY <1>2, <1>4, <1>5
  <1>9. ASSUME "registry.true-when-signed" \in failed, failed \subseteq AnyCheck
        PROVE  VerdictFor(failed) = "REGISTRY_FALSE_ATTESTATION"
    <2>1. ~applies(1)
      BY <1>3, <1>9 DEF WitnessKind
    <2>2. applies(2)
      BY <1>3, <1>9
    <2> HIDE DEF applies
    <2>3. 2 \in first
      BY <2>1, <2>2
    <2>4. \A i \in first : i = 2
      BY <2>1, <2>2
    <2>5. i0 = 2 /\ first # {} /\ failed # {}
      BY <1>9, <2>3, <2>4
    <2> HIDE DEF first
    <2>6. VerdictFor(failed) = VerdictOrder[2][1]
      BY <1>2, <2>5
    <2> QED  BY <1>3, <2>6
  <1> QED  BY <1>3, <1>6, <1>7, <1>8, <1>9

LEMMA TodayHeld ==
    ASSUME Inv, NEW today \in Today
    PROVE  \A m \in Reached(today) : m \in Mirrors /\ Held(m, today[m])
  <1> DEFINE nobody == [m \in Mirrors |-> NoAnswer]
  <1>1. CASE today = nobody
    BY <1>1 DEF Reached
  <1>2. CASE today # nobody
    <2>0. PICK n \in Mirrors : \E a \in Attested(n) : today = [nobody EXCEPT ![n] = a]
      BY <1>2 DEF Today
    <2>1. PICK a \in Attested(n) : today = [nobody EXCEPT ![n] = a]
      BY <2>0
    <2>2. \A m \in Mirrors : m # n => today[m] = NoAnswer
      BY <2>1
    <2>3. today[n] = a
      BY <2>1
    <2>4. Held(n, a)
      BY AttestedHeld DEF Inv
    <2> QED  BY <2>2, <2>3, <2>4 DEF Reached
  <1> QED  BY <1>1, <1>2

\* What the mirrors' words show, in the artifact and today, is the filing there is
LEMMA ShownFiled ==
    ASSUME Inv, MadeInv, artifact # NoArtifact, NEW today \in Today, NEW e \in Shown(today)
    PROVE  /\ filed # NotFiled /\ received \in Nat /\ received <= now
           /\ e.filed = filed.filed /\ e.effective = filed.effective
           /\ e.received = Day(received)
  <1>1. CASE e \in Evidence(Embedded, artifact.attestations)
    <2>1. \A m \in Embedded : Held(m, artifact.attestations[m])
      BY DEF MadeInv, Embedded
    <2> QED  BY <1>1, <2>1, ShownIsFiled DEF Inv
  <1>2. CASE e \in Evidence(Reached(today), today)
    BY <1>2, TodayHeld, ShownIsFiled DEF Inv
  <1> QED  BY <1>1, <1>2 DEF Shown

\* What an insurer's word shows is that filing too
LEMMA WordShows ==
    ASSUME NEW w, w # NoAnswer => Genuine(w), NEW e \in FilingShownByInsurer(w)
    PROVE  /\ filed # NotFiled /\ e.filed = filed.filed /\ e.effective = filed.effective
           /\ e.received = filed.filed
  <1>1. w # NoAnswer /\ w.effective # Never
    BY DEF FilingShownByInsurer
  <1>2. e = [source |-> Insurer, asOf |-> w.asOf, filed |-> w.filed,
             effective |-> w.effective, received |-> w.filed]
    BY <1>1 DEF FilingShownByInsurer
  <1> QED  BY <1>1, <1>2 DEF Genuine

LEMMA FilingsFiled ==
    ASSUME Inv, MadeInv, RenewalInv, artifact # NoArtifact, NEW today \in Today,
           NEW wordToday \in Signed \cup {NoAnswer}, NEW e \in Filings(today, wordToday)
    PROVE  /\ filed # NotFiled /\ e.effective = filed.effective
           /\ \/ received \in Nat /\ received <= now /\ e.received = Day(received)
              \/ e.received = filed.filed
  <1>1. wordToday # NoAnswer => Genuine(wordToday)
    BY SignedNow DEF Inv
  <1>2. \/ e \in Shown(today) \/ e \in FilingShownByInsurer(wordToday)
        \/ e \in FilingShownByInsurer(artifact.word) \/ e \in FilingShownByInsurer(renewal)
    BY DEF Filings
  <1>3. CASE e \in Shown(today)
    BY <1>3, ShownFiled
  <1>4. CASE e \in FilingShownByInsurer(wordToday)
    BY <1>1, <1>4, WordShows
  <1>5. CASE e \in FilingShownByInsurer(artifact.word)
    BY <1>5, WordShows DEF MadeInv
  <1>6. CASE e \in FilingShownByInsurer(renewal)
    BY <1>6, WordShows DEF RenewalInv
  <1> QED  BY <1>2, <1>3, <1>4, <1>5, <1>6

LEMMA AssuredCovers ==
    ASSUME Assured
    PROVE  Day(Delivery) <= filed.effective
  <1>1. CASE filed = NotFiled
    <2>1. filed.effective = Never
      BY <1>1 DEF NotFiled
    <2> QED  BY <1>1, <2>1 DEF Assured
  <1>2. CASE filed # NotFiled
    BY <1>2 DEF Assured
  <1> QED  BY <1>1, <1>2

\* An honest insurer whose word passes all checks has promised to cover the delivery
LEMMA NothingFailed ==
    ASSUME Inv, MadeInv, RenewalInv, artifact # NoArtifact, Insurer \in honest,
           NEW today, NEW wordToday, InsurerChecks(today, wordToday) = {}
    PROVE  Assured
  <1>1. ~WordLies(today)
    BY DEF InsurerChecks
  <1>2. ReachesDelivery(artifact.word) \/ Renewed = {}
    BY <1>1 DEF InsurerChecks
  <1>3. CASE ReachesDelivery(artifact.word)
    BY <1>3, Promise DEF ReachesDelivery, MadeInv, Inv
  <1>4. CASE Renewed = {}
    <2>1. renewal # NoAnswer /\ SatisfiesRenewal(renewal)
      BY <1>4 DEF Renewed
    <2> QED  BY <2>1, Promise DEF SatisfiesRenewal, RenewalInv, Inv
  <1> QED  BY <1>2, <1>3, <1>4

\* An honest insurer's word is contradicted by nothing that was filed
LEMMA HonestInsurer ==
    ASSUME Inv, MadeInv, artifact # NoArtifact, Insurer \in honest, NEW today \in Today
    PROVE  ~WordLies(today)
  <1> SUFFICES ASSUME NEW e \in Shown(today), e.filed < Day(artifact.word.asOf),
                      artifact.word.effective > e.effective
               PROVE  FALSE
    BY DEF WordLies, InsurerContradictedBy
  <1>1. filed # NotFiled /\ e.filed = filed.filed /\ e.effective = filed.effective
    BY ShownFiled
  <1>2. Genuine(artifact.word)
    BY DEF MadeInv
  <1>3. filed.filed \in Nat /\ filed.effective \in Nat
    BY <1>1 DEF Inv, WorldInv
  <1>4. Day(artifact.word.asOf) \in Nat
    BY <1>2, DayBounds DEF Genuine, InsurerWord
  <1> QED  BY <1>1, <1>2, <1>3, <1>4 DEF Genuine

\* An honest mirror is contradicted only if the registry has lagged behind the filing
LEMMA HonestMirror ==
    ASSUME FilingsFail = FALSE, Inv, MadeInv, RenewalInv, artifact # NoArtifact,
           NEW today \in Today, NEW wordToday \in Signed \cup {NoAnswer},
           NEW m \in Embedded, m \in honest,
           ContradictedBy(m, artifact.attestations[m], Filings(today, wordToday))
    PROVE  filed.filed < Day(received)
  <1> DEFINE a == artifact.attestations[m]
  <1>1. PICK e \in Filings(today, wordToday) :
           e.received < Day(a.sync) /\ Record(a).effective > e.effective
    BY DEF ContradictedBy
  <1>2. Held(m, a)
    BY DEF MadeInv, Embedded
  <1>3. a.sync \in Nat /\ a.sync <= now /\ now \in Nat /\ now <= MaxTime
    BY <1>2 DEF Held, Attestation, Inv, WorldInv
  <1> HIDE DEF a
  <1>4. /\ filed # NotFiled /\ e.effective = filed.effective
        /\ \/ received \in Nat /\ e.received = Day(received)
           \/ e.received = filed.filed
    BY FilingsFiled
  <1>5. filed.filed \in Nat /\ filed.effective \in Nat /\ received \in Nat
    BY <1>4, Never1 DEF Inv, WorldInv
  <1>6. CASE received <= a.sync
    <2>1. Record(a).effective = filed.effective
      BY <1>2, <1>6, HonestShows DEF Inv
    <2> QED  BY <1>1, <1>4, <1>5, <2>1
  <1>7. CASE ~(received <= a.sync)
    <2>1. Day(a.sync) <= Day(received) /\ Day(a.sync) \in Nat /\ Day(received) \in Nat
      BY <1>3, <1>5, <1>7, DayMonotonic, DayBounds
    <2> QED  BY <1>1, <1>4, <1>5, <2>1
  <1> QED  BY <1>6, <1>7

\* A filing on its way is in the past of Never, and takes effect before it
LEMMA FiledBeforeNever ==
    ASSUME WorldInv, Day(MaxTime) + NoticeDays + 1 < Never, filed # NotFiled
    PROVE  filed.effective \in Nat /\ filed.effective < Never
  <1>1. /\ filed.filed \in Nat /\ filed.effective \in Nat /\ filed.filed <= Day(now)
        /\ filed.effective <= filed.filed + NoticeDays + 1
    BY DEF WorldInv
  <1>2. Day(now) <= Day(MaxTime) /\ Day(now) \in Nat /\ Day(MaxTime) \in Nat
    BY DayMonotonic, DayBounds DEF WorldInv
  <1> QED  BY <1>1, <1>2 DEF Never

\* A mirror whose claim in the artifact an honest word today belies is contradicted
LEMMA LieShown ==
    ASSUME FilingsFail = FALSE, Day(MaxTime) + NoticeDays + 1 < Never,
           Inv, MadeInv, artifact # NoArtifact,
           NEW today \in Today, NEW wordToday, NEW n \in Reached(today), n \in honest,
           Record(today[n]).effective # Never,
           NEW m \in Embedded, Record(artifact.attestations[m]).effective = Never,
           Day(received) < Day(artifact.attestations[m].sync)
    PROVE  ContradictedBy(m, artifact.attestations[m], Filings(today, wordToday))
  <1> DEFINE a == artifact.attestations[m]
             b == today[n]
             e == [source |-> n, asOf |-> b.sync, filed |-> Record(b).filed,
                   effective |-> Record(b).effective, received |-> Record(b).received]
  <1>1. e \in FilingsShownBy(n, b)
    BY DEF FilingsShownBy
  <1>2. e \in Shown(today)
    BY <1>1 DEF Shown, Evidence
  <1>3. e \in Filings(today, wordToday)
    BY <1>2 DEF Filings
  <1>4. Held(m, a) /\ Held(n, b)
    BY TodayHeld DEF MadeInv, Embedded
  <1>5. /\ filed # NotFiled /\ e.effective = filed.effective /\ e.received = Day(received)
    BY <1>2, ShownFiled
  <1>6. filed.effective \in Nat /\ filed.effective < Never
    BY <1>5, FiledBeforeNever DEF Inv
  <1>7. e.received < Day(a.sync) /\ Record(a).effective > e.effective
    BY <1>5, <1>6 DEF Never
  <1>8. ~(e.source = m /\ e.asOf = a.sync)
    <2> SUFFICES ASSUME n = m, b.sync = a.sync PROVE FALSE
      OBVIOUS
    <2>1. /\ a.copied = a.sync /\ b.copied = b.sync /\ a.filings = TRUE /\ b.filings = TRUE
      BY <1>4 DEF Held
    <2>2. a.copied = b.copied
      BY <2>1
    <2>3. Record(a) = Record(b)
      BY <2>1, <2>2 DEF Record
    <2> QED  BY <2>3
  <1> QED  BY <1>3, <1>7, <1>8 DEF ContradictedBy

\* All checks that fail
Failed(shown, blind, pinned, today, wordToday) ==
    StatusChecks(shown, blind, pinned) \cup RegistryChecks(today)
        \cup InsurerChecks(today, wordToday) \cup Accountability(today, wordToday)

LEMMA ChecksKnown ==
    ASSUME NEW shown, NEW blind, NEW pinned, NEW today, NEW wordToday
    PROVE  Failed(shown, blind, pinned, today, wordToday) \subseteq AnyCheck
  <1>1. Witnessing(shown, blind) \subseteq WitnessKind
    BY DEF Witnessing, WitnessKind
  <1>2. StatusChecks(shown, blind, pinned) \subseteq AnyCheck
    BY <1>1 DEF StatusChecks, AnyCheck
  <1>3. RegistryChecks(today) \subseteq AnyCheck
    BY DEF RegistryChecks, AnyCheck
  <1>4. Renewed \subseteq AnyCheck
    BY DEF Renewed, AnyCheck
  <1>5. InsurerChecks(today, wordToday) \subseteq AnyCheck
    BY <1>4 DEF InsurerChecks, AnyCheck
  <1>6. Accountability(today, wordToday) \subseteq AnyCheck
    BY DEF Accountability, AnyCheck
  <1> QED  BY <1>2, <1>3, <1>5, <1>6 DEF Failed

----------------------------------------------------------------------------
(* The ledger and its witnesses                                            *)

Kinds == {"OTHER", "REVOKED", "SUPERSEDED"}
LedgerEntry == [kind : Kinds, at : Nat, from : Nat]

\* What a witness has cosigned, or read to cosign, is followed only by what was
\* recorded at that time or later, when polls take no time
LedgerInv ==
    /\ ledger \in Seq(LedgerEntry)
    /\ Len(ledger) \in Heads
    /\ polls \in [Faithful -> Heads \cup {NoPoll}]
    /\ receipts \in [Faithful -> [Heads -> Nat]]
    /\ \A w \in Faithful, h \in Heads : receipts[w][h] # Never => receipts[w][h] <= now
    /\ SlowPolls = FALSE =>
          /\ \A w \in Faithful, i \in 1 .. Len(ledger) :
                 polls[w] # NoPoll /\ i > polls[w] => ledger[i].at >= now
          /\ \A w \in Faithful, h \in Heads, i \in 1 .. Len(ledger) :
                 receipts[w][h] # Never /\ i > h => ledger[i].at >= receipts[w][h]

LEMMA LedgerInit == AInit => LedgerInv
  <1> SUFFICES ASSUME AInit PROVE LedgerInv
    OBVIOUS
  <1>1. ledger = <<>> /\ MaxEntries \in Nat
    BY ArtifactAssumption DEF AInit
  <1>2. ledger \in Seq(LedgerEntry) /\ Len(ledger) = 0 /\ Len(ledger) \in Heads
    BY <1>1 DEF Heads
  <1>3. polls \in [Faithful -> Heads \cup {NoPoll}] /\ receipts \in [Faithful -> [Heads -> Nat]]
    BY Never1 DEF AInit
  <1>4. \A w \in Faithful, h \in Heads : receipts[w][h] = Never
    BY DEF AInit
  <1> QED  BY <1>2, <1>3, <1>4 DEF LedgerInv

\* An entry is recorded now, later than all that was cosigned
LEMMA Recorded ==
    ASSUME LedgerInv, WorldInv, NEW e \in LedgerEntry, e.at = now, Write(e),
           UNCHANGED <<now, receipts, polls>>
    PROVE  LedgerInv'
  <1> DEFINE n == Len(ledger)
  <1>1. now \in Nat
    BY DEF WorldInv
  <1>2. n \in Nat /\ n + 1 \in Heads /\ ledger' = Append(ledger, e)
    BY ArtifactAssumption DEF Write, LedgerInv, Heads
  <1>3. /\ ledger' \in Seq(LedgerEntry) /\ Len(ledger') = n + 1 /\ ledger'[n + 1] = e
        /\ \A i \in 1 .. n : ledger'[i] = ledger[i]
    BY <1>1, <1>2 DEF LedgerInv
  <1>4. ASSUME NEW i \in 1 .. Len(ledger')
        PROVE  i \in 1 .. n \/ (i = n + 1 /\ ledger'[i].at = now)
    BY <1>1, <1>2, <1>3
  <1>5. UNCHANGED <<now, receipts, polls, Never, Heads, NoPoll, Faithful>>
    BY DEF Never, Heads, NoPoll, Faithful
  <1>6. ASSUME SlowPolls = FALSE, NEW w \in Faithful, NEW i \in 1 .. Len(ledger'),
               polls[w] # NoPoll, i > polls[w]
        PROVE  ledger'[i].at >= now
    <2>1. CASE i \in 1 .. n
      BY <1>3, <1>6, <2>1 DEF LedgerInv
    <2>2. CASE ledger'[i].at = now
      BY <1>1, <2>2
    <2> QED  BY <1>4, <2>1, <2>2
  <1>7. ASSUME SlowPolls = FALSE, NEW w \in Faithful, NEW h \in Heads,
               NEW i \in 1 .. Len(ledger'), receipts[w][h] # Never, i > h
        PROVE  ledger'[i].at >= receipts[w][h]
    <2>1. receipts[w][h] <= now /\ receipts[w][h] \in Nat
      BY <1>7 DEF LedgerInv
    <2> QED  BY <1>1, <1>3, <1>4, <1>7, <2>1 DEF LedgerInv
  <1> HIDE DEF n
  <1>8. /\ polls' \in [Faithful' -> Heads' \cup {NoPoll'}]
        /\ receipts' \in [Faithful' -> [Heads' -> Nat]]
        /\ Len(ledger') \in Heads'
        /\ \A w \in Faithful', h \in Heads' :
              receipts'[w][h] # Never' => receipts'[w][h] <= now'
    BY <1>2, <1>3, <1>5 DEF LedgerInv
  <1>9. SlowPolls = FALSE =>
           /\ \A w \in Faithful', i \in 1 .. Len(ledger') :
                 polls'[w] # NoPoll' /\ i > polls'[w] => ledger'[i].at >= now'
           /\ \A w \in Faithful', h \in Heads', i \in 1 .. Len(ledger') :
                 receipts'[w][h] # Never' /\ i > h => ledger'[i].at >= receipts'[w][h]
    BY <1>5, <1>6, <1>7
  <1> QED  BY <1>3, <1>8, <1>9 DEF LedgerInv

LEMMA LedgerNext ==
    ASSUME Inv, LedgerInv, [ANext]_avars
    PROVE  LedgerInv'
  <1>0. UNCHANGED <<Never, Heads, NoPoll, Faithful>>
    BY DEF Never, Heads, NoPoll, Faithful
  <1>a. WorldInv /\ now \in Nat
    BY DEF Inv, WorldInv
  <1>1. CASE Time
    <2>1. /\ UNCHANGED chain /\ now' = now + 1 /\ now' \in Nat
          /\ SlowPolls = TRUE \/ \A w \in Faithful : polls[w] = NoPoll
      BY <1>a, <1>1 DEF Time, Tick
    <2>2. UNCHANGED <<ledger, receipts, polls>>
      BY <2>1 DEF chain
    <2>3. ASSUME NEW w \in Faithful, NEW h \in Heads, receipts[w][h] # Never
          PROVE  receipts[w][h] <= now'
      <3>1. receipts[w][h] <= now /\ receipts[w][h] \in Nat
        BY <2>3 DEF LedgerInv
      <3> QED  BY <1>a, <2>1, <3>1
    <2> QED  BY <1>0, <2>1, <2>2, <2>3 DEF LedgerInv
  <1>2. CASE Recording
    <2>1. UNCHANGED <<now, receipts, polls>>
      BY <1>2 DEF Recording, vars, world
    <2>2. \/ Write(Entry("OTHER", Never)) \/ Write(Entry("REVOKED", now))
          \/ \E from \in 0 .. now \cup {Never} : Write(Entry("SUPERSEDED", from))
      BY <1>2 DEF Recording
    <2>3. \E kind \in Kinds, from \in Nat : Write(Entry(kind, from))
      <3>1. CASE Write(Entry("OTHER", Never))
        BY <3>1, Never1 DEF Kinds
      <3>2. CASE Write(Entry("REVOKED", now))
        BY <1>a, <3>2 DEF Kinds
      <3>3. CASE \E from \in 0 .. now \cup {Never} : Write(Entry("SUPERSEDED", from))
        <4>1. PICK from \in 0 .. now \cup {Never} : Write(Entry("SUPERSEDED", from))
          BY <3>3
        <4>2. from \in Nat
          BY <1>a, Never1
        <4> QED  BY <4>1, <4>2 DEF Kinds
      <3> QED  BY <2>2, <3>1, <3>2, <3>3
    <2>4. PICK kind \in Kinds, from \in Nat : Write(Entry(kind, from))
      BY <2>3
    <2>5. \E e : e = Entry(kind, from) /\ Write(e)
      BY <2>4
    <2>6. PICK e : e = Entry(kind, from) /\ Write(e)
      BY <2>5
    <2>7. e \in LedgerEntry /\ e.at = now
      BY <1>a, <2>6 DEF Entry, LedgerEntry
    <2> QED  BY <1>a, <2>1, <2>6, <2>7, Recorded
  <1>3. CASE Acknowledge
    <2>1. UNCHANGED <<now, receipts, polls>> /\ Write(Entry("REVOKED", now))
      BY <1>3 DEF Acknowledge, vars, world
    <2>2. PICK e : e = Entry("REVOKED", now) /\ Write(e)
      BY <2>1
    <2>3. e \in LedgerEntry /\ e.at = now
      BY <1>a, <2>2 DEF Entry, LedgerEntry, Kinds
    <2> QED  BY <1>a, <2>1, <2>2, <2>3, Recorded
  <1>4. ASSUME NEW w \in Faithful, Read(w) PROVE LedgerInv'
    <2>1. /\ UNCHANGED <<now, ledger, receipts>> /\ Len(ledger) \in Heads /\ Len(ledger) \in Nat
          /\ polls' = [polls EXCEPT ![w] = Len(ledger)]
      BY <1>4 DEF Read, vars, world, LedgerInv
    <2>2. \A v \in Faithful : polls'[v] = IF v = w THEN Len(ledger) ELSE polls[v]
      BY <2>1 DEF LedgerInv
    <2>3. polls' \in [Faithful -> Heads \cup {NoPoll}]
      BY <2>1 DEF LedgerInv
    <2>4. ASSUME SlowPolls = FALSE, NEW v \in Faithful, NEW i \in 1 .. Len(ledger),
                 polls'[v] # NoPoll, i > polls'[v]
          PROVE  ledger[i].at >= now
      BY <2>1, <2>2, <2>4 DEF LedgerInv
    <2> QED  BY <1>0, <2>1, <2>3, <2>4 DEF LedgerInv
  <1>5. ASSUME NEW w \in Faithful, Cosign(w) PROVE LedgerInv'
    <2>1. /\ UNCHANGED <<now, ledger>> /\ polls[w] \in Heads /\ polls[w] # NoPoll
          /\ receipts' = [receipts EXCEPT ![w][polls[w]] = now]
          /\ polls' = [polls EXCEPT ![w] = NoPoll]
      BY <1>5 DEF Cosign, vars, world, LedgerInv
    <2>2. /\ polls' \in [Faithful -> Heads \cup {NoPoll}]
          /\ receipts' \in [Faithful -> [Heads -> Nat]]
      BY <1>a, <2>1 DEF LedgerInv
    <2>3. \A v \in Faithful, h \in Heads :
             receipts'[v][h] = IF v = w /\ h = polls[w] THEN now ELSE receipts[v][h]
      BY <2>1 DEF LedgerInv
    <2>4. \A v \in Faithful : polls'[v] # NoPoll => polls'[v] = polls[v]
      BY <2>1 DEF LedgerInv
    <2>5. ASSUME SlowPolls = FALSE, NEW v \in Faithful, NEW h \in Heads,
                 NEW i \in 1 .. Len(ledger), receipts'[v][h] # Never, i > h
          PROVE  ledger[i].at >= receipts'[v][h]
      BY <2>1, <2>3, <2>5 DEF LedgerInv
    <2>6. ASSUME NEW v \in Faithful, NEW h \in Heads, receipts'[v][h] # Never
          PROVE  receipts'[v][h] <= now
      <3>1. CASE v = w /\ h = polls[w]
        BY <1>a, <2>3, <3>1
      <3>2. CASE ~(v = w /\ h = polls[w])
        <4>1. receipts'[v][h] = receipts[v][h]
          BY <2>3, <3>2
        <4> QED  BY <2>6, <4>1 DEF LedgerInv
      <3> QED  BY <3>1, <3>2
    <2>7. ASSUME SlowPolls = FALSE, NEW v \in Faithful, NEW i \in 1 .. Len(ledger),
                 polls'[v] # NoPoll, i > polls'[v]
          PROVE  ledger[i].at >= now
      BY <2>4, <2>7 DEF LedgerInv
    <2> QED  BY <1>0, <2>1, <2>2, <2>5, <2>6, <2>7 DEF LedgerInv
  <1>6. CASE UNCHANGED <<now, ledger, receipts, polls>>
    BY <1>0, <1>6 DEF LedgerInv
  <1>7. \/ Time \/ Recording \/ Acknowledge \/ (\E w \in Faithful : Read(w) \/ Cosign(w))
        \/ News \/ Word \/ Make \/ Lodge \/ Verify \/ UNCHANGED avars
    BY DEF ANext
  <1>8. CASE News \/ Word \/ Make \/ Lodge \/ Verify \/ UNCHANGED avars
    <2>1. UNCHANGED <<ledger, receipts, polls>>
      BY <1>8 DEF News, Word, Make, Lodge, Verify, chain, avars
    <2>2. now' = now
      BY <1>8 DEF News, File, Receive, Word, Present, Make, Commit, Lodge, Verify, avars, vars, world
    <2> QED  BY <1>6, <2>1, <2>2
  <1> QED  BY <1>1, <1>2, <1>3, <1>4, <1>5, <1>7, <1>8

----------------------------------------------------------------------------
(* Nobody is blamed who has not lied                                       *)

AInv == Inv /\ MadeInv /\ RenewalInv /\ LedgerInv

LEMMA AInvInit == AInit => AInv
  BY MadeInit, LedgerInit DEF AInv

LEMMA AInvNext == AInv /\ [ANext]_avars => AInv'
  BY MadeNext, LedgerNext DEF AInv

\* Before the verdict nothing is said; after it nothing moves
LEMMA Silent == verdict = NoVerdict => FineIsCovered /\ LieConvicted /\ ConvictedLied
  BY DEF NoVerdict, FineIsCovered, Fine, LieConvicted, ConvictedLied

LEMMA Moves ==
    ASSUME [ANext]_avars
    PROVE  Verify \/ verdict' = NoVerdict \/ UNCHANGED avars
  BY DEF ANext

\* What a verdict is given on
LEMMA Verdict ==
    ASSUME LedgerInv, Verify
    PROVE  /\ artifact # NoArtifact /\ UNCHANGED <<vars, artifact, renewal, chain>>
           /\ \E shown \in 0 .. Len(ledger), blind \in SUBSET Blind, today \in Today,
                 wordToday \in Signed \cup {NoAnswer}, pinned \in BOOLEAN :
                 verdict' = [reason |-> VerdictFor(Failed(shown, blind, pinned, today, wordToday)),
                             shown |-> shown, pinned |-> pinned,
                             heard |-> {m \in Reached(today) \cap honest :
                                           Record(today[m]).effective # Never}]
  <1>1. artifact # NoArtifact /\ UNCHANGED <<vars, artifact, renewal, chain>>
    BY DEF Verify
  <1>2. PICK shown \in IF Hides THEN 0 .. Len(ledger) ELSE {Len(ledger)}, blind \in SUBSET Blind,
           today \in Today, wordToday \in Signed \cup {NoAnswer}, pinned \in BOOLEAN :
              verdict' = [reason |-> VerdictFor(Failed(shown, blind, pinned, today, wordToday)),
                          shown |-> shown, pinned |-> pinned,
                          heard |-> {m \in Reached(today) \cap honest :
                                        Record(today[m]).effective # Never}]
    BY DEF Verify, Failed
  <1>3. Len(ledger) \in Nat
    BY DEF LedgerInv
  <1>4. shown \in 0 .. Len(ledger)
    BY <1>3
  <1> QED  BY <1>1, <1>2, <1>4, ZenonT(60)

\* For any number of lying mirrors, any notice and any dates: a commitment found fine,
\* the load still to be delivered, is covered up to its day of delivery if its insurer
\* is honest, whatever that insurer has filed since (verifyArtifact, satisfiesRenewal)
THEOREM FineMeansCovered == ASpec => []FineIsCovered
  <1>1. AInit => AInv /\ FineIsCovered
    BY AInvInit, Silent DEF AInit
  <1>2. AInv /\ FineIsCovered /\ [ANext]_avars => AInv' /\ FineIsCovered'
    <2> SUFFICES ASSUME AInv, FineIsCovered, [ANext]_avars PROVE AInv' /\ FineIsCovered'
      OBVIOUS
    <2>1. AInv'
      BY AInvNext
    <2>2. CASE verdict' = NoVerdict
      <3>1. NoVerdict.reason = "none"
        BY DEF NoVerdict
      <3> QED  BY <2>1, <2>2, <3>1 DEF FineIsCovered, Fine
    <2>3. CASE UNCHANGED avars
      BY <2>1, <2>3 DEF avars, vars, world, FineIsCovered, Fine, Day
    <2>4. CASE Verify
      <3>1. artifact # NoArtifact /\ UNCHANGED world
        BY <2>4, Verdict DEF vars, AInv
      <3>2. PICK shown \in 0 .. Len(ledger), blind \in SUBSET Blind, today \in Today,
               wordToday \in Signed \cup {NoAnswer}, pinned \in BOOLEAN :
               verdict'.reason = VerdictFor(Failed(shown, blind, pinned, today, wordToday))
        BY <2>4, Verdict DEF AInv
      <3>3. ASSUME verdict'.reason = "fine", Insurer \in honest
            PROVE  Day(Delivery) <= filed.effective
        <4>1. InsurerChecks(today, wordToday) = {}
          <5>1. Failed(shown, blind, pinned, today, wordToday) = {}
            BY <3>2, <3>3, VerdictMeans
          <5> QED  BY <5>1 DEF Failed
        <4> QED  BY <3>1, <3>3, <4>1, NothingFailed, AssuredCovers DEF AInv
      <3> QED  BY <2>1, <3>1, <3>3 DEF world, FineIsCovered, Fine, Day
    <2> QED  BY <2>2, <2>3, <2>4, Moves
  <1> QED  BY <1>1, <1>2, PTL DEF ASpec

\* Where every mirror has the registry's table of filings: a mirror is blamed only if
\* one has lied or the registry has lagged behind the insurer's filing, and an insurer
\* only if it has lied (verdictFor, contradictedBy, insurerContradictedBy)
THEOREM OnlyLiarsConvicted ==
    ASSUME FilingsFail = FALSE
    PROVE  ASpec => []ConvictedLied
  <1>1. AInit => AInv /\ ConvictedLied
    BY AInvInit, Silent DEF AInit
  <1>2. AInv /\ ConvictedLied /\ [ANext]_avars => AInv' /\ ConvictedLied'
    <2> SUFFICES ASSUME AInv, ConvictedLied, [ANext]_avars PROVE AInv' /\ ConvictedLied'
      OBVIOUS
    <2>1. AInv'
      BY AInvNext
    <2>2. CASE verdict' = NoVerdict
      <3>1. NoVerdict.reason = "none"
        BY DEF NoVerdict
      <3> QED  BY <2>1, <2>2, <3>1 DEF ConvictedLied
    <2>3. CASE UNCHANGED avars
      <3>1. Embedded' = Embedded
        BY <2>3 DEF avars, Embedded, NoArtifact, Never
      <3> QED  BY <2>1, <2>3, <3>1 DEF avars, vars, world, ConvictedLied, Day
    <2>4. CASE Verify
      <3>1. artifact # NoArtifact /\ UNCHANGED world /\ artifact' = artifact
        BY <2>4, Verdict DEF vars, AInv
      <3>2. PICK shown \in 0 .. Len(ledger), blind \in SUBSET Blind, today \in Today,
               wordToday \in Signed \cup {NoAnswer}, pinned \in BOOLEAN :
               verdict'.reason = VerdictFor(Failed(shown, blind, pinned, today, wordToday))
        BY <2>4, Verdict DEF AInv
      <3> DEFINE failed == Failed(shown, blind, pinned, today, wordToday)
      <3>0. failed = StatusChecks(shown, blind, pinned) \cup RegistryChecks(today)
                       \cup InsurerChecks(today, wordToday) \cup Accountability(today, wordToday)
        BY DEF Failed
      <3> HIDE DEF failed
      <3>3. ASSUME verdict'.reason = "REGISTRY_FALSE_ATTESTATION", Embedded \subseteq honest
            PROVE  filed.filed < Day(received)
        <4>1. "registry.true-when-signed" \in failed
          BY <3>2, <3>3, VerdictMeans DEF failed
        <4>2. /\ "registry.true-when-signed" \notin StatusChecks(shown, blind, pinned)
              /\ "registry.true-when-signed" \notin RegistryChecks(today)
              /\ "registry.true-when-signed" \notin InsurerChecks(today, wordToday)
          BY DEF StatusChecks, Witnessing, RegistryChecks, InsurerChecks, Renewed
        <4>3. Accountability(today, wordToday) # {}
          BY <3>0, <4>1, <4>2
        <4>4. PICK m \in Embedded :
                 ContradictedBy(m, artifact.attestations[m], Filings(today, wordToday))
          BY <4>3 DEF Accountability
        <4> QED  BY <3>1, <3>3, <4>4, HonestMirror DEF AInv
      <3>4. ASSUME verdict'.reason = "INSURER_FALSE_ATTESTATION"
            PROVE  Insurer \notin honest
        <4>1. "insurer.true-when-signed" \in failed
          BY <3>2, <3>4, VerdictMeans DEF failed
        <4>2. /\ "insurer.true-when-signed" \notin StatusChecks(shown, blind, pinned)
              /\ "insurer.true-when-signed" \notin RegistryChecks(today)
              /\ "insurer.true-when-signed" \notin Accountability(today, wordToday)
          BY DEF StatusChecks, Witnessing, RegistryChecks, Accountability
        <4>3. "insurer.true-when-signed" \in InsurerChecks(today, wordToday)
          BY <3>0, <4>1, <4>2
        <4>4. WordLies(today)
          BY <4>3 DEF InsurerChecks, Renewed
        <4> QED  BY <3>1, <4>4, HonestInsurer DEF AInv
      <3>5. Embedded' = Embedded
        BY <3>1 DEF Embedded, NoArtifact, Never
      <3> QED  BY <2>1, <3>1, <3>3, <3>4, <3>5 DEF world, ConvictedLied, Day
    <2> QED  BY <2>2, <2>3, <2>4, Moves
  <1> QED  BY <1>1, <1>2, PTL DEF ASpec

\* "One honest word later convicts it", however many others lie, when Never is later
\* than the dates filings can have (contradictedBy, verdictFor)
THEOREM OneWordConvicts ==
    ASSUME FilingsFail = FALSE, Day(MaxTime) + NoticeDays + 1 < Never
    PROVE  ASpec => []LieConvicted
  <1>1. AInit => AInv /\ LieConvicted
    BY AInvInit, Silent DEF AInit
  <1>2. AInv /\ LieConvicted /\ [ANext]_avars => AInv' /\ LieConvicted'
    <2> SUFFICES ASSUME AInv, LieConvicted, [ANext]_avars PROVE AInv' /\ LieConvicted'
      OBVIOUS
    <2>1. AInv'
      BY AInvNext
    <2>2. CASE verdict' = NoVerdict
      BY <2>1, <2>2 DEF LieConvicted, NoVerdict
    <2>3. CASE UNCHANGED avars
      <3>1. UNCHANGED <<artifact, filed, received, verdict>>
        BY <2>3 DEF avars, vars, world
      <3>2. LieConvicted' <=> LieConvicted
        BY <3>1 DEF LieConvicted, Embedded, NoArtifact, NoVerdict, Never, Record, Day
      <3> QED  BY <2>1, <3>2
    <2>4. CASE Verify
      <3>1. artifact # NoArtifact /\ artifact' = artifact /\ UNCHANGED <<filed, received>>
        BY <2>4, Verdict DEF vars, world, AInv
      <3>2. PICK shown \in 0 .. Len(ledger), blind \in SUBSET Blind, today \in Today,
               wordToday \in Signed \cup {NoAnswer}, pinned \in BOOLEAN :
               /\ verdict'.reason = VerdictFor(Failed(shown, blind, pinned, today, wordToday))
               /\ verdict'.heard = {m \in Reached(today) \cap honest :
                                        Record(today[m]).effective # Never}
        BY <2>4, Verdict DEF AInv
      <3>3. ASSUME verdict'.heard # {}, NEW m \in Embedded,
                   Record(artifact.attestations[m]).effective = Never,
                   Day(received) < Day(artifact.attestations[m].sync)
            PROVE  verdict'.reason = "REGISTRY_FALSE_ATTESTATION"
        <4>1. PICK n \in Reached(today) : n \in honest /\ Record(today[n]).effective # Never
          BY <3>2, <3>3
        <4>2. ContradictedBy(m, artifact.attestations[m], Filings(today, wordToday))
          BY <3>1, <3>3, <4>1, LieShown DEF AInv
        <4>3. "registry.true-when-signed" \in Accountability(today, wordToday)
          BY <4>2 DEF Accountability
        <4>4. /\ "registry.true-when-signed" \in Failed(shown, blind, pinned, today, wordToday)
              /\ Failed(shown, blind, pinned, today, wordToday) \subseteq AnyCheck
          BY <4>3, ChecksKnown DEF Failed
        <4> QED  BY <3>2, <4>4, VerdictMeans
      <3>4. Embedded' = Embedded /\ \A a : Record(a)' = Record(a)
        BY <3>1 DEF Embedded, NoArtifact, Never, Record, Day
      <3>5. \A m \in Embedded :
               /\ Record(artifact.attestations[m])' = Record(artifact.attestations[m])
               /\ Day(artifact.attestations[m].sync)' = Day(artifact.attestations[m].sync)
        BY <3>1 DEF Record, Never, Day
      <3>6. Day(received)' = Day(received)
        BY <3>1 DEF Day
      <3> QED  BY <2>1, <3>3, <3>4, <3>5, <3>6 DEF LieConvicted, Never
    <2> QED  BY <2>2, <2>3, <2>4, Moves
  <1> QED  BY <1>1, <1>2, PTL DEF ASpec

----------------------------------------------------------------------------
(* What the witnesses vouch for                                            *)

LEMMA LargestIsIn ==
    ASSUME NEW n \in Nat, NEW S, S \subseteq 0 .. n, S # {}
    PROVE  Largest(S) \in S
  <1> DEFINE T == {x .. n : x \in S}
  <1>1. IsFiniteSet(0 .. n)
    BY FS_Interval
  <1>2. T \subseteq SUBSET (0 .. n) /\ T # {}
    <2>1. ASSUME NEW x \in S PROVE x .. n \in SUBSET (0 .. n)
      <3>1. x \in Nat
        OBVIOUS
      <3> QED  BY <3>1
    <2>2. T # {}
      OBVIOUS
    <2> QED  BY <2>1, <2>2
  <1>3. T \subseteq FiniteSubsetsOf(0 .. n)
    BY <1>1, <1>2, FS_FiniteSubsetsOfFinite
  <1>4. PICK I \in T : \A J \in T : ~(<<J, I>> \in StrictSubsetOrdering(0 .. n))
    <2> HIDE DEF T
    <2> QED  BY <1>2, <1>3, FS_StrictSubsetOrderingWellFounded, WFMin
  <1>5. PICK x \in S : I = x .. n /\ \A y \in S : y <= x
    <2>1. PICK x \in S : I = x .. n
      OBVIOUS
    <2>2. ASSUME NEW y \in S, ~(y <= x) PROVE FALSE
      <3>1. y .. n \subseteq x .. n /\ x \in x .. n /\ x \notin y .. n
        BY <2>2
      <3>2. y .. n \in T /\ <<y .. n, I>> \in StrictSubsetOrdering(0 .. n)
        BY <1>2, <2>1, <3>1 DEF StrictSubsetOrdering
      <3> QED  BY <1>4, <3>2
    <2> QED  BY <2>1, <2>2
  <1>6. \E z \in S : \A y \in S : y <= z
    BY <1>5
  <1> QED  BY <1>6 DEF Largest

\* The head a quorum vouches for as of late is one that a witness who looks has signed
\* since
LEMMA VouchedFor ==
    ASSUME Cardinality(Blind) < MinWitnesses, Inv, LedgerInv,
           NEW h \in Heads, NEW blind \in SUBSET Blind,
           ~(Cardinality(By(h) \cup blind) < MinWitnesses),
           ~(WitnessedAsOf(h, blind) + Staleness < now)
    PROVE  \E w \in By(h) : receipts[w][h] \in Nat /\ receipts[w][h] + Staleness >= now
  <1> DEFINE Since(t) == {w \in By(h) : receipts[w][h] >= t}
             S == {t \in 0 .. MaxTime : Cardinality(blind \cup Since(t)) >= MinWitnesses}
             T == WitnessedAsOf(h, blind)
  <1>1. By(h) \subseteq Witnesses /\ \A w \in By(h) : receipts[w][h] \in Nat
    BY DEF By, Faithful, LedgerInv
  <1>2. Since(0) = By(h)
    BY <1>1
  <1>3. IsFiniteSet(Witnesses) /\ Blind \subseteq Witnesses /\ IsFiniteSet(Blind)
        /\ MinWitnesses \in Nat /\ Staleness \in Nat
    <2>1. IsFiniteSet(Witnesses) /\ Blind \subseteq Witnesses /\ Staleness \in Nat
          /\ MinWitnesses \in 1 .. Cardinality(Witnesses)
      BY ArtifactAssumption
    <2>2. Cardinality(Witnesses) \in Nat
      BY <2>1, FS_CardinalityType
    <2> QED  BY <2>1, <2>2, FS_Subset
  <1>4. Cardinality(By(h) \cup blind) \in Nat
    <2>1. By(h) \cup blind \subseteq Witnesses
      BY <1>1, <1>3
    <2> QED  BY <1>3, <2>1, FS_Subset, FS_CardinalityType
  <1>5. 0 \in S
    <2>1. blind \cup Since(0) = By(h) \cup blind
      BY <1>2
    <2>2. Cardinality(blind \cup Since(0)) >= MinWitnesses
      BY <1>3, <1>4, <2>1
    <2> QED  BY <2>2
  <1>6. T = Largest(S)
    BY DEF WitnessedAsOf
  <1>7. T \in S
    BY <1>5, <1>6, LargestIsIn
  <1>8. T \in 0 .. MaxTime /\ Cardinality(blind \cup Since(T)) >= MinWitnesses
    BY <1>7
  <1>9. Since(T) # {}
    <2> SUFFICES ASSUME Since(T) = {} PROVE FALSE
      OBVIOUS
    <2>1. blind \cup Since(T) = blind
      OBVIOUS
    <2>2. Cardinality(blind) <= Cardinality(Blind) /\ Cardinality(blind) \in Nat
          /\ Cardinality(Blind) \in Nat
      BY <1>3, FS_Subset, FS_CardinalityType
    <2>3. Cardinality(blind) >= MinWitnesses
      BY <1>8, <2>1
    <2> QED  BY <1>3, <2>2, <2>3
  <1>10. PICK w \in By(h) : receipts[w][h] >= T
    BY <1>9
  <1>11. receipts[w][h] \in Nat /\ T \in Nat /\ T + Staleness >= now
    BY <1>1, <1>3, <1>8 DEF Inv, WorldInv
  <1> HIDE DEF T
  <1>12. receipts[w][h] + Staleness >= now
    BY <1>3, <1>10, <1>11 DEF Inv, WorldInv
  <1> QED  BY <1>10, <1>11, <1>12

\* When no witness asked for fails, the first status of the whole list is among the
\* entries shown, or recorded lately
LEMMA FirstIsShown ==
    ASSUME SlowPolls = FALSE, Cardinality(Blind) < MinWitnesses, Inv, LedgerInv,
           NEW shown \in 0 .. Len(ledger), NEW blind \in SUBSET Blind,
           Witnessing(shown, blind) = {},
           NEW i \in FirstStatus(Len(ledger)), ledger[i].at + Staleness < now
    PROVE  i \in FirstStatus(shown)
  <1> DEFINE WH == WitnessedHeads(shown, blind)
             head == Largest(WH)
             on == IF head = shown THEN blind ELSE {}
  <1>1. Len(ledger) \in Nat /\ Len(ledger) <= MaxEntries /\ MaxEntries \in Nat
    BY ArtifactAssumption DEF LedgerInv, Heads
  <1>2. WH # {} /\ WH \subseteq 0 .. shown
    <2>1. WH \subseteq 0 .. shown
      BY <1>1 DEF WitnessedHeads
    <2>2. WH # {}
      BY DEF Witnessing
    <2> QED  BY <2>1, <2>2
  <1>3. head \in 0 .. shown
    BY <1>1, <1>2, LargestIsIn
  <1>4. /\ ~(Cardinality(By(head) \cup on) < MinWitnesses)
        /\ ~(WitnessedAsOf(head, on) + Staleness < now)
    BY <1>2 DEF Witnessing
  <1>5. head \in Heads /\ on \in SUBSET Blind
    BY <1>1, <1>3 DEF Heads
  <1> HIDE DEF head, on, WH
  <1>6. PICK w \in By(head) : receipts[w][head] \in Nat /\ receipts[w][head] + Staleness >= now
    BY <1>4, <1>5, VouchedFor
  <1>7. i \in 1 .. Len(ledger) /\ ledger[i].at \in Nat /\ now \in Nat /\ Staleness \in Nat
    <2>1. i \in 1 .. Len(ledger)
      BY DEF FirstStatus
    <2>2. ledger[i] \in LedgerEntry
      BY <2>1 DEF LedgerInv
    <2> QED  BY <2>1, <2>2, ArtifactAssumption DEF LedgerEntry, Inv, WorldInv
  <1>8. ~(i > head)
    <2> SUFFICES ASSUME i > head PROVE FALSE
      OBVIOUS
    <2>1. ledger[i].at >= receipts[w][head]
      BY <1>5, <1>6, <1>7 DEF By, LedgerInv
    <2> QED  BY <1>6, <1>7, <2>1
  <1>9. i \in 1 .. shown
    BY <1>1, <1>3, <1>7, <1>8
  <1> QED  BY <1>9 DEF FirstStatus

\* Fine is not said of a signature that a status recorded longer ago than the
\* verifier's tolerance would have spoiled, were it the first of its credential: for
\* any witnesses of which fewer than the quorum sign blindly, and whatever head the
\* venue shows, when a poll takes no time (judge, witnessedAsOf)
THEOREM FineMeansWitnessed ==
    ASSUME SlowPolls = FALSE, Cardinality(Blind) < MinWitnesses
    PROVE  ASpec => []FineAsOf
  <1>1. AInit => AInv /\ FineAsOf
    BY AInvInit DEF AInit, FineAsOf, Fine, NoVerdict
  <1>2. AInv /\ FineAsOf /\ [ANext]_avars => AInv' /\ FineAsOf'
    <2> SUFFICES ASSUME AInv, FineAsOf, [ANext]_avars PROVE AInv' /\ FineAsOf'
      OBVIOUS
    <2>1. AInv'
      BY AInvNext
    <2>2. CASE verdict' = NoVerdict
      <3>1. NoVerdict.reason = "none"
        BY DEF NoVerdict
      <3> QED  BY <2>1, <2>2, <3>1 DEF FineAsOf, Fine
    <2>3. CASE UNCHANGED avars
      <3>1. UNCHANGED <<verdict, ledger, now, artifact>>
        BY <2>3 DEF avars, vars, world, chain
      <3> QED  BY <2>1, <3>1 DEF FineAsOf, Fine, FirstStatus
    <2>4. CASE Verify
      <3>1. UNCHANGED <<ledger, now, artifact>>
        BY <2>4, Verdict DEF vars, world, chain, AInv
      <3>2. PICK shown \in 0 .. Len(ledger), blind \in SUBSET Blind, today \in Today,
               wordToday \in Signed \cup {NoAnswer}, pinned \in BOOLEAN :
               /\ verdict'.reason = VerdictFor(Failed(shown, blind, pinned, today, wordToday))
               /\ verdict'.pinned = pinned
        BY <2>4, Verdict DEF AInv
      <3>3. ASSUME verdict'.reason = "fine", verdict'.pinned,
                   NEW i \in FirstStatus(Len(ledger)), ledger[i].at + Staleness < now
            PROVE  ledger[i].from > artifact.at
        <4>1. Failed(shown, blind, pinned, today, wordToday) = {}
          BY <3>2, <3>3, VerdictMeans
        <4>2. StatusChecks(shown, blind, pinned) = {} /\ pinned
          BY <3>2, <3>3, <4>1 DEF Failed
        <4>3. Witnessing(shown, blind) = {} /\ SignatureTrusted(shown)
          BY <4>2 DEF StatusChecks
        <4>4. i \in FirstStatus(shown)
          BY <3>3, <4>3, FirstIsShown DEF AInv
        <4> QED  BY <4>3, <4>4 DEF SignatureTrusted
      <3> QED  BY <2>1, <3>1, <3>3 DEF FineAsOf, Fine, FirstStatus
    <2> QED  BY <2>2, <2>3, <2>4, Moves
  <1> QED  BY <1>1, <1>2, PTL DEF ASpec

\* A verifier's verdict is just: what it calls fine is fine, a liar is named as soon as
\* one honest word shows it, and nobody is named who has not lied
THEOREM VerdictsAreJust ==
    ASSUME FilingsFail = FALSE, SlowPolls = FALSE, Cardinality(Blind) < MinWitnesses,
           Day(MaxTime) + NoticeDays + 1 < Never
    PROVE  ASpec => []VerdictIsJust
  <1>1. /\ ASpec => []FineIsCovered
        /\ ASpec => []ConvictedLied
        /\ ASpec => []LieConvicted
        /\ ASpec => []FineAsOf
    BY FineMeansCovered, OnlyLiarsConvicted, OneWordConvicts, FineMeansWitnessed
  <1>2. FineAsOf /\ FineIsCovered /\ LieConvicted /\ ConvictedLied => VerdictIsJust
    BY DEF VerdictIsJust
  <1> QED  BY <1>1, <1>2, PTL
=============================================================================
