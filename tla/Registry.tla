----------------------------- MODULE Registry -----------------------------
(***************************************************************************)
(* What the venue knows of a carrier's insurance: the registries' signed    *)
(* word, held by its mirror (identity/registry-mirror.ts), and the          *)
(* insurer's own (protocol/registry.ts); how a commitment rests on them     *)
(* until the load moves (venue/service.ts, identity/verifier.ts).           *)
(*                                                                         *)
(* One carrier with one policy, which its insurer may cancel.  Filings have *)
(* dates, everything else is timed in instants, DayLength to a day.         *)
(***************************************************************************)
EXTENDS Naturals, FiniteSets

CONSTANTS
    Mirrors,    \* the registries the venue is configured with
    Quorum,     \* of which so many must answer
    DayLength,
    NoticeDays, \* a cancellation is filed so many days ahead
    MaxAge,     \* oldest sync the venue relies on while negotiating
    Pickup, Delivery,
    FilingsFail, \* whether the registry's table of filings may be out of a mirror's reach
    MaxTime     \* bound: the clock

ASSUME RegistryAssumption ==
    /\ DayLength \in Nat \ {0} /\ NoticeDays \in Nat /\ MaxAge \in Nat
    /\ Pickup \in Nat /\ Delivery \in Nat /\ MaxTime \in Nat
    /\ FilingsFail \in BOOLEAN

VARIABLES
    now,
    honest,   \* who keeps the rules, somebody does: mirrors that say when they synced, the
              \* insurer, if it discloses what it has filed
    filed,    \* the insurer's cancellation: [filed, effective], dates
    received, \* and when the registry has received it
    held,     \* the venue's attestation from each mirror
    relied,   \* the mirrors whose attestations the venue relies on
    word,     \* the insurer's attestation on file
    deal      \* the commitment

world == <<now, honest, filed, received>>
venue == <<held, relied, word, deal>>
vars == <<world, venue>>

Never == MaxTime + 1
Insurer == "insurer"
Day(t) == t \div DayLength
Midnight(d) == d * DayLength
NoAnswer == [sync |-> Never]
NotFiled == [filed |-> Never, effective |-> Never]

\* What an attestation shows of the policy: the public record as of the copy
Record(a) ==
    IF a.copied < received \/ ~a.filings
    THEN [filed |-> Never, effective |-> Never, received |-> Never]
    ELSE [filed |-> filed.filed, effective |-> filed.effective, received |-> Day(received)]

Init ==
    /\ now = 0
    /\ honest \in SUBSET (Mirrors \cup {Insurer}) \ {{}}
    /\ filed = NotFiled /\ received = Never
    /\ held = [m \in Mirrors |-> NoAnswer] /\ relied = {}
    /\ word = NoAnswer
    /\ deal = [status |-> "none"]

----------------------------------------------------------------------------
(* The world outside                                                        *)

Tick ==
    /\ now < MaxTime
    /\ now' = now + 1
    /\ UNCHANGED <<honest, filed, received, venue>>

\* The insurer files a cancellation, at least the notice ahead
File ==
    /\ filed = NotFiled
    /\ \E ahead \in NoticeDays .. NoticeDays + 1 :
          filed' = [filed |-> Day(now), effective |-> Day(now) + ahead]
    /\ UNCHANGED <<now, honest, received, venue>>

\* The registry may lag behind it; what it has received at an instant a mirror that
\* syncs at that instant has
Receive ==
    /\ filed # NotFiled /\ received = Never
    /\ \A m \in Mirrors : held[m] # NoAnswer => held[m].copied < now
    /\ received' = now
    /\ UNCHANGED <<now, honest, filed, venue>>

\* attest(): an honest mirror's copy is of any time since the one it answered from
\* before, and it says which; a liar's is that one still, or current.  Without the
\* table of filings a copy is a summary of the carrier's coverage, without
\* cancellations (QcMobileUpstream.record)
Attested(m) ==
    LET last == IF held[m] = NoAnswer THEN 0 ELSE held[m].copied
    IN  IF m \in honest
        THEN {[copied |-> t, sync |-> t, filings |-> f] : t \in last .. now, f \in {TRUE, ~FilingsFail}}
        ELSE {[copied |-> t, sync |-> now, filings |-> TRUE] : t \in {last, now}}

----------------------------------------------------------------------------
(* The rules every party applies to signed words (protocol/registry.ts)      *)

\* Fresh by the mirror's sync, whenever it signed
FreshAt(a, maxAge) == a # NoAnswer /\ now <= a.sync + maxAge

FilingActive(r, at) == at < Midnight(r.effective)

\* standing(): in force now, and through the delivery
Standing(r, at, through) ==
    /\ FilingActive(r, at) /\ FilingActive(r, through)

\* A cancellation somebody's word shows, and from which sync
FilingsShownBy(m, a) ==
    LET r == Record(a)
    IN  IF r.effective = Never THEN {}
        ELSE {[source |-> m, asOf |-> a.sync, filed |-> r.filed,
               effective |-> r.effective, received |-> r.received]}

FilingShownByInsurer(w) ==
    IF w = NoAnswer \/ w.effective = Never THEN {}
    ELSE {[source |-> Insurer, asOf |-> w.asOf, filed |-> w.filed,
           effective |-> w.effective, received |-> w.filed]}

\* contradictedBy(): a mirror that claims a sync after the registry received a
\* filing answers for a record without it
\* Mutant: on the day the registry received it as well
ContradictedSameDay(m, a, evidence) ==
    \E e \in evidence :
        /\ ~(e.source = m /\ e.asOf = a.sync)
        /\ e.received <= Day(a.sync) /\ Record(a).effective > e.effective
ContradictedBy(m, a, evidence) ==
    \E e \in evidence :
        /\ ~(e.source = m /\ e.asOf = a.sync)
        /\ e.received < Day(a.sync) /\ Record(a).effective > e.effective

\* insurerContradictedBy(): an insurer answers for what it has filed
InsurerContradictedBy(w, evidence) ==
    \E e \in evidence :
        /\ ~(e.source = Insurer /\ e.asOf = w.asOf)
        /\ e.filed < Day(w.asOf) /\ w.effective > e.effective

\* coverageAssuredThrough(): the cancellation disclosed, or the notice
\* Mutant: the notice, counted from the next day
AssuredADayMore(w) == w.asOf + (NoticeDays + 1) * DayLength
CoverageAssuredThrough(w) ==
    LET statutory == w.asOf + NoticeDays * DayLength
    IN  IF Midnight(w.effective) < statutory THEN Midnight(w.effective) ELSE statutory

\* insurerStanding()
InsurerStanding(w, at, through) == at < Midnight(w.effective) /\ through < Midnight(w.effective)

\* renewalWindow(), satisfiesRenewal()
EarliestSignedAt == IF Delivery < NoticeDays * DayLength THEN 0 ELSE Delivery - NoticeDays * DayLength
ReachesDelivery(w) == CoverageAssuredThrough(w) >= Delivery
SatisfiesRenewal(w) == w.asOf >= EarliestSignedAt /\ CoverageAssuredThrough(w) >= Delivery

\* attestations(): what a refresh relied on
Evidence(on, h) == UNION {FilingsShownBy(m, h[m]) : m \in on}

WordFalse(evidence) == word # NoAnswer /\ InsurerContradictedBy(word, evidence)

\* liveCheck(): any word of a lapse blocks, a mirror's or the insurer's
\* Mutant: one registry's word of standing is enough
LiveCheckAny(on, h, through) ==
    /\ \E m \in on : Standing(Record(h[m]), now, through)
    /\ word # NoAnswer /\ ~WordFalse(Evidence(on, h)) => InsurerStanding(word, now, through)
LiveCheck(on, h, through) ==
    /\ \A m \in on : Standing(Record(h[m]), now, through)
    /\ word # NoAnswer /\ ~WordFalse(Evidence(on, h)) => InsurerStanding(word, now, through)

----------------------------------------------------------------------------
(* The venue's mirror of the registries                                     *)

\* refresh(): attestations held are taken while they are fresh, the others asked
\* for; an answer is taken when it is fresh
Answers(m, maxAge) ==
    IF FreshAt(held[m], maxAge) THEN {held[m]}
    ELSE {NoAnswer} \cup {a \in Attested(m) : FreshAt(a, maxAge)}

Refreshed(maxAge) ==
    {h \in [Mirrors -> UNION {Answers(m, maxAge) : m \in Mirrors}] :
        \A m \in Mirrors : h[m] \in Answers(m, maxAge)}

Reached(h) == {m \in Mirrors : h[m] # NoAnswer}

Hold(h) == held' = [m \in Mirrors |-> IF m \in Reached(h) THEN h[m] ELSE held[m]]

Rely(h) ==
    /\ Cardinality(Reached(h)) >= Quorum /\ Reached(h) # {}
    /\ Hold(h) /\ relied' = Reached(h)

\* Short of a quorum a request is refused, and what was relied on stays
Unreachable ==
    /\ \E maxAge \in {0, MaxAge} : \E h \in Refreshed(maxAge) :
          Cardinality(Reached(h)) < Quorum /\ Hold(h)
    /\ UNCHANGED <<world, relied, word, deal>>

----------------------------------------------------------------------------
(* The insurer's word, and a commitment that needs it                       *)

\* checkRenewalConditions(), for the commitment under a condition
RenewalChecked(d, w, evidence) ==
    IF d.status # "active" \/ ~d.conditional \/ d.satisfied THEN d
    ELSE IF w # NoAnswer /\ ~InsurerContradictedBy(w, evidence) /\ ~InsurerStanding(w, w.asOf, Delivery)
    THEN [d EXCEPT !.status = "voided"]
    ELSE IF w # NoAnswer /\ ~InsurerContradictedBy(w, evidence) /\ SatisfiesRenewal(w)
    THEN [d EXCEPT !.satisfied = TRUE]
    ELSE IF now > Pickup THEN [d EXCEPT !.status = "voided"]
    ELSE d

\* A word the insurer signs now: honestly it shows what it has filed
Signed ==
    {[asOf |-> now, filed |-> c.filed, effective |-> c.effective] :
        c \in IF Insurer \in honest THEN {filed} ELSE {filed, NotFiled}}

\* presentInsurance(): refused when contradicted
Present ==
    /\ \E h \in Refreshed(MaxAge), w \in Signed :
          /\ Rely(h)
          /\ IF InsurerContradictedBy(w, Evidence(relied', held')) THEN UNCHANGED <<word, deal>>
             ELSE word' = w /\ deal' = RenewalChecked(deal, w, Evidence(relied', held'))
    /\ UNCHANGED world

\* commit(): for a broker who requires the insurer's word, that word being on file
\* (advance); it holds until the delivery, or a renewal is a condition
Commit ==
    /\ deal.status = "none" /\ word # NoAnswer /\ now < Pickup
    /\ \E h \in Refreshed(0) : Rely(h)
    /\ LiveCheck(relied', held', Delivery)
    /\ ReachesDelivery(word) \/ EarliestSignedAt <= Pickup
    /\ deal' = [status |-> "active", conditional |-> ~ReachesDelivery(word), satisfied |-> FALSE]
    /\ UNCHANGED <<world, word>>

\* prePickupChecks(): the condition, and until the pickup the registries' word again
PrePickupCheck ==
    /\ deal.status = "active"
    /\ \E h \in Refreshed(MaxAge) : Rely(h)
    /\ LET d == RenewalChecked(deal, word, Evidence(relied', held'))
       IN  deal' = IF d.status = "active" /\ now <= Pickup /\ ~LiveCheck(relied', held', Delivery)
                   THEN [d EXCEPT !.status = "voided"] ELSE d
    /\ UNCHANGED <<world, word>>

\* The job's other part does not wait for the registries
RenewalCheck ==
    /\ deal' = RenewalChecked(deal, word, Evidence(relied, held)) /\ deal' # deal
    /\ UNCHANGED <<world, held, relied, word>>

\* PICKED_UP, reported by the carrier (recordLifecycle)
PickUp ==
    /\ deal.status = "active" /\ now >= Pickup
    /\ deal' = [deal EXCEPT !.status = "in transit"]
    /\ UNCHANGED <<world, held, relied, word>>

Next ==
    \/ Tick \/ File \/ Receive
    \/ Unreachable \/ Present \/ Commit \/ PrePickupCheck
    \/ RenewalCheck \/ PickUp

Spec == Init /\ [][Next]_vars

----------------------------------------------------------------------------
TypeOK ==
    /\ now \in 0 .. MaxTime
    /\ relied \subseteq Mirrors
    /\ \A m \in relied : held[m] # NoAnswer
    /\ deal.status \in {"none", "active", "voided", "in transit"}

\* No honest party is ever convicted of a falsehood: not a mirror that lags, by what
\* other mirrors show, nor an insurer that files after it has signed
HonestNeverAccused ==
    /\ \A m \in relied \cap honest : ~ContradictedBy(m, held[m], Evidence(relied, held))
    /\ Insurer \in honest => ~WordFalse(Evidence(relied, held))

\* The same, by the insurer's word as well (liveCheck)
NoMirrorFramed ==
    \A m \in relied \cap honest :
        ~ContradictedBy(m, held[m], Evidence(relied, held) \cup FilingShownByInsurer(word))

\* One honest mirror is enough: a commitment that is made, or stands after its check,
\* is not one that what the registry had received by the oldest sync the policy
\* allows would have blocked, however many mirrors lie (liveCheck, prePickupChecks)
NewsBlocks ==
    [][LET oldest == now - (IF deal.status = "none" THEN 0 ELSE MaxAge)
       IN  /\ deal'.status = "active" /\ relied' \cap honest # {} /\ now <= Pickup
           /\ received < oldest /\ Delivery >= Midnight(filed.effective)
           => ~Commit /\ ~PrePickupCheck]_vars

\* An honest insurer's word keeps its promise: a load that moves on a word that
\* reaches its delivery, or on a renewal, is covered up to the day of delivery,
\* whatever the insurer files after it has signed (renewalWindow, satisfiesRenewal)
CoveredInTransit ==
    /\ deal.status = "in transit" /\ (~deal.conditional \/ deal.satisfied)
    /\ Insurer \in honest
    => Day(Delivery) <= filed.effective

\* A load that moves is assured through its delivery
MovesAssured == deal.status = "in transit" => ~deal.conditional \/ deal.satisfied

\* A mirror never claims a currency it did not get: what it shows is what the
\* registry had received by the sync it claims (upstream.ts:16-18)
CurrencyIsHonest ==
    \A m \in honest \cap Mirrors : held[m] # NoAnswer /\ received <= held[m].sync
                      => Record(held[m]).effective = filed.effective

\* To the instant
AssuredToTheInstant ==
    word # NoAnswer /\ Insurer \in honest
    => CoverageAssuredThrough(word) <= Midnight(filed.effective)
=============================================================================
