------------------------------ MODULE Artifact ------------------------------
(***************************************************************************)
(* What an independent verifier makes of a commitment (ledger/artifact.ts,  *)
(* ledger/bundle.ts): the artifact the venue built over the registries'     *)
(* and the insurer's signed words, the status list it publishes up to a     *)
(* head that witnesses have cosigned, and everybody's word today.           *)
(*                                                                         *)
(* Signatures are genuine and the insurer signs under its key of record;    *)
(* keys are VenueKeys' and Filers' concern, a forked ledger Witness's.  A   *)
(* dishonest venue here shows an old head, with a witness that signs it     *)
(* blindly.  One status list stands for it and the key history.             *)
(***************************************************************************)
EXTENDS Registry, Sequences

CONSTANTS
    MinRegistries, \* the verifier's quorum of registries
    Witnesses,
    Blind,         \* of which these sign any head they are handed
    MinWitnesses,
    Staleness,     \* how old the newest witnessed head may be
    Hides,         \* whether the venue may show an old head
    SlowPolls,     \* whether a witness's poll may outlast an instant
    MaxEntries     \* bound: entries on the ledger after the commitment

ASSUME ArtifactAssumption ==
    /\ IsFiniteSet(Witnesses) /\ Blind \subseteq Witnesses
    /\ MinWitnesses \in 1 .. Cardinality(Witnesses)
    /\ Staleness \in Nat /\ MaxEntries \in Nat
    /\ Hides \in BOOLEAN /\ SlowPolls \in BOOLEAN

VARIABLES
    artifact,  \* when it was made, the registries' attestations and the insurer's in it
    renewal,   \* the renewal recorded for it
    ledger,    \* since then: the carrier's credential's statuses, and other entries
    receipts,  \* [Faithful -> [heads -> when it has cosigned it]]
    polls,     \* [Faithful -> head a poll has read]
    notice,    \* a source's notice about the credential
    verdict    \* of the verifier, in the end

chain == <<ledger, receipts, polls, notice>>
avars == <<vars, artifact, renewal, chain, verdict>>

Faithful == Witnesses \ Blind
Heads == 0 .. MaxEntries
NoPoll == MaxEntries + 1
NoArtifact == [at |-> Never]
NoVerdict == [reason |-> "none"]

AInit ==
    /\ Init
    /\ artifact = NoArtifact /\ renewal = NoAnswer
    /\ ledger = <<>>
    /\ receipts = [w \in Faithful |-> [h \in Heads |-> Never]]
    /\ polls = [w \in Faithful |-> NoPoll]
    /\ notice = "none"
    /\ verdict = NoVerdict

----------------------------------------------------------------------------
(* The artifact, and what becomes of the carrier's credential                *)

Time ==
    /\ Tick
    /\ SlowPolls \/ \A w \in Faithful : polls[w] = NoPoll
    /\ UNCHANGED <<artifact, renewal, chain>>

News == (File \/ Receive) /\ UNCHANGED <<artifact, renewal, chain>>

\* presentInsurance(): a word that satisfies the condition is recorded with it
Word ==
    /\ Present
    /\ renewal' = IF deal'.status = "active" /\ deal'.satisfied /\ ~deal.satisfied THEN word' ELSE renewal
    /\ UNCHANGED <<artifact, chain>>

\* commit(): buildArtifact() takes the attestations the check has relied on and the
\* insurer's word on file
Make ==
    /\ Commit
    /\ artifact' = [at |-> now, registries |-> relied', attestations |-> held', word |-> word]
    /\ UNCHANGED <<renewal, chain>>

\* What else is recorded, the carrier's key being in order since before the commitment.
\* revoke(), rotate(): its credential is revoked, or superseded by another and its key
\* possibly declared compromised as of a time before
Entry(kind, from) == [kind |-> kind, at |-> now, from |-> from]

\* The first status of the credential among the first n entries
FirstStatus(n) ==
    {i \in 1 .. n : ledger[i].kind # "OTHER" /\ \A j \in 1 .. i - 1 : ledger[j].kind = "OTHER"}

Write(e) ==
    /\ artifact # NoArtifact /\ Len(ledger) < MaxEntries
    /\ ledger' = Append(ledger, e)

Recording ==
    /\ \/ Write(Entry("OTHER", Never)) \/ Write(Entry("REVOKED", now))
       \/ /\ \A i \in 1 .. Len(ledger) : ledger[i].kind # "SUPERSEDED"
          /\ \E from \in 0 .. now \cup {Never} : Write(Entry("SUPERSEDED", from))
    /\ UNCHANGED <<vars, artifact, renewal, receipts, polls, notice>>

\* A source's notice the venue does not acknowledge is lodged with a witness; what
\* arrives after all revokes the credential (submitNotice, applyNotice)
Lodge ==
    /\ artifact # NoArtifact /\ notice = "none"
    /\ notice' = "lodged"
    /\ UNCHANGED <<vars, artifact, renewal, ledger, receipts, polls>>

Acknowledge ==
    /\ notice = "lodged" /\ notice' = "recorded"
    /\ Write(Entry("REVOKED", now))
    /\ UNCHANGED <<vars, artifact, renewal, receipts, polls>>

\* poll(): a head not cosigned yet is read, then signed, at the time of signing
Read(w) ==
    /\ artifact # NoArtifact
    /\ polls[w] = NoPoll /\ receipts[w][Len(ledger)] = Never
    /\ polls' = [polls EXCEPT ![w] = Len(ledger)]
    /\ UNCHANGED <<vars, artifact, renewal, ledger, receipts, notice>>

Cosign(w) ==
    /\ polls[w] # NoPoll
    /\ receipts' = [receipts EXCEPT ![w][polls[w]] = now]
    /\ polls' = [polls EXCEPT ![w] = NoPoll]
    /\ UNCHANGED <<vars, artifact, renewal, ledger, notice>>

----------------------------------------------------------------------------
(* What the witnesses say of the list: `shown' is the head it is shown up to,  *)
(* `blind' those that have just signed it without a look (signBlindly)        *)

Largest(S) == CHOOSE x \in S : \A y \in S : y <= x

\* latestWitnessedHead()
WitnessedHeads(shown, blind) ==
    {h \in 0 .. shown : \E w \in Faithful : receipts[w][h] # Never}
        \cup (IF blind = {} THEN {} ELSE {shown})

By(h) == {w \in Faithful : receipts[w][h] # Never}

\* witnessedAsOf(): the time up to which a quorum vouches for the head, the k-th latest
\* Mutant: the latest
LatestOf(h, blind) == Largest({receipts[w][h] : w \in By(h)} \cup {now : w \in blind})
WitnessedAsOf(h, blind) ==
    Largest({t \in 0 .. MaxTime :
                Cardinality(blind \cup {w \in By(h) : receipts[w][h] >= t}) >= MinWitnesses})

\* judge(): the checks about the status list that fail
Witnessing(shown, blind) ==
    IF WitnessedHeads(shown, blind) = {} THEN {"witnessed"}
    ELSE LET head == Largest(WitnessedHeads(shown, blind))
             on   == IF head = shown THEN blind ELSE {}
         IN  IF Cardinality(By(head) \cup on) < MinWitnesses THEN {"witness-quorum"}
             ELSE IF WitnessedAsOf(head, on) + Staleness < now THEN {"fresh-as-of"} ELSE {}

\* The signature is judged by the first entry the list has for its credential
SignatureTrusted(shown) == \A i \in FirstStatus(shown) : ledger[i].from > artifact.at

\* A verifier that has pinned no witness asks for neither
StatusChecks(shown, blind, pinned) ==
    (IF ~pinned THEN {}
     ELSE Witnessing(shown, blind) \cup (IF notice = "lodged" THEN {"no-pending-notices"} ELSE {}))
        \cup (IF SignatureTrusted(shown) THEN {} ELSE {"credential.trusted-at-signing"})

----------------------------------------------------------------------------
(* The registries' word, then and today, and the insurer's                    *)

Embedded == IF artifact = NoArtifact THEN {} ELSE artifact.registries

RegistryChecks(today) ==
    LET views   == {Record(artifact.attestations[m]) : m \in Embedded}
        current == {Record(today[m]) : m \in Reached(today)}
        stands(r) == Standing(r, artifact.at, Delivery)
    IN  (IF Cardinality(Embedded) < MinRegistries THEN {"registry.quorum"} ELSE {})
            \cup (IF \A r \in views : stands(r) THEN {} ELSE {"registry.standing-at-commitment"})
            \cup (IF Cardinality({r.effective : r \in views}) > 1 THEN {"registry.consistent"} ELSE {})
            \cup (IF \A r \in current : stands(r) THEN {} ELSE {"registry.standing-per-current-record"})

Shown(today) == Evidence(Embedded, artifact.attestations) \cup Evidence(Reached(today), today)

WordLies(today) == InsurerContradictedBy(artifact.word, Shown(today))

\* A word that falls short of the delivery needs a renewal, until the pickup
Renewed ==
    IF renewal # NoAnswer /\ ~InsurerStanding(renewal, renewal.asOf, Delivery)
    THEN {"insurer.standing-per-renewal"}
    ELSE IF renewal # NoAnswer /\ SatisfiesRenewal(renewal) THEN {}
    ELSE IF EarliestSignedAt > Pickup THEN {"insurer.assured-through-delivery"}
    ELSE IF now <= Pickup THEN {"insurer.renewal-due"} ELSE {"insurer.renewal-not-presented"}

InsurerChecks(today, wordToday) ==
    (IF WordLies(today) THEN {"insurer.true-when-signed"}
     ELSE (IF InsurerStanding(artifact.word, artifact.at, Delivery) THEN {}
           ELSE {"insurer.standing-at-commitment"})
             \cup (IF ReachesDelivery(artifact.word) THEN {} ELSE Renewed))
    \cup (IF wordToday = NoAnswer \/ InsurerStanding(wordToday, artifact.at, Delivery) THEN {}
          ELSE {"insurer.standing-per-current-word"})

\* Every filing anybody's word shows, but an insurer's that is itself contradicted
Filings(today, wordToday) ==
    Shown(today) \cup FilingShownByInsurer(wordToday)
        \cup (IF WordLies(today) THEN {} ELSE FilingShownByInsurer(artifact.word))
        \cup (IF ~ReachesDelivery(artifact.word) /\ Renewed = {} THEN FilingShownByInsurer(renewal) ELSE {})

\* Every filing, against every mirror's claim in the artifact
Accountability(today, wordToday) ==
    IF \E m \in Embedded : ContradictedBy(m, artifact.attestations[m], Filings(today, wordToday))
    THEN {"registry.true-when-signed"} ELSE {}

----------------------------------------------------------------------------
(* The verdict                                                               *)

WitnessKind == {"witnessed", "witness-quorum", "fresh-as-of"}

AnyCheck ==
    WitnessKind \cup
    {"no-pending-notices", "credential.trusted-at-signing",
     "registry.quorum", "registry.standing-at-commitment", "registry.consistent",
     "registry.standing-per-current-record", "registry.true-when-signed",
     "insurer.true-when-signed", "insurer.standing-at-commitment",
     "insurer.standing-per-current-word", "insurer.standing-per-renewal",
     "insurer.assured-through-delivery", "insurer.renewal-due", "insurer.renewal-not-presented"}

\* The reasons, most damning first: one applies when some check of the first set has
\* failed and none outside the second.  The reasons whose checks do not fail here
\* are left out.
VerdictOrder == <<
    <<"NOTICE_PENDING", {"no-pending-notices"}, {"no-pending-notices"} \cup WitnessKind>>,
    <<"REGISTRY_FALSE_ATTESTATION", {"registry.true-when-signed"}, AnyCheck>>,
    <<"INSURER_FALSE_ATTESTATION", {"insurer.true-when-signed"}, AnyCheck>>,
    <<"INSURER_CONTRADICTS_COMMITMENT",
      {"insurer.standing-at-commitment", "insurer.standing-per-current-word",
       "insurer.standing-per-renewal"}, AnyCheck>>,
    <<"REGISTRY_CONTRADICTS_COMMITMENT",
      {"registry.standing-at-commitment", "registry.standing-per-current-record"}, AnyCheck>>,
    <<"REGISTRY_QUORUM_NOT_MET", {"registry.quorum"}, AnyCheck>>,
    <<"REGISTRY_DISAGREEMENT", {"registry.consistent"}, AnyCheck>>,
    <<"INSURANCE_NOT_ASSURED_THROUGH_DELIVERY", {"insurer.assured-through-delivery"}, AnyCheck>>,
    <<"INSURANCE_RENEWAL_NOT_PRESENTED", {"insurer.renewal-not-presented"}, AnyCheck>>,
    <<"INSURANCE_RENEWAL_PENDING", {"insurer.renewal-due"}, {"insurer.renewal-due"} \cup WitnessKind>>,
    <<"WITNESS_QUORUM_NOT_MET", {"witness-quorum"}, WitnessKind>>,
    <<"STATUS_NOT_WITNESSED", {"witnessed"}, WitnessKind>>,
    <<"STATUS_STALE", WitnessKind, WitnessKind>>,
    <<"COMMITMENT_UNDER_COMPROMISED_KEY", {"credential.trusted-at-signing"}, AnyCheck>> >>

\* verdictFor()
VerdictFor(failed) ==
    LET applies(v) == failed \cap v[2] # {} /\ failed \subseteq v[3]
        first == {i \in 1 .. Len(VerdictOrder) :
                     /\ applies(VerdictOrder[i])
                     /\ \A j \in 1 .. i - 1 : ~applies(VerdictOrder[j])}
    IN  IF failed = {} THEN "fine"
        ELSE IF first = {} THEN "CREDENTIAL_ISSUER_INVALID"
        ELSE VerdictOrder[CHOOSE i \in first : TRUE][1]

\* Those who answer today.  Bound: one mirror at most, and none while they have
\* nothing to tell
Today ==
    LET nobody == [m \in Mirrors |-> NoAnswer]
    IN  {nobody} \cup UNION {{[nobody EXCEPT ![m] = a] : a \in Attested(m)} :
                             m \in {n \in Mirrors : received # Never}}

\* fetchBundle(), verifyBundle(): the venue's part, and the words of whoever is reached
Verify ==
    /\ artifact # NoArtifact
    /\ \E shown \in IF Hides THEN 0 .. Len(ledger) ELSE {Len(ledger)}, blind \in SUBSET Blind,
          today \in Today, wordToday \in Signed \cup {NoAnswer}, pinned \in BOOLEAN :
          LET failed == StatusChecks(shown, blind, pinned) \cup RegistryChecks(today)
                            \cup InsurerChecks(today, wordToday)
                            \cup Accountability(today, wordToday)
          IN  verdict' = [reason |-> VerdictFor(failed), shown |-> shown, pinned |-> pinned,
                          heard |-> {m \in Reached(today) \cap honest : Record(today[m]).effective # Never}]
    /\ UNCHANGED <<vars, artifact, renewal, chain>>

ANext ==
    /\ verdict = NoVerdict
    /\ \/ Verify
       \/ /\ \/ Time \/ News \/ Word \/ Make \/ Recording \/ Lodge \/ Acknowledge
             \/ \E w \in Faithful : Read(w) \/ Cosign(w)
          /\ UNCHANGED verdict

ASpec == AInit /\ [][ANext]_avars

----------------------------------------------------------------------------
Fine == verdict.reason = "fine"

\* Fine is not said of a signature that a status recorded longer ago than the
\* verifier's tolerance would have spoiled, were it the first of its credential,
\* whatever head the venue shows and a minority of the witnesses sign (witnessedAsOf)
FineAsOf ==
    Fine /\ verdict.pinned =>
        \A i \in FirstStatus(Len(ledger)) :
            ledger[i].at + Staleness < now => ledger[i].from > artifact.at

\* Fine is said of a load still to be delivered as required by an honest insurer: it
\* stays covered up to the day of delivery, whatever that insurer files later, and
\* however many mirrors lie (renewalWindow, satisfiesRenewal in verifyArtifact)
FineIsCovered == Fine /\ Insurer \in honest => Day(Delivery) <= filed.effective

\* "One honest word later convicts it" (artifact.ts:220): a mirror in the artifact
\* that claimed a sync on a day after the registry had received the cancellation,
\* and did not show it, is named as soon as one honest word shows it
LieConvicted ==
    verdict # NoVerdict /\ verdict.heard # {}
    /\ (\E m \in Embedded : /\ Record(artifact.attestations[m]).effective = Never
                            /\ Day(received) < Day(artifact.attestations[m].sync))
    => verdict.reason = "REGISTRY_FALSE_ATTESTATION"

\* A mirror is named only if one has lied, or the registry has lagged behind the
\* insurer's own filing; the insurer only if it has lied (verdictFor)
ConvictedLied ==
    /\ verdict.reason = "REGISTRY_FALSE_ATTESTATION" /\ Embedded \subseteq honest
       => filed.filed < Day(received)
    /\ verdict.reason = "INSURER_FALSE_ATTESTATION" => Insurer \notin honest

\* What is said to be fine is so, as of what the witnesses have cosigned and whatever
\* the insurer files later; a mirror that lied is named as soon as one honest word
\* shows it, and nobody is named who has not lied (verifyArtifact, verdictFor)
VerdictIsJust == FineAsOf /\ FineIsCovered /\ LieConvicted /\ ConvictedLied

\* Fine is not said of a signature under a key that is declared compromised as of an
\* earlier time in the list the verifier holds (artifact.ts:368-371)
CompromiseSeen ==
    Fine => \A i \in 1 .. verdict.shown : ledger[i].from > artifact.at

\* What is merely uncertain names no culprit (artifact.ts:592-597)
UncertainIsNotBlame == verdict.reason # "CREDENTIAL_ISSUER_INVALID"

\* A commitment the registries contradict is one that they contradicted when it was
\* made (artifact.ts:205-209)
ContradictionPredates ==
    verdict.reason = "REGISTRY_CONTRADICTS_COMMITMENT" => received <= artifact.at
=============================================================================
