---------------------------- MODULE Underwriting ----------------------------
(***************************************************************************)
(* The underwriting engine (src/underwriting/engine.ts, claims.ts): what a *)
(* guarantee holds on the books, the claims against it, and the reserve    *)
(* that pays them.                                                         *)
(*                                                                         *)
(* The engine works in memory and writes its files one after another, each *)
(* of them atomically.  Nothing it does awaits, so an operation is one     *)
(* action on memory followed by its writes, and only a crash comes between *)
(* two writes: memory is then what the files say.                          *)
(*                                                                         *)
(* Attaching and releasing with the commitment are carried out again from  *)
(* the venue's journal (VenueCommit); completion and claims are not.       *)
(***************************************************************************)
EXTENDS Integers, Sequences, FiniteSetsExt

CONSTANTS
    Guarantees,    \* one per commitment, and named after it
    Carriers,
    CarrierOf,     \* [Guarantees -> Carriers]: whose identity is guaranteed
    Covered,       \* [Guarantees -> covered amount]
    Premium,       \* of a guarantee
    Amounts,       \* amounts claimed, or paid by decision of the operator
    Capital,       \* params.initialCapitalUsd
    CarrierLimit,  \* params.maxCounterpartyExposureUsd
    VenueLimit,    \* params.maxPortfolioExposureUsd
    MaxClaims,     \* bound: claims filed
    MaxCapital,    \* bound: capital the operator puts in
    MaxCrashes     \* bound: times the venue dies

ASSUME GuaranteesAssumption ==
    /\ CarrierOf \in [Guarantees -> Carriers]
    /\ Covered \in [Guarantees -> Nat] /\ Premium \in Nat
    /\ Amounts \subseteq Nat \ {0}
ASSUME LimitsAssumption ==
    /\ Capital \in Nat /\ CarrierLimit \in Nat /\ VenueLimit \in Nat
    /\ MaxClaims \in Nat /\ MaxCapital \in Nat /\ MaxCrashes \in Nat

VARIABLES
    book,       \* [Guarantees -> its entry in the carrier's exposure book]
    guarantee,  \* [Guarantees -> the record: status, and why released]
    claims,     \* claims in the order they were filed
    reserve,    \* capital, premiums earned, payouts made
    portfolio,  \* sum of what is covered, in memory only
    disk,       \* the four files that hold the first four
    pending,    \* files and ledger entries still to be written, in order
    settling,   \* next claim the settling of deferred claims looks at, or 0
    journal,    \* [Guarantees -> kind of the commitment's open journal]
    committed,  \* commitments on the ledger
    voided,     \* commitments with a VOID on the ledger
    overdue,    \* commitments whose claim window has passed
    chain,      \* CLAIM and PAYOUT entries on the ledger
    crashes     \* crashes so far

engineVars == <<book, guarantee, claims, reserve, portfolio>>
venueVars  == <<journal, committed, voided, overdue>>
vars == <<engineVars, disk, pending, settling, venueVars, chain, crashes>>

Statuses == {"none", "ATTACHED", "CLAIMABLE", "RELEASED"}
Reasons  == {"none", "void", "window", "claim"}
Books    == {"none", "held", "released"}
Claim    == [of : Guarantees, payout : Nat,
             status : {"DENIED", "DEFERRED", "PAID"}, by : {"rules", "ops"},
             paid : {"no", "filed", "later"}]
Reserve  == [capital : Nat, premiums : Nat, payouts : Nat]
Files    == {"book", "guarantees", "claims", "reserve"}
Entries  == {"CLAIM", "PAYOUT"} \X Nat

OnFile == [book |-> book, guarantees |-> guarantee,
           claims |-> claims, reserve |-> reserve]

TypeOK ==
    /\ book \in [Guarantees -> Books]
    /\ guarantee \in [Guarantees -> [status : Statuses, why : Reasons]]
    /\ claims \in Seq(Claim)
    /\ \A k \in 1 .. Len(claims) : claims[k].payout <= Covered[claims[k].of]
    /\ reserve \in Reserve
    /\ portfolio \in Int
    /\ disk \in [book : [Guarantees -> Books],
                 guarantees : [Guarantees -> [status : Statuses, why : Reasons]],
                 claims : Seq(Claim), reserve : Reserve]
    /\ pending \in Seq((Files \X {0}) \cup Entries)
    /\ settling \in 0 .. MaxClaims + 1
    /\ journal \in [Guarantees -> {"none", "COMMIT", "VOID"}]
    /\ committed \subseteq Guarantees /\ voided \subseteq committed
    /\ overdue \subseteq Guarantees
    /\ chain \in Seq(Entries)
    /\ crashes \in 0 .. MaxCrashes

Init ==
    /\ book = [g \in Guarantees |-> "none"]
    /\ guarantee = [g \in Guarantees |-> [status |-> "none", why |-> "none"]]
    /\ claims = <<>>
    /\ reserve = [capital |-> Capital, premiums |-> 0, payouts |-> 0]
    /\ portfolio = 0
    /\ disk = OnFile
    /\ pending = <<>> /\ settling = 0
    /\ journal = [g \in Guarantees |-> "none"]
    /\ committed = {} /\ voided = {} /\ overdue = {}
    /\ chain = <<>> /\ crashes = 0

----------------------------------------------------------------------------
\* The sum of a column of the records, over some of them
Total(f, set) == MapThenSumSet(LAMBDA x : f[x], set)

CoveredBy(set) == Total(Covered, set)

Attached(records) == {g \in Guarantees : records[g].status = "ATTACHED"}

\* Guarantees on which the venue may still have to pay
Outstanding(records) ==
    {g \in Guarantees : records[g].status \in {"ATTACHED", "CLAIMABLE"}}

\* What the exposure book says is outstanding of a carrier
Exposure(c) == CoveredBy({g \in Guarantees : CarrierOf[g] = c /\ book[g] = "held"})

Available(r) == r.capital + r.premiums - r.payouts

Quiet == pending = <<>> /\ settling = 0

\* An operation starts: none is in progress, and recovery is over
Serving == Quiet /\ \A g \in Guarantees : journal[g] = "none"

\* Mutants: the claims, or the reserve, are written first
PersistedClaimsFirst == <<<<"claims", 0>>, <<"guarantees", 0>>, <<"reserve", 0>>>>

\* persist(): the engine's own files, in this order
Persisted == <<<<"guarantees", 0>>, <<"claims", 0>>, <<"reserve", 0>>>>

\* Mutant: the book is written last
BookedLast == Persisted \o <<<<"book", 0>>>>

\* The exposure books are written as soon as they change
Booked == <<<<"book", 0>>>> \o Persisted

----------------------------------------------------------------------------
(* With the commitment: quote, attach, complete, release                   *)

\* The quote at the commitment; it consumes nothing
Quoted(g) ==
    /\ Exposure(CarrierOf[g]) + Covered[g] <= CarrierLimit
    /\ portfolio + Covered[g] <= VenueLimit

\* A commitment that carries a guarantee passes its commit point
Commit(g) ==
    /\ Serving
    /\ g \notin committed
    /\ Quoted(g)
    /\ committed' = committed \cup {g}
    /\ journal' = [journal EXCEPT ![g] = "COMMIT"]
    /\ UNCHANGED <<engineVars, disk, pending, settling, voided, overdue,
                   chain, crashes>>

\* Idempotent: a guarantee on record is left as it is
Attach(g) ==
    /\ journal[g] = "COMMIT" /\ pending = <<>>
    /\ guarantee[g].status = "none"
    /\ book' = [book EXCEPT ![g] = IF @ = "none" THEN "held" ELSE @]
    /\ guarantee' = [guarantee EXCEPT ![g].status = "ATTACHED"]
    /\ reserve' = [reserve EXCEPT !.premiums = @ + Premium]
    /\ portfolio' = portfolio + Covered[g]
    /\ pending' = Booked
    /\ UNCHANGED <<claims, disk, settling, venueVars, chain, crashes>>

\* The load is delivered and accepted: claimable until the window closes
Complete(g) ==
    /\ Serving
    /\ g \in committed \ voided
    /\ guarantee[g].status = "ATTACHED"
    /\ guarantee' = [guarantee EXCEPT ![g].status = "CLAIMABLE"]
    /\ pending' = Persisted
    /\ UNCHANGED <<book, claims, reserve, portfolio, disk, settling, venueVars,
                   chain, crashes>>

\* A guarantee given back, once: the book's entry, the record, the portfolio
Released(g, reason) ==
    IF g \in Outstanding(guarantee)
    THEN /\ book' = [book EXCEPT ![g] = "released"]
         /\ guarantee' = [guarantee EXCEPT ![g] = [status |-> "RELEASED", why |-> reason]]
         /\ portfolio' = portfolio - Covered[g]
    ELSE UNCHANGED <<book, guarantee, portfolio>>

\* A VOID passes its commit point: of a load not picked up, or, by a check that
\* does not look again (VenueCommit, CheckVoid), of a later one
Void(g) ==
    /\ Serving
    /\ g \in committed \ voided
    /\ voided' = voided \cup {g}
    /\ journal' = [journal EXCEPT ![g] = "VOID"]
    /\ UNCHANGED <<engineVars, disk, pending, settling, committed, overdue,
                   chain, crashes>>

Release(g) ==
    /\ journal[g] = "VOID" /\ pending = <<>>
    /\ g \in Outstanding(guarantee)
    /\ Released(g, "void")
    /\ pending' = Booked
    /\ UNCHANGED <<claims, reserve, disk, settling, venueVars, chain, crashes>>

\* The transaction is applied: its journal is deleted
DeleteJournal(g) ==
    /\ pending = <<>>
    /\ \/ journal[g] = "COMMIT" /\ guarantee[g].status # "none"
       \/ journal[g] = "VOID" /\ g \notin Outstanding(guarantee)
    /\ journal' = [journal EXCEPT ![g] = "none"]
    /\ UNCHANGED <<engineVars, disk, pending, settling, committed, voided,
                   overdue, chain, crashes>>

----------------------------------------------------------------------------
(* Claims                                                                  *)

\* Time passes: the claim window after the scheduled delivery is over
WindowPasses(g) ==
    /\ g \in committed \ overdue
    /\ overdue' = overdue \cup {g}
    /\ UNCHANGED <<engineVars, disk, pending, settling, journal, committed,
                   voided, chain, crashes>>

\* A covered claim waits for capital
OpenClaim(g) == \E k \in 1 .. Len(claims) :
                   claims[k].of = g /\ claims[k].status = "DEFERRED"

\* The sweep releases what is claimable no longer, one guarantee at a time
ExpireClaimWindow(g) ==
    /\ Serving
    /\ guarantee[g].status = "CLAIMABLE" /\ g \in overdue
    /\ ~OpenClaim(g)
    /\ Released(g, "window")
    /\ pending' = Booked
    /\ UNCHANGED <<claims, reserve, disk, settling, venueVars, chain, crashes>>

\* Mutant: the reserve is not asked
PayableAlways(payout) == TRUE

\* The reserve can bear the payout
Payable(payout) == payout <= Available(reserve)

\* Claim k, decided, is settled: paid, or deferred if the reserve is short.
\* A payment releases the guarantee, unless that has happened before
Settle(k, decided, covered) ==
    LET pays == covered /\ Payable(decided.payout) IN
    /\ claims' = [i \in 1 .. Len(claims) \cup {k} |->
                     IF i # k THEN claims[i]
                     ELSE [decided EXCEPT
                             !.status = IF pays THEN "PAID"
                                        ELSE IF covered THEN "DEFERRED" ELSE "DENIED",
                             !.paid = IF ~pays THEN "no"
                                      ELSE IF k > Len(claims) THEN "filed" ELSE "later"]]
    /\ IF pays
       THEN /\ reserve' = [reserve EXCEPT !.payouts = @ + decided.payout]
            /\ Released(decided.of, "claim")
       ELSE UNCHANGED <<reserve, book, guarantee, portfolio>>

Capped(g, amount) == IF guarantee[g].status = "none" THEN 0
                     ELSE IF amount <= Covered[g] THEN amount ELSE Covered[g]

\* Beneficiary, peril or the principal's own doing may also bar a claim
RulesCover(g, barred) ==
    g \in Outstanding(guarantee) /\ g \notin overdue /\ ~barred

Recorded(k) == IF claims'[k].status = "PAID"
               THEN <<<<"CLAIM", k>>, <<"PAYOUT", k>>>>
               ELSE <<<<"CLAIM", k>>>>

\* A party files a claim: adjudicated, settled, written, then put on the ledger
FileClaim(g, amount, barred) ==
    /\ Serving
    /\ Len(claims) < MaxClaims
    /\ g \in committed
    /\ LET k == Len(claims) + 1
           covered == RulesCover(g, barred)
           payout == IF covered THEN Capped(g, amount) ELSE 0
       IN  /\ Settle(k, [of |-> g, payout |-> payout,
                         status |-> "DENIED", by |-> "rules", paid |-> "no"], covered)
           /\ pending' = Booked \o Recorded(k)
    /\ UNCHANGED <<disk, settling, venueVars, chain, crashes>>

\* The operator overrides the rules on a claim that is not paid
DecideClaim(k, covered, amount) ==
    /\ Serving
    /\ k \in 1 .. Len(claims)
    /\ claims[k].status # "PAID"
    /\ Settle(k, [claims[k] EXCEPT !.by = "ops", !.payout =
                    IF covered THEN Capped(claims[k].of, amount) ELSE 0], covered)
    /\ pending' = Booked
    /\ UNCHANGED <<disk, settling, venueVars, chain, crashes>>

\* The operator adds capital, and deferred claims are looked at in turn
AddCapital(usd) ==
    /\ Serving
    /\ reserve.capital + usd <= MaxCapital
    /\ reserve' = [reserve EXCEPT !.capital = @ + usd]
    /\ pending' = Persisted
    /\ settling' = 1
    /\ UNCHANGED <<book, guarantee, claims, portfolio, disk, venueVars,
                   chain, crashes>>

\* Mutant: settling ends at the first claim that is still too large
SettleNextInOrder ==
    /\ settling \in 1 .. Len(claims) /\ pending = <<>>
    /\ IF claims[settling].status # "DEFERRED"
       THEN settling' = settling + 1 /\ UNCHANGED <<engineVars, pending>>
       ELSE IF ~Payable(claims[settling].payout)
            THEN settling' = Len(claims) + 1 /\ UNCHANGED <<engineVars, pending>>
            ELSE /\ Settle(settling, claims[settling], TRUE)
                 /\ settling' = settling + 1
                 /\ pending' = Booked
    /\ UNCHANGED <<disk, venueVars, chain, crashes>>

\* A payment is written when it releases the guarantee, else at the end
SettleNext ==
    /\ settling \in 1 .. Len(claims) /\ pending = <<>>
    /\ settling' = settling + 1
    /\ IF claims[settling].status = "DEFERRED"
       THEN /\ Settle(settling, claims[settling], TRUE)
            /\ pending' = IF guarantee' = guarantee THEN <<>> ELSE Booked
       ELSE UNCHANGED <<engineVars, pending>>
    /\ UNCHANGED <<disk, venueVars, chain, crashes>>

SettleEnd ==
    /\ settling > Len(claims) /\ pending = <<>>
    /\ settling' = 0
    /\ pending' = Persisted
    /\ UNCHANGED <<engineVars, disk, venueVars, chain, crashes>>

----------------------------------------------------------------------------
(* Writes, and what a crash leaves of them                                 *)

Write ==
    /\ pending # <<>>
    /\ LET file == Head(pending)[1] IN
       IF file \in Files
       THEN disk' = [disk EXCEPT ![file] = OnFile[file]] /\ UNCHANGED chain
       ELSE chain' = Append(chain, Head(pending)) /\ UNCHANGED disk
    /\ pending' = Tail(pending)
    /\ UNCHANGED <<engineVars, settling, venueVars, crashes>>

\* The venue dies and is started again: the constructor reads the files and
\* counts the ATTACHED guarantees into the portfolio
Crash ==
    /\ crashes < MaxCrashes
    /\ crashes' = crashes + 1
    /\ book' = disk.book /\ guarantee' = disk.guarantees
    /\ claims' = disk.claims /\ reserve' = disk.reserve
    /\ portfolio' = CoveredBy(Attached(disk.guarantees))
    /\ pending' = <<>> /\ settling' = 0
    /\ UNCHANGED <<disk, venueVars, chain>>

Next ==
    \/ \E g \in Guarantees :
          \/ Commit(g) \/ Attach(g) \/ Complete(g)
          \/ Void(g) \/ Release(g) \/ DeleteJournal(g)
          \/ WindowPasses(g) \/ ExpireClaimWindow(g)
          \/ \E amount \in Amounts, barred \in BOOLEAN : FileClaim(g, amount, barred)
    \/ \E k \in 1 .. MaxClaims, covered \in BOOLEAN, amount \in Amounts :
          DecideClaim(k, covered, amount)
    \/ \E usd \in Amounts : AddCapital(usd)
    \/ SettleNext \/ SettleEnd
    \/ Write \/ Crash

Spec == Init /\ [][Next]_vars

----------------------------------------------------------------------------
(* Properties                                                              *)

\* "Never paid from nothing": what was paid out never exceeds the capital and
\* the premiums, in memory and in what a restart would read (settle, persist)
ReserveBears == Available(reserve) >= 0 /\ Available(disk.reserve) >= 0

\* No exposure leaks: between operations, and after a crash between any two
\* files, a commitment on the ledger has its guarantee and its entry in the
\* carrier's book, and a guarantee given back has its entry given back; the
\* book is exact as long as no crash came between (attach, release, recover)
ExposureComesBack ==
    Serving => \A g \in Guarantees :
        /\ g \in committed <=> guarantee[g].status # "none"
        /\ g \in committed <=> book[g] # "none"
        /\ g \notin Outstanding(guarantee) => book[g] # "held"
        /\ crashes = 0 /\ g \in Outstanding(guarantee) => book[g] = "held"

OutstandingOf(c) == {g \in Outstanding(guarantee) : CarrierOf[g] = c}

\* The limits cap the tail: what the book holds of a carrier never exceeds its
\* limit and, as long as the venue was not restarted, neither does what it may
\* have to pay, of a carrier and in all (quote at the commitment, attach)
LimitsHold ==
    /\ \A c \in Carriers : Exposure(c) <= CarrierLimit
    /\ crashes = 0 =>
          /\ \A c \in Carriers : CoveredBy(OutstandingOf(c)) <= CarrierLimit
          /\ CoveredBy(Outstanding(guarantee)) <= VenueLimit

\* Of the claims on one guarantee the rules pay one at most when it is filed,
\* also if the venue dies between the files of that payment (fileClaim, release)
PaidOnceWhenFiled ==
    \A i, j \in 1 .. Len(claims) :
        /\ claims[i].of = claims[j].of
        /\ claims[i].paid = "filed" /\ claims[j].paid = "filed"
        => i = j

Paid == {k \in 1 .. Len(claims) : claims[k].status = "PAID"}
PaidOut == Total([k \in Paid |-> claims[k].payout], Paid)
Earned == Premium * Cardinality({g \in Guarantees : guarantee[g].status # "none"})

\* "Premiums in, payouts out": every dollar of the reserve is one of a guarantee
\* attached or a claim paid, and none is missing unless a crash came between the
\* engine's files (attach, settle, persist)
ReserveCounts ==
    Serving =>
        /\ reserve.payouts <= PaidOut /\ reserve.premiums <= Earned
        /\ crashes = 0 => reserve.payouts = PaidOut /\ reserve.premiums = Earned

OnChain(type, k) == \E i \in 1 .. Len(chain) : chain[i] = <<type, k>>

\* The ledger says nothing of claims that the files do not hold: a CLAIM entry
\* is of a claim on file, a PAYOUT entry of a paid one, after its CLAIM entry;
\* without a crash every claim is there (fileClaim of the venue and the engine)
ChainFollowsFiles ==
    /\ \A k \in 1 .. MaxClaims :
          /\ OnChain("CLAIM", k) => k \in 1 .. Len(disk.claims)
          /\ OnChain("PAYOUT", k) =>
                OnChain("CLAIM", k) /\ disk.claims[k].status = "PAID"
    /\ Serving /\ crashes = 0 => \A k \in 1 .. Len(claims) : OnChain("CLAIM", k)

\* A claim the rules cover and the reserve cannot pay keeps its guarantee open:
\* the end of the claim window does not take it away (expireClaimWindows)
DeferredHeldOpen ==
    \A k \in 1 .. Len(claims) :
        claims[k].status = "DEFERRED" /\ claims[k].by = "rules"
        => guarantee[claims[k].of].why # "window"

\* The money and the books of it, together: exposure comes back, the limits hold,
\* and the reserve counts what was earned and paid
SumsAreRight == ExposureComesBack /\ LimitsHold /\ ReserveCounts

\* Claims, together: the rules pay one at most, the ledger follows the files, and
\* a deferred one holds its guarantee
ClaimsAreRight == PaidOnceWhenFiled /\ ChainFollowsFiles /\ DeferredHeldOpen

\* When capital was added, every deferred claim the reserve can then bear has
\* been paid: a large one does not keep smaller ones waiting (settleDeferred)
CapitalGoesToClaims ==
    [][settling # 0 /\ settling' = 0 /\ UNCHANGED crashes =>
        \A k \in 1 .. Len(claims) :
            claims[k].status = "DEFERRED" => ~Payable(claims[k].payout)]_vars

\* "The venue's per-counterparty and portfolio exposure limits cap the tail":
\* what the venue may have to pay in all stays within the portfolio limit
TailCapped == CoveredBy(Outstanding(guarantee)) <= VenueLimit
============================================================================
