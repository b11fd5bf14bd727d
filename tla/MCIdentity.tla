----------------------------- MODULE MCIdentity -----------------------------
(***************************************************************************)
(* A behaviour is one of a company's keys and credentials (Identity), of what *)
(* the vetting provider says of it (Vetting), of its watchlist (Watchlist), of  *)
(* the venue's process (VenueServer), of its database (VenueStore) or of what  *)
(* the company's agent sends it (Intake), or of the directory of filers        *)
(* (Filers); what the                                                         *)
(* others are about stands still.                                             *)
(*                                                                         *)
(* Identity has a few keys, challenges and one verifier's statement, from      *)
(* a new venue, where the company has made no deal to follow, and from one    *)
(* that it has been onboarded at, with no proof left to it but the statement.  *)
(***************************************************************************)
EXTENDS Identity, TLC

CONSTANTS k1, k2, r1, r2,
    Policy, RiskScoresSet, AllowOnUnreachable, CacheTtl, Timeout, MaxNow, MaxChanges,
    HoursADay, MaxHours, MaxNews,
    Jobs, Callers, Capacity, EvictAfter, MaxBuckets, MaxTicks, MaxEnds,
    Rows, Alive, MaxVersions, MaxFaults,
    MaxFlight, MaxSent, MaxCreds, MaxTroubles,
    m1, m2, Mirrors, Quorum, MaxAge, Pinned, MaxRoots, MaxFilerKeys, MaxRevocations,
    DirectoryTime
\* The row of the heartbeat is one of the rows (persist, venue/state.ts)
ASSUME RowsAssumption == Alive \in Rows /\ MaxVersions \in Nat

\* A day has hours
ASSUME HoursAssumption == HoursADay \in Nat \ {0}

\* A bucket that may be forgotten is full again, at any rate that refills it within
\* a minute (allow, protocol/rpc.ts)
ASSUME RateAssumption ==
    Capacity \in Nat /\ EvictAfter \in Nat /\ EvictAfter >= Capacity

\* Times are numbers (VettingPolicy, identity/vetting-carrierok.ts)
ASSUME VettingAssumption ==
    CacheTtl \in Nat /\ Timeout \in Nat /\ MaxNow \in Nat /\ AllowOnUnreachable \in BOOLEAN

\* Messages are counted (ingest, venue/service.ts)
ASSUME IntakeAssumption == MaxSent \in Nat

\* So are the moments of the directory (filerKeyAt, protocol/registry.ts)
ASSUME DirectoryAssumption == DirectoryTime \in Nat

\* The company that has been onboarded answered the first challenge (Onboarded)
ASSUME OnboardedAssumption == 1 \in Challenges

VARIABLES part,
    clock, record, past, cache, asked, acted, changes,
    hour, live, watched, news, since, sweep, happened,
    stage, running, runs, tick, bucket, window, ends,
    rows, written, disk, legacy, phase, writing, last, failed, faults,
    minute, ahead, creds, spoken, signing, sent, wire, nonces, handling, handled,
    refused, troubles,
    today, truthful, regulator, keys, revocations, signature

Provider == INSTANCE Vetting
News == INSTANCE Watchlist
Process == INSTANCE VenueServer
Store == INSTANCE VenueStore WITH mem <- rows
Taking == INSTANCE Intake WITH now <- minute, agent <- spoken, MaxTime <- MaxFlight
Directory == INSTANCE Filers WITH
    now <- today, honest <- truthful, word <- signature, MaxTime <- DirectoryTime,
    MaxKeys <- MaxFilerKeys

providerVars == <<clock, record, past, cache, asked, acted, changes>>
newsVars == <<hour, live, watched, news, since, sweep, happened>>
processVars == <<stage, running, runs, tick, bucket, window, ends>>
storeVars == <<rows, written, disk, legacy, phase, writing, last, failed, faults>>
intakeVars == <<minute, ahead, creds, spoken, signing, sent, wire, nonces, handling,
                handled, refused, troubles>>
directory == <<today, truthful, regulator, keys, revocations, signature>>

Symmetry == Permutations(Requests) \cup Permutations(Mirrors)

AttestedAt == [a \in Attestations |-> [key |-> k2, expires |-> 2]]

Used(dead) == [key |-> k1, at |-> 1, tries |-> 1, satisfied |-> ~dead, consumed |-> ~dead, dead |-> dead]
Onboarded ==
    [NewVenue EXCEPT !.control.rows = [c \in Challenges |-> Used(c # 1)],
                     !.creds = <<[key |-> k1, proof |-> 1, old |-> None, at |-> 1]>>,
                     !.agent.current = 1]

NoDealAhead == [NoDeal EXCEPT !.state = "failed"]

Good == [listed |-> TRUE, grounds |-> {}, shared |-> FALSE]
Bad == [listed |-> TRUE, grounds |-> Policy, shared |-> TRUE]

IdentityInit ==
    \/ part = "new" /\ StartsWith(NewVenue, NoDealAhead, {})
    \/ part \in {"onboarded", "vetting", "watchlist", "process", "store", "intake",
                 "directory"}
       /\ StartsWith(Onboarded, NoDeal, {<<1, k1>>})

MCInit ==
    /\ IdentityInit /\ News!WatchlistInit /\ Process!ServerInit /\ Store!StoreInit
    /\ part # "store" => legacy = Store!NoFile
    /\ Taking!Init /\ (part # "intake" => ahead = 0)
    /\ Directory!Init /\ (part # "directory" => truthful = {})
    /\ Provider!VettingInit
    /\ record \in {Good} \cup {IF part = "vetting" THEN Bad ELSE Good}

others == <<providerVars, newsVars, processVars, storeVars, intakeVars, directory>>

\* At a new venue nothing is rotated or revoked.
MCNext ==
    /\ UNCHANGED part
    /\ \/ /\ part \in {"new", "onboarded"} /\ Next /\ UNCHANGED others
          /\ part = "new" => /\ \A r \in Requests : request'[r].kind # "rotate"
                             /\ mem'.status = NewVenue.status
       \/ /\ part = "vetting" /\ Provider!VettingNext
          /\ UNCHANGED <<vars, newsVars, processVars, storeVars, intakeVars, directory>>
       \/ /\ part = "watchlist" /\ News!WatchlistNext
          /\ UNCHANGED <<vars, providerVars, processVars, storeVars, intakeVars, directory>>
       \/ /\ part = "process" /\ Process!ServerNext
          /\ UNCHANGED <<vars, providerVars, newsVars, storeVars, intakeVars, directory>>
       \/ /\ part = "store" /\ Store!StoreNext
          /\ UNCHANGED <<vars, providerVars, newsVars, processVars, intakeVars, directory>>
       \/ /\ part = "intake" /\ Taking!Next
          /\ UNCHANGED <<vars, providerVars, newsVars, processVars, storeVars, directory>>
       \/ /\ part = "directory" /\ Directory!Next
          /\ UNCHANGED <<vars, providerVars, newsVars, processVars, storeVars, intakeVars>>

MCSpec == MCInit /\ [][MCNext]_<<part, vars, others>>

\* As stated in Identity: codes are sent and guessed at a bounded rate, a
\* credential's key is one control was proven for, its proof spent with it, and the
\* issuer's files agree (issue of identity/control-store.ts and identity/issuer.ts)
ControlIsProven ==
    /\ CodesRationed /\ GuessesBounded
    /\ KeyProven /\ CredentialSpendsProof /\ FilesAgree

\* As stated in Vetting: what is done on the provider's word rests on a record it
\* held a moment ago (assess, identity/vetting-carrierok.ts).  As stated in
\* Watchlist: no news of a watched company is lost (watchlistSweep).
NewsReachesVenue == Provider!VettedLately /\ News!NoNewsLost

\* As stated in VenueServer: no caller is admitted more often than its bucket and
\* the refill allow (allow, RateLimiter), and each job's next tick runs it again,
\* never twice at once (runNow, Scheduler).  As stated in VenueStore: a venue
\* started again has what it last persisted (commit, venue/db.ts).
ServesAsBefore ==
    /\ Process!AdmittedWithinRate /\ Process!JobsRunAgain
    /\ Store!RestoredAsPersisted

\* Nobody is made to pay for what is none of its doing.  As stated in Intake: what
\* arrives is handled once, and a routine change of key costs no message on its way
\* (ingest, verifyCredential).  As stated in Filers: a mirror of the directory that
\* keeps the rules is never convicted by what others sign (filerContradictedBy)
HonestKeepStanding == Taking!TakenInFairly /\ Directory!FilersNeverAccused

\* As stated in Identity: a rotation voids no deal by itself (prePickupChecks).  As
\* stated in Filers: the signature of a revoked key is refused (filerKeyOfRecord)
KeysInTurn == RotationVoidsNothing /\ Directory!RevokedIsRefused

\* Of the regulator's log: "a rotation is news that cannot be un-known"
\* (registry.ts:422-423)
RegulatorNewsBlocks == Directory!RegulatorNewsBlocks
=============================================================================
