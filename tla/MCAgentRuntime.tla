--------------------------- MODULE MCAgentRuntime ---------------------------
(***************************************************************************)
(* The agents: a behaviour is one of a session of an agent with the venue   *)
(* (AgentRuntime: a load to tender and one tendered to it), one of the      *)
(* bargaining over a load (Bargain), one of the venue's keys (VenueKeys), of *)
(* an agent following them (VenuePin), or of an agent's own key (AgentKeys), *)
(* the others standing still.                                               *)
(*                                                                         *)
(* The venue of VenueKeys has one commitment and one credential; its         *)
(* operational key is rotated twice and its root once, each retired or       *)
(* declared compromised as of any time, and it crashes once, at any of a     *)
(* rotation's writes.                                                      *)
(***************************************************************************)
EXTENDS AgentRuntime, MCBargain

CONSTANTS ours, theirs, VenueRounds, ModelRounds, Miles,
          MaxEvents, MaxStarts, MaxAsked, MaxKeys, MaxKeyFaults,
          MaxVenueKeys, MaxVenueRoots, MaxVenueTime, MaxCrashes

\* Events of the venue's keys are counted (MaxEvents of VenuePin)
ASSUME EventsAssumption == MaxEvents \in Nat

\* The venue's clock starts at 1 (VenueKeys)
ASSUME VenueTimeAssumption == MaxVenueTime \in Nat \ {0}

\* So are miles
ASSUME MilesAssumption == Miles \in Nat

VARIABLES part, ctx, limits, models, guaranteed, task, inbox, offered, last, judged,
          published, pinned, keys, asked, heard, starts,
          credential, spent, disk, mem, waiting, calls, replies, generated,
          keyFaults, replayed, again,
          venueClock, ring, keyFile, nextFile, pending, order, journal, step, ledger,
          venueCredential, store, venueMem, mode, crashes

\* Two rounds for the load it tenders, one for the other
Rounds == [t \in Tasks |-> IF t = ours THEN 2 ELSE 1]

Deal == INSTANCE Bargain WITH
    wire <- offered, MaxRounds <- VenueRounds, Brokers <- MCBrokers,
    Carriers <- MCCarriers, MandatesOf <- MCMandates, ModelReplies <- MCReplies
Pin == INSTANCE VenuePin
Own == INSTANCE AgentKeys WITH MaxFaults <- MaxKeyFaults, faults <- keyFaults
Ring == INSTANCE VenueKeys WITH
    now <- venueClock, credential <- venueCredential, mem <- venueMem,
    MaxKeys <- MaxVenueKeys, MaxRoots <- MaxVenueRoots, MaxTime <- MaxVenueTime

deal == <<ctx, limits, models, guaranteed, task, inbox, offered, last, judged>>
pin  == <<published, pinned, keys, asked, heard, starts>>
own  == <<credential, spent, disk, mem, waiting, calls, replies, generated,
          keyFaults, replayed, again>>
venueKeys == <<venueClock, ring, keyFile, nextFile, pending, order, journal, step,
               ledger, venueCredential, store, venueMem, mode, crashes>>

\* The others stand as they begin, beside one bargain that never starts
MCInit ==
    /\ Init /\ Pin!Init /\ Own!Init /\ Ring!Init
    /\ part \in {"session", "bargain", "pin", "own", "venue"}
    /\ IF part = "bargain" THEN Deal!Init
       ELSE /\ ctx = <<>> /\ limits = <<>> /\ models = {} /\ guaranteed = FALSE
            /\ task = [state |-> "none"] /\ inbox = [type |-> "none"] /\ offered = inbox
            /\ last = <<>> /\ judged = {}

MCNext ==
    \/ part = "session" /\ Next /\ UNCHANGED <<part, deal, pin, own, venueKeys>>
    \/ part = "bargain" /\ Deal!Next /\ UNCHANGED <<part, vars, pin, own, venueKeys>>
    \/ part = "pin" /\ Pin!Next /\ UNCHANGED <<part, vars, deal, own, venueKeys>>
    \/ part = "own" /\ Own!Next /\ UNCHANGED <<part, vars, deal, pin, venueKeys>>
    \/ part = "venue" /\ Ring!Next /\ UNCHANGED <<part, vars, deal, pin, own>>

MCSpec == MCInit /\ [][MCNext]_<<part, vars, deal, pin, own, venueKeys>>

\* Of the bargaining, as stated in Bargain: the deal is one both principals can
\* live with, its pickup one both can make, and no party refuses its own offer
\* (maxPay, economics, windowsOk, onAcceptRequest)
DealHonoured == Deal!DealWithinEconomics /\ Deal!PickupHonoured /\ Deal!HonoursItsOffer

\* The keys of both ends.  As stated in VenuePin: the pin keeps up with the venue's
\* root, the keys the venue vouches for are known, and one declared compromised
\* stays refused (refreshVenueKeys, repinIfRotated, walkRootLog).  As stated in
\* AgentKeys: the proof of control is not wasted, and the key of the venue's
\* credential is in the agent's files (onboard, rotateSubmit)
KeysFollowed == Pin!FollowsVenue /\ Own!KeepsItsIdentity

\* As stated in VenueKeys: what the venue signs with is certified by its root, what
\* it has signed stays trusted, its chain verifies with the ring it shows, and the
\* ring follows the ledger (applyKeyRotation, install, suspectSeqs, recover)
SignaturesTrusted ==
    /\ Ring!SignerTrusted /\ Ring!StillTrusted
    /\ Ring!ChainVerifies /\ Ring!RingFollowsLedger
=============================================================================
