------------------------------- MODULE Vetting -------------------------------
(***************************************************************************)
(* What the venue asks of its vetting provider about one company            *)
(* (identity/vetting-carrierok.ts, identity/vetting.ts) before it posts a    *)
(* code to the company's mailbox (controlChallenge, venue/service.ts) and     *)
(* before it issues or rotates a credential (identity/issuer.ts).             *)
(*                                                                         *)
(* The provider's record changes whenever it likes.  An answer takes its       *)
(* time: the record it tells of is read some time before the answer is kept,    *)
(* and then it is used again for a while.  Of the signals in a record there     *)
(* are those that may block, and whether others share the mailbox; the           *)
(* flags, which nothing is decided by, are left out.                            *)
(***************************************************************************)
EXTENDS Naturals

CONSTANTS
    Requests,           \* requests at the venue at one time
    Policy,             \* grounds that the policy lets block, but the risk score
    RiskScoresSet,      \* is VETTING_BLOCK_RISK set?
    AllowOnUnreachable, \* VETTING_ALLOW_ON_UNREACHABLE
    CacheTtl,           \* how long an answer is used again
    Timeout,            \* how long an answer is waited for
    MaxNow,             \* bound: the clock
    MaxChanges          \* bound: changes of the provider's record

VARIABLES
    clock,
    record,   \* the provider's, now
    past,     \* history: [0 .. MaxNow -> the provider's records in that moment]
    cache,    \* the answer kept, and since when
    asked,    \* [Requests -> request waiting for an answer]
    acted,    \* history: what the last step posted or issued, when, and whether on no answer
    changes

vettingVars == <<clock, record, past, cache, asked, acted, changes>>

Risky == "risk-score"
Grounds == Policy \cup {Risky}
Record == [listed : BOOLEAN, grounds : SUBSET Grounds, shared : BOOLEAN]
Kinds == {"post", "issue"}

NoAnswer == [kind |-> "unreachable", block |-> ~AllowOnUnreachable, shared |-> "unknown"]
NotFound == [kind |-> "not-found", block |-> TRUE, shared |-> "unknown"]
Thrown == [kind |-> "thrown", block |-> TRUE, shared |-> "unknown"]
NotCached == [kind |-> "none"]
Idle == [kind |-> "none"]

VettingInit ==
    /\ clock = 0 /\ changes = 0
    /\ record \in Record
    /\ past = [t \in 0 .. MaxNow |-> IF t = 0 THEN {record} ELSE {}]
    /\ cache = NotCached /\ acted = {}
    /\ asked = [r \in Requests |-> Idle]

----------------------------------------------------------------------------
(* The provider *)

Change ==
    /\ changes < MaxChanges /\ changes' = changes + 1
    /\ record' \in Record \ {record}
    /\ past' = [past EXCEPT ![clock] = @ \cup {record'}]
    /\ acted' = {}
    /\ UNCHANGED <<clock, cache, asked>>

\* Nobody is waited for any longer than the timeout
Tick ==
    /\ clock < MaxNow /\ clock' = clock + 1
    /\ \A r \in Requests : asked[r] # Idle => clock' <= asked[r].at + Timeout
    /\ past' = [past EXCEPT ![clock'] = {record}]
    /\ acted' = {}
    /\ UNCHANGED <<record, cache, asked, changes>>

\* The provider looks its record up for a request
Read(r) ==
    /\ asked[r].kind \in Kinds /\ asked[r].said = {}
    /\ asked' = [asked EXCEPT ![r].said = {record}]
    /\ acted' = {}
    /\ UNCHANGED <<clock, record, past, cache, changes>>

----------------------------------------------------------------------------
(* An assessment *)

BlocksOn(rec) == rec.grounds \cap Policy # {}

\* map.  The grounds are gone through in order and the risk score comes last
\* but one: with no list of scores it is looked up in, this throws
Assessed(rec) ==
    IF ~rec.listed THEN NotFound
    ELSE IF ~BlocksOn(rec) /\ ~RiskScoresSet THEN Thrown
    ELSE [kind |-> "assessed", block |-> BlocksOn(rec) \/ Risky \in rec.grounds,
          shared |-> IF rec.shared THEN "shared" ELSE "exclusive"]

Cached == cache # NotCached /\ clock < cache.at + CacheTtl

\* No answer is no answer about the company, and is not kept
Kept(v) == v.kind \in {"assessed", "not-found"}

\* controlChallenge: with no word on who shares the mailbox, the code goes out
Posts(v) == v.shared # "shared"
\* issue, and rotate likewise: what does not block does, whoever shares the mailbox
Issues(v) == v.kind # "thrown" /\ ~v.block

\* The handler goes on with the answer
ActOn(kind, v) ==
    acted' = IF (kind = "post" /\ Posts(v)) \/ (kind = "issue" /\ Issues(v))
             THEN {[kind |-> kind, at |-> clock, unheard |-> v = NoAnswer]}
             ELSE {}

\* A request comes to its vetting.  With an answer at hand it goes on
Ask(r, kind) ==
    /\ asked[r] = Idle
    /\ \/ Cached /\ ActOn(kind, cache.answer) /\ UNCHANGED asked
       \/ /\ ~Cached
          /\ asked' = [asked EXCEPT ![r] = [kind |-> kind, at |-> clock, said |-> {}]]
          /\ acted' = {}
    /\ UNCHANGED <<clock, record, past, cache, changes>>

Goes(r, v) ==
    /\ ActOn(asked[r].kind, v)
    /\ cache' = IF Kept(v) THEN [kind |-> "kept", at |-> clock, answer |-> v] ELSE cache
    /\ asked' = [asked EXCEPT ![r] = Idle]
    /\ UNCHANGED <<clock, record, past, changes>>

Answer(r) ==
    /\ asked[r].kind \in Kinds
    /\ \E rec \in asked[r].said : Goes(r, Assessed(rec))

\* Not reached, rate-limited, an error, or too late
Fails(r) == asked[r].kind \in Kinds /\ Goes(r, NoAnswer)

VettingNext ==
    \/ Change \/ Tick
    \/ \E r \in Requests :
        \/ \E kind \in Kinds : Ask(r, kind)
        \/ Read(r) \/ Answer(r) \/ Fails(r)

----------------------------------------------------------------------------
(* Properties *)

\* The records of the last while before a moment
Lately(t) == UNION {past[u] : u \in {w \in 0 .. t : t <= w + CacheTtl + Timeout}}

\* Unless the provider could not be heard, a code that is posted and a credential
\* that is issued rest on a record that it held a moment ago: one that shared the
\* mailbox with nobody, or named no ground to refuse.  Answers under way, kept
\* ones and a record that changes meanwhile make it no older than the time an
\* answer is kept and waited for (assess, controlChallenge, issue).
VettedLately ==
    \A a \in acted : a.unheard \/ \E rec \in Lately(a.at) :
        IF a.kind = "post" THEN ~rec.listed \/ ~rec.shared
        ELSE rec.listed /\ rec.grounds = {}

\* vetting-carrierok.ts:23, of a mailbox others share "the venue refuses to send
\* rather than manufacture a proof worth nothing"
NoProofWorthNothing ==
    \A a \in acted : a.kind = "post" => \E rec \in Lately(a.at) : ~rec.listed \/ ~rec.shared
=============================================================================
