------------------------------ MODULE Identity ------------------------------
(***************************************************************************)
(* Who holds a company's authority at the venue: challenges sent to the    *)
(* contact point on its public record (identity/control-store.ts), proofs   *)
(* of control (protocol/control.ts), the credentials issued and rotated on   *)
(* them (identity/issuer.ts) and the agent registered under a credential     *)
(* (onboard, rotate, controlChallenge and controlVerify, venue/service.ts).  *)
(*                                                                         *)
(* One company.  Its requests wait for the registries and the vetting        *)
(* provider, so that others are served in between.  What a handler changes    *)
(* in one go is written to one file after another.  Of the deals made with    *)
(* the credentials there is one: when its acceptance was signed and under      *)
(* which credential is what a compromise is about.                           *)
(***************************************************************************)
EXTENDS Naturals, Sequences, FiniteSets

CONSTANTS
    Keys,           \* agent keys
    Challenges,     \* ids of challenges: numbers, in the order they are issued
    Attestations,   \* statements of pinned verifiers: numbers, standing for the jti
    Attested,       \* [Attestations -> [key, expires]]
    Requests,       \* requests at the venue at one time
    MaxAttempts,    \* wrong answers before a challenge dies
    Ttl, Cooldown,  \* of a challenge
    Validity,       \* of a credential
    Grace,          \* for what an old key signed before a rotation
    Declared,       \* bound: times from which a key may be declared compromised
    MaxTime,        \* bound: the clock
    MaxCredentials, \* bound: credentials issued
    MaxCrashes      \* bound: crashes of the venue

ASSUME IdentityAssumption ==
    /\ Challenges \cup Attestations \subseteq Nat \ {0} /\ Challenges \cap Attestations = {}
    /\ \A a \in Attestations : Attested[a].key \in Keys
    /\ {MaxAttempts, MaxCredentials} \subseteq Nat \ {0} /\ {Cooldown, Grace} \subseteq Nat

VARIABLES
    now,
    mem,       \* [rows, spent, creds, status, agent] in memory
    files,     \* the same on disk, a file for each but rows and spent: control.json
    unwritten, \* what the handler that runs has yet to do
    request,   \* [Requests -> request waiting for somebody's answer]
    deal,      \* on disk by a transaction of its own: [state, cred, at]
    posted,    \* history: when challenges were posted to the company
    told,      \* history: [Challenges -> wrong answers told to be wrong]
    answered,  \* history: challenges answered with the code, by whoever reads the mailbox
    crashes

history == <<posted, told, answered>>
vars == <<now, mem, files, unwritten, request, deal, history, crashes>>

Proofs == Challenges \cup Attestations
None == 0
Principal == 0      \* a signature with the principal's key, which is no proof to spend
NoRequest == [kind |-> "none"]
NoRow == [key |-> "none"]
Active == [kind |-> "ACTIVE", heir |-> None, grace |-> 0, since |-> None]
Ids == 1 .. MaxCredentials

NewVenue ==
    [control |-> [rows |-> [c \in Challenges |-> NoRow], spent |-> {}],
     creds |-> <<>>, status |-> [i \in Ids |-> Active],
     agent |-> [current |-> None, previous |-> {}]]
NoDeal == [state |-> "none", cred |-> None, at |-> None]

\* A venue with these files and this deal
StartsWith(venue, d, proven) ==
    /\ now = 1 /\ crashes = 0
    /\ mem = venue /\ files = venue /\ unwritten = <<>>
    /\ request = [r \in Requests |-> NoRequest]
    /\ deal = d
    /\ posted = {} /\ told = [c \in Challenges |-> 0] /\ answered = proven

Init == StartsWith(NewVenue, NoDeal, {})

TypeOK ==
    /\ now \in 1 .. MaxTime /\ crashes \in 0 .. MaxCrashes
    /\ \A f \in {mem, files} :
        /\ f.control.spent \subseteq Attestations
        /\ Len(f.creds) <= MaxCredentials
        /\ f.agent.current \in 0 .. MaxCredentials
    /\ deal.state \in {"none", "agreed", "active", "moving", "voided", "failed"}

Serving == unwritten = <<>>
Issued == DOMAIN mem.creds
Sent == {c \in Challenges : mem.control.rows[c] # NoRow}

\* The handler goes on to write these
Then(m, todo) == mem' = m /\ unwritten' = todo
\* One file, and the answer after it
Saved(control) ==
    /\ mem' = [mem EXCEPT !.control = control]
    /\ files' = [files EXCEPT !.control = control]

----------------------------------------------------------------------------
(* Challenges *)

Counted == Sent

\* cooldownRemainingMs, by the time the request came in
Cooled(at) == \A c \in Counted : at >= mem.control.rows[c].at + Cooldown

\* controlChallenge, for a request that came in at some time and waited until
\* now for the registries and the provider.  Issued, saved and posted
PostChallenge(k, at) ==
    /\ Serving /\ at <= now /\ Cooled(at)
    /\ \E c \in Challenges \ Sent :
        /\ \A d \in Challenges : d < c => d \in Sent
        /\ Saved([mem.control EXCEPT !.rows[c] =
                [key |-> k, at |-> at, tries |-> 0,
                 satisfied |-> FALSE, consumed |-> FALSE, dead |-> FALSE]])
        /\ posted' = posted \cup {<<c, at>>}
    /\ UNCHANGED <<now, unwritten, request, deal, told, answered, crashes>>

Open(row) == ~row.dead /\ ~row.consumed
Expired(row) == row.at + Ttl <= now

\* A right answer satisfies; a wrong one is counted, and the last one kills
Right(row) == [row EXCEPT !.satisfied = TRUE, !.tries = @ + 1]
Wrong(row) == [row EXCEPT !.tries = @ + 1, !.dead = row.tries + 1 >= MaxAttempts]

Verify(c, right) ==
    LET row == mem.control.rows[c]
        Becomes(new) == Saved([mem.control EXCEPT !.rows[c] = new])
    IN  /\ Serving /\ c \in Sent /\ Open(row)
        /\ \/ /\ Expired(row)
              /\ Becomes([row EXCEPT !.dead = TRUE])
              /\ UNCHANGED <<told, answered>>
           \/ /\ ~Expired(row) /\ ~row.satisfied
              /\ Becomes(IF right THEN Right(row) ELSE Wrong(row))
              /\ told' = IF right THEN told ELSE [told EXCEPT ![c] = @ + 1]
              /\ answered' = IF right THEN answered \cup {<<c, row.key>>} ELSE answered
        /\ UNCHANGED <<now, unwritten, request, deal, posted, crashes>>

----------------------------------------------------------------------------
(* Proofs and credentials *)

\* Mutant: a proof for any key will do
BoundToAny(p, k) == TRUE

BoundTo(p, k) ==
    IF p \in Challenges THEN mem.control.rows[p].key = k ELSE Attested[p].key = k

\* evaluateControl.  Of a challenge it reads whether it was answered and
\* whether it was consumed, and no date
EvaluateControl(p, k) ==
    /\ IF p \in Challenges
       THEN /\ p \in Sent
            /\ mem.control.rows[p].satisfied /\ ~mem.control.rows[p].consumed
       ELSE p \notin mem.control.spent /\ now <= Attested[p].expires
    /\ BoundTo(p, k)

Consume(control, p) ==
    IF p \in Challenges THEN [control EXCEPT !.rows[p].consumed = TRUE]
    ELSE [control EXCEPT !.spent = @ \cup {p}]

Unexpired(i) == now < mem.creds[i].at + Validity

\* verifyCredential, of a new presentation
VerifyCredential(i) ==
    /\ i \in Issued /\ Unexpired(i)
    /\ LET st == mem.status[i]
       IN  \/ st = Active
           \/ st.kind = "SUPERSEDED" /\ st.since = None /\ now < st.grace

AlreadyBound(k) ==
    \E i \in Issued : mem.status[i] = Active /\ Unexpired(i) /\ mem.creds[i].key # k

\* issue, up to the vetting
Onboard(r, k, p) ==
    /\ Serving /\ request[r] = NoRequest
    /\ EvaluateControl(p, k) /\ ~AlreadyBound(k)
    /\ request' = [request EXCEPT ![r] = [kind |-> "onboard", key |-> k, proof |-> p, at |-> now]]
    /\ UNCHANGED <<now, mem, files, unwritten, deal, history, crashes>>

\* The proof is spent before the credential is saved
IssueWrites == <<"control", "creds">>

\* issue, after the vetting: a credential, and the proof is spent
Issue(r) ==
    LET q == request[r]
        i == Len(mem.creds) + 1
    IN  /\ Serving /\ q.kind = "onboard" /\ i \in Ids
        /\ Then([mem EXCEPT !.creds = Append(@, [key |-> q.key, proof |-> q.proof,
                                                 old |-> None, at |-> q.at]),
                            !.control = Consume(@, q.proof)],
                IssueWrites)
        /\ request' = [request EXCEPT ![r] = [kind |-> "present", cred |-> i]]
        /\ UNCHANGED <<now, files, deal, history, crashes>>

\* onboard, after the insurer's word was checked
Register(r) ==
    /\ Serving /\ request[r].kind = "present"
    /\ Then([mem EXCEPT !.agent = [current |-> request[r].cred, previous |-> {}]], <<"agent">>)
    /\ request' = [request EXCEPT ![r] = NoRequest]
    /\ UNCHANGED <<now, files, deal, history, crashes>>

\* A registry is down, the company is not in standing, the provider blocks
\* it, its insurer's word is refused
Refuse(r) ==
    /\ Serving /\ request[r] # NoRequest
    /\ request' = [request EXCEPT ![r] = NoRequest]
    /\ UNCHANGED <<now, mem, files, unwritten, deal, history, crashes>>

\* rotate, up to the registries: by the principal's signature, or by a proof,
\* which is spent here.  A compromise since some time, or (None) a routine
\* rotation, which as a renewal may keep the key
AskRotation(r, old, k, by, since) ==
    /\ Serving /\ request[r] = NoRequest
    /\ old \in Issued /\ old \in mem.agent.previous \cup {mem.agent.current}
    /\ mem.status[old].kind # "SUPERSEDED"
    /\ since <= now
    /\ since # None => k # mem.creds[old].key
    /\ IF by \in Proofs
       THEN EvaluateControl(by, k) /\ Saved(Consume(mem.control, by))
       ELSE UNCHANGED <<mem, files>>
    /\ request' = [request EXCEPT ![r] = [kind |-> "rotate", key |-> k, proof |-> by,
                      old |-> old, since |-> since, at |-> now]]
    /\ UNCHANGED <<now, unwritten, deal, history, crashes>>

\* issuer.ts: both files, credentials first
IssuerWrites == <<"creds", "status">>

\* rotate, after the vetting: the heir, the old one superseded, the agent's
\* record; a compromise voids what the old key signed since
Rotate(r) ==
    LET q == request[r]
        i == Len(mem.creds) + 1
        compromise == q.since # None
    IN  /\ Serving /\ q.kind = "rotate" /\ i \in Ids
        /\ Then([mem EXCEPT !.creds = Append(@, [key |-> q.key, proof |-> q.proof,
                                                 old |-> q.old, at |-> q.at]),
                            !.status[q.old] = [kind |-> "SUPERSEDED", heir |-> i,
                                grace |-> IF compromise THEN q.at ELSE q.at + Grace,
                                since |-> q.since],
                            !.agent = [current |-> i,
                                       previous |-> @.previous \cup {@.current}]],
                IssuerWrites \o <<"agent">> \o (IF compromise THEN <<"void">> ELSE <<>>))
        /\ request' = [request EXCEPT ![r] = NoRequest]
        /\ UNCHANGED <<now, files, deal, history, crashes>>

\* signatureTrustedAt, by the statuses now on file
SignatureTrustedAt(i, at) ==
    LET st == mem.status[i] IN st.since = None \/ at < st.since

\* The next write of the handler that runs, or its voiding of what is suspect
Write ==
    /\ unwritten # <<>> /\ unwritten' = Tail(unwritten)
    /\ IF Head(unwritten) = "void"
       THEN /\ deal' = IF /\ deal.state = "active"
                          /\ deal.cred = mem.creds[Len(mem.creds)].old
                          /\ ~SignatureTrustedAt(deal.cred, deal.at)
                       THEN [deal EXCEPT !.state = "voided"] ELSE deal
            /\ UNCHANGED files
       ELSE /\ files' = [files EXCEPT ![Head(unwritten)] = mem[Head(unwritten)]]
            /\ UNCHANGED deal
    /\ UNCHANGED <<now, mem, request, history, crashes>>

\* revoke, by the operator or a notice that names the credential
Revoke(i) ==
    /\ Serving /\ i \in Issued
    /\ mem.status[i].kind # "REVOKED"
    /\ mem' = [mem EXCEPT !.status[i] = [Active EXCEPT !.kind = "REVOKED"]]
    /\ files' = [files EXCEPT !.status = mem'.status]
    /\ UNCHANGED <<now, unwritten, request, deal, history, crashes>>

----------------------------------------------------------------------------
(* The deal *)

\* The acceptance comes in, signed now under credential i
Accept(i) ==
    /\ Serving /\ deal.state = "none"
    /\ VerifyCredential(i) /\ i \in mem.agent.previous \cup {mem.agent.current}
    /\ deal' = [state |-> "agreed", cred |-> i, at |-> now]
    /\ UNCHANGED <<now, mem, files, unwritten, request, history, crashes>>

\* commit: the party's current credential is verified
Commit ==
    /\ Serving /\ deal.state = "agreed"
    /\ deal' = [deal EXCEPT !.state =
                    IF VerifyCredential(mem.agent.current) THEN "active" ELSE "failed"]
    /\ UNCHANGED <<now, mem, files, unwritten, request, history, crashes>>

PickUp ==
    /\ Serving /\ deal.state = "active"
    /\ deal' = [deal EXCEPT !.state = "moving"]
    /\ UNCHANGED <<now, mem, files, unwritten, request, history, crashes>>

\* Mutant: the credential that signed, not its successor
CurrentSigning(i) == i

\* currentInLineage
Current(i) ==
    LET Heir[n \in 0 .. MaxCredentials] ==
            [j \in Ids |-> IF n = 0 \/ mem.status[j].heir = None THEN j
                           ELSE Heir[n - 1][mem.status[j].heir]]
    IN  Heir[MaxCredentials][i]

\* prePickupChecks: the current credential and the signature
PrePickupCheck ==
    /\ Serving /\ deal.state = "active"
    /\ \/ ~VerifyCredential(Current(deal.cred))
       \/ ~SignatureTrustedAt(deal.cred, deal.at)
    /\ deal' = [deal EXCEPT !.state = "voided"]
    /\ UNCHANGED <<now, mem, files, unwritten, request, history, crashes>>

----------------------------------------------------------------------------
Tick ==
    /\ Serving /\ now < MaxTime /\ now' = now + 1
    /\ UNCHANGED <<mem, files, unwritten, request, deal, history, crashes>>

\* The venue dies and starts again from its files
Crash ==
    /\ crashes < MaxCrashes /\ crashes' = crashes + 1
    /\ mem' = files /\ unwritten' = <<>>
    /\ request' = [r \in Requests |-> NoRequest]
    /\ UNCHANGED <<now, files, deal, history>>

Rotations(r) ==
    \E old \in Issued, k \in Keys, by \in Proofs \cup {Principal}, since \in {None} \cup Declared :
        AskRotation(r, old, k, by, since)

Next ==
    \/ \E r \in Requests :
        \/ \E k \in Keys, p \in Proofs : Onboard(r, k, p)
        \/ Issue(r) \/ Register(r) \/ Refuse(r)
        \/ Rotations(r) \/ Rotate(r)
    \/ \E k \in Keys, at \in 1 .. MaxTime : PostChallenge(k, at)
    \/ \E c \in Challenges, right \in BOOLEAN : Verify(c, right)
    \/ \E i \in Ids : Revoke(i) \/ Accept(i)
    \/ Commit \/ PickUp \/ PrePickupCheck \/ Write \/ Tick \/ Crash

Spec == Init /\ [][Next]_vars

----------------------------------------------------------------------------
(* Properties *)

\* The codes posted to a company are a cooldown apart, by the time they were
\* asked for, with several requests under way, codes answered, guessed wrong
\* and expired in between, and restarts (controlChallenge, cooldownRemainingMs).
CodesRationed ==
    \A p, q \in posted : p[1] # q[1] => p[2] >= q[2] + Cooldown \/ q[2] >= p[2] + Cooldown

\* Nobody is told more often than MaxAttempts that a code is wrong, with
\* crashes in between (verify, ControlStore).
GuessesBounded == \A c \in Challenges : told[c] <= MaxAttempts

\* A key that a credential on disk binds without the principal's signature is
\* the key a challenge was sent for and answered, or a verifier vouched for
\* (evaluateControl, in onboard and in rotate).
KeyProven ==
    \A i \in DOMAIN files.creds :
        LET c == files.creds[i]
        IN  /\ c.proof \in Challenges => <<c.proof, c.key>> \in answered
            /\ c.proof \in Attestations => Attested[c.proof].key = c.key
            /\ c.proof = Principal => c.old \in 1 .. i - 1

\* Once a credential is on disk the proof it rests on is spent on disk: no
\* crash in a handler brings it back (issue and rotate, identity/issuer.ts).
CredentialSpendsProof ==
    \A i \in DOMAIN files.creds :
        LET p == files.creds[i].proof
        IN  /\ p \in Challenges => files.control.rows[p].consumed
            /\ p \in Attestations => p \in files.control.spent

\* What the files say of each other holds at every crash: a superseded
\* credential names an heir that is there and succeeds it, and the agent is
\* registered under a credential that is there (persist in issuer.ts, onboard
\* and rotate in service.ts).
FilesAgree ==
    /\ \A i \in Ids : files.status[i].kind = "SUPERSEDED" =>
        /\ files.status[i].heir \in DOMAIN files.creds
        /\ files.creds[files.status[i].heir].old = i
    /\ files.agent.current \in DOMAIN files.creds \cup {None}

Suspect ==
    deal.state = "active" /\ mem.status[deal.cred].since \in 1 .. deal.at

\* A rotation voids no deal by itself: one that is voided is voided because a
\* credential was revoked, compromised or has expired (README.md:176,
\* prePickupChecks and currentInLineage).
RotationVoidsNothing ==
    [][deal.state = "active" /\ deal'.state = "voided" =>
        \E i \in Issued : \/ mem.status[i].kind = "REVOKED" \/ ~Unexpired(i)
                          \/ mem.status[i].since # None]_vars

\* control-store.ts:15, "a satisfied challenge is consumed exactly once, so it
\* cannot be spent twice"
ProofSpentOnce ==
    \A i, j \in Issued : i # j /\ mem.creds[i].proof = mem.creds[j].proof
        => mem.creds[i].proof = Principal

\* service.ts:755, a compromise "additionally voids every ACTIVE commitment
\* whose acceptance the old key signed at or after the declared compromise time"
VoidedUnderCompromise == Serving => ~Suspect

\* types.ts:60, a revoked credential's identity "is no longer in good standing":
\* it is not accepted again
RevokedForGood ==
    [][\A i \in Issued : mem.status[i].kind = "REVOKED" =>
            (i \in DOMAIN mem'.creds => ~VerifyCredential(i)')]_vars

\* types.ts:64, after compromisedAt "anything the old key signed is suspect"
CompromiseSticks ==
    [][\A i \in Ids : files.status[i].since # None => files'.status[i].since # None]_vars

\* issuer.ts, ONBOARDING_KEY_ALREADY_BOUND: a company has one current key
OneCurrentKey ==
    \A i, j \in Issued :
        mem.status[i] = Active /\ mem.status[j] = Active => mem.creds[i].key = mem.creds[j].key

\* control.ts:18, "SINGLE USE, AND DATED. Every proof carries ... a window it
\* is good for"
ProofInWindow ==
    \A i \in Issued : mem.creds[i].proof \in Challenges =>
        mem.creds[i].at < mem.control.rows[mem.creds[i].proof].at + Ttl
=============================================================================
