----------------------------- MODULE Onboarding -----------------------------
(***************************************************************************)
(* How the console's clients become live (app/onboarding.ts): claim an       *)
(* entity, prove control of it, create a signing key, sign limits, have an    *)
(* agent provisioned and onboarded at the venue.  The rows are those of the   *)
(* console's database (app/db.ts); an agent's directory holds its key and     *)
(* what provision wrote, and a process loads it when it starts                *)
(* (app/supervisor.ts, told in full in Supervisor).                          *)
(*                                                                         *)
(* Handlers of several clients interleave where they wait: for the registry,  *)
(* the venue, a signature, a process.  A wait may end in a failure.           *)
(***************************************************************************)
EXTENDS Naturals, FiniteSets

CONSTANTS
    Orgs,        \* organisations
    Usdots,      \* companies on record, each with an active authority
    Owner,       \* [Usdots -> Orgs], who reads the mailbox on the record
    Handlers,    \* requests at the console at one time: numbers, the lowest free is taken
    Proofs,      \* ids of challenges and attestations: numbers, in order
    MaxMandates  \* bound: mandates signed by an organisation

ASSUME OnboardingAssumption == Proofs \subseteq Nat \ {0} /\ Owner \in [Usdots -> Orgs]

VARIABLES
    org,         \* [Orgs -> [status, entity, key, mandate, proof, agent, home]]: the rows
                 \* of the organisation; of its agent, the id and the directory
    proofRow,    \* [Proofs -> [org, about, status]]
    challenge,   \* [Proofs -> state at the venue]
    directory,   \* [Usdots -> [config, credential]] of the agent for the company
    running,     \* [Usdots -> directory and config that the process for the agent loaded]
    handler,     \* [Handlers -> request that waits]
    registered,  \* at the venue: [Usdots -> mandate whose envelope the agent has]
    credentials  \* at the venue: credentials issued

onboardingVars ==
    <<org, proofRow, challenge, directory, running, handler, registered, credentials>>

None == "none"
Idle == [kind |-> "idle", org |-> None]
NoMandate == [agent |-> None, number |-> 0, told |-> FALSE]
NoCredential == [entity |-> None]
NoProcess == [directory |-> None]
NoRow == [org |-> None, about |-> None, status |-> "none"]

OnboardingInit ==
    /\ org = [o \in Orgs |-> [status |-> "NEW", entity |-> None, key |-> FALSE,
                              mandate |-> NoMandate, proof |-> 0, agent |-> None, home |-> None]]
    /\ proofRow = [p \in Proofs |-> NoRow]
    /\ challenge = [p \in Proofs |-> "none"]
    /\ directory = [u \in Usdots |-> [config |-> NoRow, credential |-> NoCredential]]
    /\ running = [u \in Usdots |-> NoProcess]
    /\ handler = [h \in Handlers |-> Idle]
    /\ registered = [u \in Usdots |-> 0]
    /\ credentials = {}

\* A request of an organisation comes in and waits
Asks(h, request) ==
    /\ handler[h] = Idle /\ \A g \in Handlers : g < h => handler[g] # Idle
    /\ handler' = [handler EXCEPT ![h] = request]
Answers(h) == handler' = [handler EXCEPT ![h] = Idle]

\* UPDATE orgs SET status ... WHERE status IN from
Moves(row, from, to) == IF row.status \in from THEN [row EXCEPT !.status = to] ELSE row

\* What was waited for failed, and nothing more is done
Fails(h) ==
    /\ handler[h] # Idle /\ Answers(h)
    /\ UNCHANGED <<org, proofRow, challenge, directory, running, registered, credentials>>

----------------------------------------------------------------------------
(* 1. Claim *)

\* entityByUsdot
Taken(o, u) == \E other \in Orgs \ {o} : org[other].entity = u

\* claimEntity, until the registry is asked; and after it, under the index
\* that lets one organisation have a USDOT
Claim(h, o, u) ==
    /\ ~Taken(o, u)
    /\ Asks(h, [kind |-> "claim", org |-> o, entity |-> u])
    /\ UNCHANGED <<org, proofRow, challenge, directory, running, registered, credentials>>

Unique(o, u) == ~Taken(o, u)

Claimed(h) ==
    /\ handler[h].kind = "claim"
    /\ LET o == handler[h].org
           u == handler[h].entity
       IN  IF Unique(o, u)
           THEN org' = [org EXCEPT ![o] =
                    Moves([@ EXCEPT !.entity = u], {"NEW"}, "ENTITY_CLAIMED")]
           ELSE UNCHANGED org
    /\ Answers(h)
    /\ UNCHANGED <<proofRow, challenge, directory, running, registered, credentials>>

----------------------------------------------------------------------------
(* 2. Prove *)

Unused == {p \in Proofs : challenge[p] = "none"}
Next1 == CHOOSE p \in Unused : \A q \in Unused : p <= q

\* startChallenge: of the entity read before the wait
StartChallenge(h, o) ==
    /\ org[o].entity # None
    /\ Asks(h, [kind |-> "challenge", org |-> o, entity |-> org[o].entity])
    /\ UNCHANGED <<org, proofRow, challenge, directory, running, registered, credentials>>

Challenged(h) ==
    /\ handler[h].kind = "challenge" /\ Unused # {}
    /\ challenge' = [challenge EXCEPT ![Next1] = "sent"]
    /\ proofRow' = [proofRow EXCEPT ![Next1] =
            [org |-> handler[h].org, about |-> handler[h].entity, status |-> "PENDING"]]
    /\ Answers(h)
    /\ UNCHANGED <<org, directory, running, registered, credentials>>

Pending(o) == {p \in Proofs : proofRow[p].org = o /\ proofRow[p].status = "PENDING"}

\* verifyChallenge: the latest, whatever the entity is by now
VerifyChallenge(h, o) ==
    /\ Pending(o) # {}
    /\ Asks(h, [kind |-> "verify", org |-> o,
                proof |-> CHOOSE p \in Pending(o) : \A q \in Pending(o) : q <= p])
    /\ UNCHANGED <<org, proofRow, challenge, directory, running, registered, credentials>>

\* The row of a proof that the venue, or an operator, vouched for
Verified(o, p, about, from) ==
    /\ proofRow' = [proofRow EXCEPT ![p] = [org |-> o, about |-> about, status |-> "VERIFIED"]]
    /\ org' = [org EXCEPT ![o] = Moves([@ EXCEPT !.proof = p], from, "CONTROL_PROVEN")]

\* Right answers come from who reads the mailbox; the last wrong one kills.
\* The venue's word may be lost, and is given again
Verify(h) ==
    /\ handler[h].kind = "verify"
    /\ LET p == handler[h].proof
           o == handler[h].org
       IN  \/ /\ Owner[proofRow[p].about] = o /\ challenge[p] = "sent"
              /\ challenge' = [challenge EXCEPT ![p] = "satisfied"]
              /\ \/ Verified(o, p, proofRow[p].about, {"ENTITY_CLAIMED"})
                 \/ UNCHANGED <<org, proofRow>>
           \/ /\ challenge[p] = "satisfied"
              /\ Verified(o, p, proofRow[p].about, {"ENTITY_CLAIMED"})
              /\ UNCHANGED challenge
           \/ /\ challenge[p] = "sent"
              /\ challenge' = [challenge EXCEPT ![p] = "dead"]
              /\ proofRow' = [proofRow EXCEPT ![p].status = "FAILED"]
              /\ UNCHANGED org
    /\ Answers(h)
    /\ UNCHANGED <<directory, running, registered, credentials>>

\* operatorAttest: an operator of the console has spoken to the company
OperatorAttest(o) ==
    /\ Unused # {}
    /\ org[o].entity # None /\ Owner[org[o].entity] = o
    /\ challenge' = [challenge EXCEPT ![Next1] = "satisfied"]
    /\ Verified(o, Next1, org[o].entity, {"ENTITY_CLAIMED", "NEW"})
    /\ UNCHANGED <<directory, running, handler, registered, credentials>>

----------------------------------------------------------------------------
(* 3. Key and 4. mandate *)

CreateKey(o) ==
    /\ ~org[o].key /\ org[o].status \in {"CONTROL_PROVEN", "MANDATE_SIGNED"}
    /\ org' = [org EXCEPT ![o].key = TRUE]
    /\ UNCHANGED <<proofRow, challenge, directory, running, handler, registered, credentials>>

\* signMandate, while setting up or, by POST /mandate, to change the limits
SignMandate(h, o, change) ==
    /\ org[o].entity # None /\ org[o].key
    /\ Asks(h, [kind |-> "sign", org |-> o, entity |-> org[o].entity, change |-> change])
    /\ UNCHANGED <<org, proofRow, challenge, directory, running, registered, credentials>>

\* provisionAndStart, until it has waited for the signer
Provisions(o, row) ==
    [kind |-> "provision", org |-> o, entity |-> row.entity, mandate |-> row.mandate]

Signed(h) ==
    LET o == handler[h].org
        signed == [agent |-> handler[h].entity, number |-> org[o].mandate.number + 1, told |-> FALSE]
        row == Moves([org[o] EXCEPT !.mandate = signed], {"CONTROL_PROVEN"}, "MANDATE_SIGNED")
        agent == row.agent
    IN  /\ handler[h].kind = "sign" /\ signed.number <= MaxMandates
        /\ org' = [org EXCEPT ![o] = row]
        /\ IF handler[h].change /\ agent # None
           THEN /\ running' = [running EXCEPT ![agent] = NoProcess]
                /\ handler' = [handler EXCEPT ![h] = Provisions(o, row)]
           ELSE Answers(h) /\ UNCHANGED running
        /\ UNCHANGED <<proofRow, challenge, directory, registered, credentials>>

----------------------------------------------------------------------------
(* 5. Agent *)

Provision(h, o) ==
    /\ org[o].entity # None /\ org[o].mandate # NoMandate /\ org[o].key
    /\ Asks(h, Provisions(o, org[o]))
    /\ UNCHANGED <<org, proofRow, challenge, directory, running, registered, credentials>>

\* provenControl: the last that was verified
ProvenControl(o) == org[o].proof

Load(u, dirs) == [directory |-> u, config |-> dirs[u].config]

\* provision, the agent's row, start and the wait for health.  The row of an
\* agent keeps its id; its directory is that of the mandate's agent
Start(h) ==
    LET o == handler[h].org
        id == handler[h].mandate.agent
        row == IF org[o].agent = None THEN id ELSE org[o].agent
        dirs == [directory EXCEPT ![id].config =
            [org |-> o, entity |-> handler[h].entity, number |-> handler[h].mandate.number,
             proof |-> ProvenControl(o)]]
    IN  /\ handler[h].kind = "provision" /\ ProvenControl(o) # 0
        /\ directory' = dirs
        /\ IF org[o].agent = None /\ \E other \in Orgs : org[other].agent = id
           THEN Answers(h) /\ UNCHANGED <<org, running>>
           ELSE /\ org' = [org EXCEPT ![o].agent = row, ![o].home = id]
                /\ running' = [running EXCEPT ![row] = IF @ = NoProcess THEN Load(id, dirs) ELSE @]
                /\ handler' = [handler EXCEPT ![h] = [kind |-> "onboard", org |-> o, agent |-> row,
                        number |-> handler[h].mandate.number]]
        /\ UNCHANGED <<proofRow, challenge, registered, credentials>>

Exits(u) ==
    /\ running[u] # NoProcess
    /\ running' = [running EXCEPT ![u] = NoProcess]
    /\ UNCHANGED <<org, proofRow, challenge, directory, handler, registered, credentials>>

\* sweep
Restarts(o) ==
    /\ org[o].agent # None /\ running[org[o].agent] = NoProcess
    /\ running' = [running EXCEPT ![org[o].agent] = Load(org[o].home, directory)]
    /\ UNCHANGED <<org, proofRow, challenge, directory, handler, registered, credentials>>

\* Mutant: about which company is not looked at
AcceptsItsKey(run) ==
    /\ challenge[run.config.proof] = "satisfied"
    /\ proofRow[run.config.proof].about = run.directory

\* The venue's word on a card: the proof is good, about the company claimed
\* and the key presented, which is the directory's
Accepts(run) ==
    /\ challenge[run.config.proof] = "satisfied"
    /\ proofRow[run.config.proof].about = run.config.entity
    /\ proofRow[run.config.proof].about = run.directory

\* The row of the mandate says that it is registered
GoesLive(o, number) ==
    org' = [org EXCEPT ![o].status = "LIVE", ![o].mandate.told = (@ \/ org[o].mandate.number = number)]

\* onboard, of the agent that answers: with the credential that its directory
\* holds, or by the venue's leave.  The venue's word, or the agent's, may be lost
Onboard(h) ==
    LET o == handler[h].org
        run == running[handler[h].agent]
        holds == directory[run.directory].credential
        issued == [entity |-> run.config.entity, org |-> run.config.org, directory |-> run.directory]
    IN  /\ handler[h].kind = "onboard" /\ run # NoProcess
        /\ \/ /\ holds # NoCredential
              /\ GoesLive(o, handler[h].number)
              /\ UNCHANGED <<directory, challenge, registered, credentials>>
           \/ /\ holds = NoCredential /\ Accepts(run)
              /\ challenge' = [challenge EXCEPT ![run.config.proof] = "spent"]
              /\ credentials' = credentials \cup {issued}
              /\ registered' = [registered EXCEPT ![run.directory] = run.config.number]
              /\ \/ /\ directory' = [directory EXCEPT ![run.directory].credential = issued]
                    /\ GoesLive(o, handler[h].number) \/ UNCHANGED org
                 \/ UNCHANGED <<directory, org>>
        /\ Answers(h)
        /\ UNCHANGED <<proofRow, running>>

----------------------------------------------------------------------------
OnboardingNext ==
    \/ \E h \in Handlers :
        \/ \E o \in Orgs :
            \/ \E u \in Usdots : Claim(h, o, u)
            \/ StartChallenge(h, o) \/ VerifyChallenge(h, o)
            \/ \E change \in BOOLEAN : SignMandate(h, o, change)
            \/ Provision(h, o)
        \/ Claimed(h) \/ Challenged(h) \/ Verify(h) \/ Signed(h)
        \/ Start(h) \/ Onboard(h) \/ Fails(h)
    \/ \E o \in Orgs : OperatorAttest(o) \/ CreateKey(o) \/ Restarts(o)
    \/ \E u \in Usdots : Exits(u)

----------------------------------------------------------------------------
(* Properties *)

\* A USDOT is claimed by one organisation, however the claims of several
\* interleave with the registry's answers (claimEntity).
OneClaimant ==
    \A o1, o2 \in Orgs : o1 # o2 /\ org[o1].entity = org[o2].entity => org[o1].entity = None

\* A credential is issued under the principal who proved control of the
\* company, for the key in the directory of that company's agent: whatever is
\* claimed anew, provisioned and restarted in between (provisionAndStart).
PrincipalsOwn ==
    \A c \in credentials : c.org = Owner[c.entity] /\ c.directory = c.entity

\* "holding a credential bound to the entity" (onboarding.ts): a live
\* organisation's agent has one for the entity that its organisation has.
LiveForItsEntity ==
    \A o \in Orgs : org[o].status = "LIVE" =>
        \E c \in credentials : c.entity = org[o].entity /\ c.org = o

\* "each with its own data directory, its own key, and its own mandate"
\* (supervisor.ts): what an organisation's agent has in its directory is the
\* organisation's.
OwnDirectory ==
    \A o \in Orgs : org[o].agent # None => directory[org[o].agent].config.org = o

\* registered_at of a mandate (db.ts): the venue has been given its envelope.
RegisteredIsTold ==
    \A o \in Orgs : org[o].mandate.told =>
        registered[org[o].mandate.agent] = org[o].mandate.number
=============================================================================
