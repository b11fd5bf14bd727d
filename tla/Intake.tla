------------------------------- MODULE Intake -------------------------------
(***************************************************************************)
(* How the venue takes in what an agent signs (ingest, authenticateBearer   *)
(* of src/venue/service.ts, verifyCredential, verifyPresentation of         *)
(* src/identity/verifier.ts, the nonces of src/venue/state.ts).             *)
(*                                                                         *)
(* An agent dates and signs what it sends by its own clock, with the key    *)
(* and under the credential it holds; its connection may drop, and it then  *)
(* sends the same message again.  The venue looks a message up among the    *)
(* nonces on its disk, checks its age, its credential and its key, records  *)
(* the nonce and goes on to handle it.  A request under a bearer token has  *)
(* no nonce.  Old nonces are swept.  Meanwhile the agent's key is changed.  *)
(* Times are multiples of two and a half minutes.                          *)
(***************************************************************************)
EXTENDS Integers, Sequences

CONSTANTS
    MaxTime,     \* bound: the last moment
    MaxSent,     \* bound: messages and requests the agent signs
    MaxCreds,    \* bound: credentials of the agent
    MaxTroubles  \* bound: connections dropped, deaths of either process

VARIABLES
    now,      \* the venue's clock
    ahead,    \* how far the agent's clock is ahead of it
    creds,    \* the venue's: the agent's credentials, in the order issued
    agent,    \* the venue's: its current credential, and the ones rotated
    signing,  \* the agent's: its key and its credential
    sent,     \* signed so far
    wire,     \* on their way to the venue
    nonces,   \* rows on disk
    handling, \* messages taken in, being handled
    handled,  \* history: messages handled to their end, and how often
    refused,  \* history: what was refused, whether still fresh, and why
    troubles

vars == <<now, ahead, creds, agent, signing, sent, wire, nonces, handling, handled,
          refused, troubles>>
agentVars == <<signing, sent>>
credVars  == <<creds, agent>>

\* The tolerances for a timestamp, as they come: 1 (rounded up), 5 and 10 minutes
Clock == [skew |-> 1, messageMaxAge |-> 2, rotationGrace |-> 4]

\* A credential, and since when it has its status
Credential == [status |-> "ACTIVE", at |-> now, graceUntil |-> 0]

Init ==
    /\ now = 0 /\ ahead \in -Clock.skew .. Clock.skew
    /\ creds = <<Credential>> /\ agent = [cred |-> 1, previous |-> {}]
    /\ signing = [key |-> 1, cred |-> 1] /\ sent = 0 /\ wire = {}
    /\ nonces = {} /\ handling = {} /\ handled = [n \in 1 .. MaxSent |-> 0]
    /\ refused = {} /\ troubles = 0

Trouble == troubles < MaxTroubles /\ troubles' = troubles + 1

Tick ==
    /\ now < MaxTime /\ now' = now + 1
    /\ UNCHANGED <<ahead, credVars, agentVars, wire, nonces, handling, handled, refused,
                   troubles>>

----------------------------------------------------------------------------
(* The agent                                                               *)

\* buildMessage and signMessage, or bearer()
Send(kind) ==
    /\ sent < MaxSent /\ sent' = sent + 1
    /\ wire' = wire \cup {[nonce |-> sent', kind |-> kind, ts |-> now + ahead,
                           cred |-> signing.cred, key |-> signing.key]}
    /\ UNCHANGED <<now, ahead, credVars, signing, nonces, handling, handled, refused,
                   troubles>>

\* It installs its new key under its new credential: both, or the key alone
\* when it dies in between
HearsOfRotation ==
    /\ signing.cred # agent.cred
    /\ \/ signing' = [key |-> agent.cred, cred |-> agent.cred] /\ UNCHANGED troubles
       \/ signing' = [signing EXCEPT !.key = agent.cred] /\ Trouble
    /\ UNCHANGED <<now, ahead, credVars, sent, wire, nonces, handling, handled, refused>>

----------------------------------------------------------------------------
(* The agent's key at the venue                                            *)

\* Until when a superseded credential is accepted
GraceUntil(cred, reason) ==
    IF reason = "COMPROMISE" THEN now ELSE now + Clock.rotationGrace

Rotate(reason) ==
    /\ Len(creds) < MaxCreds /\ creds[agent.cred].status = "ACTIVE"
    /\ creds' = Append([creds EXCEPT ![agent.cred] =
                   [@ EXCEPT !.status = reason, !.at = now,
                             !.graceUntil = GraceUntil(creds[agent.cred], reason)]],
                   Credential)
    /\ agent' = [cred |-> Len(creds'), previous |-> agent.previous \cup {agent.cred}]
    /\ UNCHANGED <<now, ahead, agentVars, wire, nonces, handling, handled, refused, troubles>>

\* An agent that lost its files: the venue keeps no lineage
OnboardAgain ==
    /\ Len(creds) < MaxCreds
    /\ creds' = Append(creds, Credential)
    /\ agent' = [cred |-> Len(creds'), previous |-> {}]
    /\ signing' = [key |-> Len(creds'), cred |-> Len(creds')]
    /\ UNCHANGED <<now, ahead, sent, wire, nonces, handling, handled, refused, troubles>>

Revoke ==
    /\ creds[agent.cred].status = "ACTIVE"
    /\ creds' = [creds EXCEPT ![agent.cred] = [@ EXCEPT !.status = "REVOKED", !.at = now]]
    /\ UNCHANGED <<now, ahead, agent, agentVars, wire, nonces, handling, handled, refused,
                   troubles>>

----------------------------------------------------------------------------
(* The venue's checks                                                      *)

Fresh(m) == LET age == now - m.ts
            IN  IF age < 0 THEN -age <= Clock.messageMaxAge ELSE age <= Clock.messageMaxAge

\* verifyCredential: superseded in routine, it has its grace
Credentialed(m) ==
    LET cred == creds[m.cred]
    IN  \/ cred.status = "ACTIVE"
        \/ cred.status = "ROUTINE" /\ now < cred.graceUntil

\* verifyPresentation: signed with the key the credential is bound to
Presents(m) == m.key = m.cred

\* agentByCredential
Registered(m) == m.cred = agent.cred \/ m.cred \in agent.previous

\* Why a message is not taken in, the first reason that holds, or "none"
Objection(m) ==
    CASE \E row \in nonces : row.nonce = m.nonce -> "NONCE_REUSED"
      [] ~Fresh(m)                               -> "MESSAGE_STALE"
      [] ~Credentialed(m)                        -> creds[m.cred].status
      [] ~Presents(m)                            -> "IDENTITY_KEY_MISMATCH"
      [] ~Registered(m)                          -> "CREDENTIAL_UNKNOWN"
      [] OTHER                                   -> "none"

BearerObjection(m) ==
    CASE ~Credentialed(m)                 -> creds[m.cred].status
      [] ~Presents(m) \/ ~Fresh(m)        -> "IDENTITY_SIGNATURE_INVALID"
      [] ~Registered(m)                   -> "CREDENTIAL_UNKNOWN"
      [] OTHER                            -> "none"

\* A copy arrives.  When the answer is lost another follows
Arrives(m) ==
    /\ m \in wire
    /\ \/ wire' = wire \ {m} /\ UNCHANGED troubles
       \/ m.kind = "message" /\ wire' = wire /\ Trouble
    /\ UNCHANGED <<now, ahead, credVars, agentVars>>

\* The nonce goes to disk before the message is handled
Records(m) == nonces' = nonces \cup {[nonce |-> m.nonce, ts |-> m.ts]}

\* ingest, up to the handler's first wait
Ingest(m) ==
    /\ m.kind = "message" /\ Arrives(m)
    /\ IF Objection(m) = "none"
       THEN Records(m) /\ handling' = handling \cup {m} /\ UNCHANGED refused
       ELSE /\ refused' = refused \cup {[m |-> m, fresh |-> Fresh(m), why |-> Objection(m)]}
            /\ UNCHANGED <<nonces, handling>>
    /\ UNCHANGED handled

\* authenticateBearer
Bearer(m) ==
    /\ m.kind = "bearer" /\ Arrives(m)
    /\ refused' = IF BearerObjection(m) = "none" THEN refused
                  ELSE refused \cup {[m |-> m, fresh |-> Fresh(m), why |-> BearerObjection(m)]}
    /\ UNCHANGED <<nonces, handling, handled>>

\* The end of startNegotiation or advance
Finish(m) ==
    /\ m \in handling /\ handling' = handling \ {m}
    /\ handled' = [handled EXCEPT ![m.nonce] = @ + 1]
    /\ UNCHANGED <<now, ahead, credVars, agentVars, wire, nonces, refused, troubles>>

----------------------------------------------------------------------------
(* Sweeping, and the end of a process                                      *)

\* Mutant: the window of the sweep is the clocks' skew
SweptAfterSkew(row) == row.ts < now - Clock.skew
\* Rows no message can need
Swept(row) == row.ts < now - 2 * Clock.messageMaxAge

Sweep ==
    /\ \E row \in nonces : Swept(row)
    /\ nonces' = {row \in nonces : ~Swept(row)}
    /\ UNCHANGED <<now, ahead, credVars, agentVars, wire, handling, handled, refused,
                   troubles>>

\* The venue dies: what it was handling is gone, what is on disk stays
Dies ==
    /\ handling # {} /\ Trouble
    /\ handling' = {}
    /\ UNCHANGED <<now, ahead, credVars, agentVars, wire, nonces, handled, refused>>

Next ==
    \/ Tick
    \/ \E kind \in {"message", "bearer"} : Send(kind)
    \/ HearsOfRotation
    \/ \E reason \in {"ROUTINE", "COMPROMISE"} : Rotate(reason)
    \/ OnboardAgain
    \/ Revoke
    \/ \E m \in wire : Ingest(m) \/ Bearer(m)
    \/ \E m \in handling : Finish(m)
    \/ Sweep
    \/ Dies

Spec == Init /\ [][Next]_vars

----------------------------------------------------------------------------
\* What an agent sends again because its connection dropped, and what comes late,
\* is not acted on twice, although nonces are forgotten (ingest, sweepNonces)
HandledOnce == \A n \in 1 .. MaxSent : handled[n] <= 1

\* When it was signed, by the venue's clock
SignedAt(m) == m.ts - ahead

\* A key changed in routine costs no message that was on its way: one signed
\* before the change and still fresh is not refused for its credential, unless
\* the agent onboards anew (verifyCredential, rotationGraceMs)
GraceCoversFlight ==
    \A r \in refused :
        r.why = "ROUTINE" /\ r.fresh => SignedAt(r.m) > creds[r.m.cred].at

\* What arrives is taken in once, and not lost to a change of key
TakenInFairly == HandledOnce /\ GraceCoversFlight

\* What the venue calls a replay it has handled (runtime.ts:418-420)
ReplayWasHandled ==
    \A r \in refused : r.why = "NONCE_REUSED" =>
        handled[r.m.nonce] > 0 \/ \E m \in handling : m.nonce = r.m.nonce
=============================================================================
