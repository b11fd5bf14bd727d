------------------------------ MODULE VenuePin ------------------------------
(***************************************************************************)
(* How an agent follows the venue's keys (src/agentkit/runtime.ts, the     *)
(* resolver of protocol/venue-keys.ts).                                    *)
(*                                                                         *)
(* The agent pins the venue's root when it first meets it.  Later roots it *)
(* reaches by walking the root log, later keys by certificates of the      *)
(* roots it reached, all of which the venue publishes and the agent asks   *)
(* for: at its start, on a timer, and when a message names a key it does   *)
(* not know.  Questions overlap, and their answers come in any order.      *)
(* What is pinned is on disk; the rest is learnt again after a restart.    *)
(*                                                                         *)
(* Time counts what the venue has published.                               *)
(***************************************************************************)
EXTENDS Naturals, Sequences, FiniteSets

CONSTANTS
    MaxEvents,  \* bound: rotations the venue publishes
    MaxStarts,  \* bound: starts of the agent
    MaxAsked    \* bound: questions under way

VARIABLES
    published, \* the key histories the venue has published, in order
    pinned,    \* venue-root.pinned.json: the place of a root in the log, or 0
    keys,      \* the resolver, in memory, or None
    asked,     \* answers under way to the agent, as places in published
    heard,     \* history: the answers it has taken in since it started
    starts     \* starts so far

vars == <<published, pinned, keys, asked, heard, starts>>

None == [root |-> 0]
Never == MaxEvents + 2

\* A history: log[i] is the event of root i, which says since when it holds the
\* root before it for compromised; a revocation says it of a key
Latest == published[Len(published)]
ActiveKey(h) == CHOOSE k \in {c.key : c \in h.certs} : \A c \in h.certs : c.key <= k

Init ==
    /\ published = <<[log |-> <<Never>>, certs |-> {[key |-> 1, by |-> 1, at |-> 1]}, revs |-> {}]>>
    /\ pinned = 0 /\ keys = None /\ asked = {} /\ heard = {} /\ starts = 0

----------------------------------------------------------------------------
(* The venue                                                               *)

Publish(h) == published' = Append(published, h)

\* The successor takes over, and the root says what the last key was worth
RotateKey(since) ==
    LET root == Len(Latest.log)
        now == Len(published) + 1
        k == ActiveKey(Latest)
    IN  Publish([Latest EXCEPT
            !.certs = @ \cup {[key |-> k + 1, by |-> root, at |-> now]},
            !.revs = @ \cup {[key |-> k, by |-> root, at |-> now, since |-> since]}])

\* The next root takes over; on a compromise it certifies the key in use again
RotateRoot(since) ==
    LET root == Len(Latest.log) + 1
        now == Len(published) + 1
    IN  Publish([Latest EXCEPT
            !.log = Append(@, since),
            !.certs = @ \cup (IF since = Never THEN {}
                              ELSE {[key |-> ActiveKey(Latest), by |-> root, at |-> now]})])

Rotate ==
    /\ Len(published) <= MaxEvents
    /\ \E since \in 1..Len(published) \cup {Never} : RotateKey(since) \/ RotateRoot(since)
    /\ UNCHANGED <<pinned, keys, asked, heard, starts>>

----------------------------------------------------------------------------
(* walkRootLog() and the resolver                                          *)

\* Mutant: the walk goes forward from the root it starts at and not back
WalkForward(root, log) == IF root > Len(log) THEN {root} ELSE root..Len(log)
\* The roots a verifier reaches from the one it pinned: forward along the
\* commitments and back along them
Walk(root, log) == IF root > Len(log) THEN {root} ELSE 1..Len(log)
Current(r) == IF r.root > Len(r.log) THEN r.root ELSE Len(r.log)
UntrustedFrom(root, log) == IF root < Len(log) THEN log[root + 1] ELSE Never
Trusted(statement, log) == statement.at < UntrustedFrom(statement.by, log)

Reached(r, statements) == {s \in statements : s.by \in Walk(r.root, r.log)}

\* revoke(): the last word on a key stands
Revoke(r, revs) ==
    LET taken == {v \in Reached(r, revs) : Trusted(v, r.log)}
    IN  taken \cup {v \in r.revs : v.key \notin {t.key : t \in taken}}

\* extendRoots(): the events seen so far, walked again from the same root
ExtendRoots(r, log) == IF Len(log) > Len(r.log) THEN [r EXCEPT !.log = log] ELSE r
\* add() of each certificate
AddCerts(r, certs) == [r EXCEPT !.certs = @ \cup Reached(r, certs)]

\* untrustedAt(): what a signature by a key is worth now
Accepts(r, k) ==
    /\ \E c \in r.certs : c.key = k /\ Trusted(c, r.log)
    /\ \A v \in r.revs : v.key = k => v.since = Never

----------------------------------------------------------------------------
(* The agent                                                               *)

\* pinVenue(), to its last await: from the root pinned, or the one the venue
\* names; the pin moves on along the log; the rest is asked for
Start ==
    LET root == IF pinned = 0 THEN Len(Latest.log) ELSE pinned
        met == [root |-> root, log |-> Latest.log, certs |-> {}, revs |-> {}]
    IN  /\ keys = None /\ starts < MaxStarts
        /\ starts' = starts + 1
        /\ Len(Latest.log) \in Walk(root, Latest.log)
        /\ pinned' = Current(met)
        /\ keys' = AddCerts(met, {c \in Latest.certs : c.key = ActiveKey(Latest)})
        /\ asked' = {Len(published)}
        /\ UNCHANGED <<published, heard>>

\* refreshVenueKeys(), to its await: the timer, or a key it does not know
Ask ==
    /\ keys # None
    /\ Cardinality(asked) < MaxAsked
    /\ asked' = asked \cup {Len(published)}
    /\ UNCHANGED <<published, pinned, keys, heard, starts>>

\* refreshVenueKeys(), after it
Take(n) ==
    LET more == AddCerts(ExtendRoots(keys, published[n].log), published[n].certs)
    IN  /\ n \in asked /\ asked' = asked \ {n} /\ heard' = heard \cup {n}
        /\ keys' = [more EXCEPT !.revs = Revoke(more, published[n].revs)]
        /\ pinned' = IF Current(more) # Current(keys) THEN Current(more) ELSE pinned
        /\ UNCHANGED <<published, starts>>

Lose(n) ==
    /\ n \in asked /\ asked' = asked \ {n}
    /\ UNCHANGED <<published, pinned, keys, heard, starts>>

Dies ==
    /\ keys # None
    /\ keys' = None /\ asked' = {} /\ heard' = {}
    /\ UNCHANGED <<published, pinned, starts>>

Next == Rotate \/ Start \/ Ask \/ (\E n \in asked : Take(n) \/ Lose(n)) \/ Dies

Spec == Init /\ [][Next]_vars

----------------------------------------------------------------------------
Newest == IF heard = {} THEN <<>> ELSE published[CHOOSE n \in heard : \A m \in heard : m <= n].log

\* The root on disk is never behind an answer taken in, whatever the order in
\* which answers come (repinIfRotated, extendRoots)
PinKeepsUp == \A n \in heard : pinned >= Len(published[n].log)

\* A key the venue has said is good in an answer taken in is one the agent can
\* verify with, also when it is older than the root it starts from (walkRootLog)
HeardIsKnown ==
    \A n \in heard : \A c \in published[n].certs :
        Trusted(c, Newest) => \E d \in keys.certs : d.key = c.key /\ Trusted(d, keys.log)

\* A key said to be compromised is not accepted again when an older answer comes
\* in late, nor when the root that said so has been replaced, unless that root
\* was untrusted when it said so (revoke, untrustedAt)
DeclaredIsRefused ==
    \A n \in heard : \A v \in published[n].revs :
        v.since # Never /\ Trusted(v, Newest) => ~Accepts(keys, v.key)

\* The agent follows the venue: its pin, the keys it knows, those it refuses
FollowsVenue == PinKeepsUp /\ HeardIsKnown /\ DeclaredIsRefused

\* The same of every key declared compromised: a revocation by a root that is
\* declared compromised in its turn, as of earlier, is dropped by who hears of
\* it later, while the certificate from before stays good (DECISIONS.md:162)
RevokedStaysRevoked ==
    \A n \in heard : \A v \in published[n].revs : v.since # Never => ~Accepts(keys, v.key)
=============================================================================
