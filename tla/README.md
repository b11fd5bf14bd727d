# A TLA+ model of the freight venue

The repository is a *venue* where software agents of freight brokers and
carriers negotiate loads, and where the venue turns two signed acceptances into
a signed commitment on an append-only ledger, underwrites it, and tells both
parties. This directory holds TLA+ modules of the parts of the system where
ordering, crashes and interleaving matter, TLC configurations that check them on
small instances, and proofs that TLAPS checks. Paths below are relative to the
repository root.

`PROJECT.json` is the index: components, runs, the source lines each definition
models, hazards, findings and theorems.

    tlc -config CommitOverlap.cfg MCVenueCommit      # one run
    tlapm VenueCommit_proofs.tla                     # the proofs of one component


## The system and its parts

| Part | Source | State it keeps | Operations | Module |
|---|---|---|---|---|
| Negotiation, commit, lifecycle, recovery | `src/venue/service.ts`, `state.ts` | tasks, commitments, journals (files), exposure books, ledger | tender, counter, accept, reject, commit, void, lifecycle report, timeout sweep, pre-pickup check, recover | `VenueCommit` over `CommitPoint` |
| Intake of messages | `service.ts`, `identity/verifier.ts` | nonces | ingest, authenticate, sweep | `Intake` |
| Outbox | `service.ts`, `db.ts` | owed notices, dead letters | enqueue, flush, backoff, give up, retry, recover | `Outbox` |
| Underwriting | `src/underwriting/*` | guarantees, claims, reserve, exposure per carrier and in all | quote, attach, complete, release, file, decide, settle, add capital, expire | `Underwriting` |
| Venue store | `venue/db.ts`, `state.ts` | rows, and a cache of what was written | persist, commit, roll back, load | `VenueStore` |
| Scheduler, server | `venue/jobs.ts`, `server.ts`, `protocol/rpc.ts` | running jobs, token buckets | start, jobs, admission | `VenueServer` |
| Key ring and rotation | `venue/keyring.ts`, `protocol/venue-keys.ts` | keys, certificates, rotation journal | rotate key or root, re-attest, re-issue, reseal, verify the chain | `VenueKeys` |
| Mandates and strategies | `src/mandate/*`, `src/agents/*`, `agentkit/llm-strategy.ts` | private limits, last offers | price, counter, accept, evaluate | `Bargain` |
| Ledger | `src/ledger/chain.ts` | hash chain | append, verify | a sequence, in `VenueCommit`, `VenueKeys`, `Witness` |
| Artifacts | `src/ledger/artifact.ts`, `bundle.ts` | none | build, verify | `Artifact` over `Registry` |
| Credential statuses, notices | `service.ts`, `identity/issuer.ts`, `protocol/inclusion.ts` | issuer's file, status entries, promises | submit a notice, revoke, reconcile on start | `StatusNotices` |
| Identity | `src/identity/*`, `service.ts` | challenges, proofs, credentials | challenge, verify, onboard, rotate, revoke | `Identity`, `Vetting`, `Watchlist` |
| Registries and insurers | `identity/registry-mirror.ts`, `protocol/registry.ts`, `registry/*` | attestations, the insurer's word, filers' keys | quorum read, freshness, live check, renewal, blame | `Registry`, `Filers` |
| Witnessing | `protocol/witness-core.ts`, `src/witness/*` | co-signed heads, hashes verified, receipts, proofs, promises watched | poll, sign on demand, gossip, accuse, watch | `Witness`, `StatusNotices` |
| Agent runtime | `src/agentkit/runtime.ts` | seen ids, open negotiations, exposure book, keys | send, retry, handle push, pull, reconcile, follow the venue's keys, change its own | `AgentRuntime`, `VenuePin`, `AgentKeys` |
| Onboarding application | `src/app/*` | clients, agents, processes | claim, prove, provision, start, stop, sweep | `Onboarding`, `Supervisor` |
| Pricing, EDI, simulator, wire helpers | `underwriting/model.ts`, `src/edi`, `src/sim`, `src/protocol` | none | arithmetic, formatting, fixtures | not modelled |

How they interact. An agent's signed message enters `ingest()` of the venue,
which records its nonce and calls the negotiation. The negotiation reads the
registry mirror (an *await*), asks the mandate engine, answers, and enqueues
notices for the other party in the outbox. The second acceptance runs
`commit()`: it reads the registry again, builds the artifact, and writes journal,
ledger entry, guarantee, exposure books, snapshot. Timers run the reply-timeout
sweep, the pre-pickup check, the outbox flush, the watchlist sweep and the
claim-window sweep over the same maps. Operators add capital, decide claims and
rotate keys over HTTP. Companies prove control of their authority, get credentials
for their agents' keys and change those keys. Witnesses (and agents acting as
such) poll the ledger's head, sign it if it extends the one they signed before,
compare receipts with each other, and hold the venue to the promises it returned
to the sources of status notices. Anybody may take an artifact, the words of
registries and insurers and the witnesses' receipts, and judge a commitment
without the venue. The console runs agents for clients who do not run their own.

The venue is one Node process, and so are an agent and the console. Code runs
without interruption until it awaits; what can interleave is therefore *handlers
parked at an await*, and what can cut a run short is *the process dying between
two file writes*. The hard behaviour is in those two places:

- a check before an await whose answer is stale after it (winner of a load, turn
  of a negotiation, status of a commitment, mandate exposure, a spent proof);
- several files written in sequence, with a crash between any two, and recovery
  from the journal on the next start;
- messages and notices that are refused, lost, answered late, given up on, put
  back, and sent again;
- totals kept in memory and recomputed on start from what is on disk;
- witnesses that ask for head and entries in two requests of a chain that grows,
  poll while a poll is under way, and compare receipts that are late;
- words that are true when signed and out of date when used, and blame for those
  that were not.

What makes each part correct, in a sentence: the chain, the records, the
guarantees and the books tell one story (commit); a notice is on disk until its
agent has it (outbox); the reserve and the limits hold whichever way a guarantee
ends (underwriting); what is promised is recorded, and what the issuer's file
says is on the ledger (statuses); a witness never accuses an honest venue, never
signs two histories, and does not miss a split (witness); an agent acts on every
message once and its book follows the venue (runtime); a credential's key was
proven (identity); what the venue has signed stays verifiable whatever key is
rotated (keys); a load moves only on words that cover it, and nobody is blamed
who has not lied (registry, artifact).

`PROJECT.json`, "hazards", lists what is hard to test, each at its line, with
the property that covers it or the reason none does.


## The modules

Each component module has its state as variables, one action per handler between
two awaits (or per write between which the process may die), and its properties at
the end. A definition whose comment begins with `Mutant:` is a variant of the one
after it, as a plausible bug would have it: every property of a passing run is
violated when a definition is replaced by such a variant (`PROJECT.json`,
"mutants"). Times are small numbers, keys and notices model values or numbers in
the order they come to be; what is signed is the record of what was signed.


### VenueCommit

State is per negotiation (`Tasks`), per commitment id (`Cids`), plus the chain,
the handlers in flight and the open transaction:

| Variable | Code |
|---|---|
| `state`, `status`, `awaiting`, `round`, `onTable`, `accepted` | fields of a `VenueTask` (`state.ts`) |
| `told` | notices of an outcome enqueued for the parties of the task, in order |
| `record` | `CommitmentRecord.status` |
| `guarantee` | the underwriting engine's record for this commitment |
| `exposure` | entry of this commitment in each party's exposure book |
| `ledger` | the chain: COMMITMENT, VOID and lifecycle entries |
| `journal`, `intent` | the journal file on disk, and what was written into it |
| `calls` | handlers parked at the await that reads the registry, with what they carry across it |
| `section` | the transaction being written and its next write |
| `mode` | `recovering` between a start and the end of `recover()` |

All but `calls`, `section` and `mode` are on disk: at every await the maps in
memory equal the last snapshot, so a crash forgets the parked handlers and the
open section and nothing else.

A handler from one await to the next is one action. `Tender` and `Message` are
the part before the await (with the checks made there and not repeated);
`TenderAdmit`, `CounterResume`, `AcceptResume`, `RejectResume` the part after
it; `TenderRefuse`, `AdvanceFail`, `CommitFail` stand for every refusal whose
reason (standing, mandate, unknown party, registry outage) lies outside the
model, and may always happen. `CommitPrepare` ends the second await and writes
the journal. From there the writes of `commit()`/`applyCommit()` are one action
each: `AppendEntry`, `ApplyGuarantee`, `ApplyExposure` (broker, then carrier),
`SnapshotCommit` (record, task, sibling cancellation, notices), `Cleanup`.
Voids and lifecycle events use the same steps (`SnapshotVoid`,
`SnapshotLifecycle`); a lifecycle event has no journal, as in the code.
`CheckStart`, `CheckPass` and `CheckVoid` are the pre-pickup check around its
await. `Timeout` is the sweep reaching one task, `VoidNow` a void without an
await (renewal conditions, operator). `Crash` may happen anywhere,
`CrashInAccept` is the crash between the two snapshots of an acceptance.
`RecoverJournal`, `RecoverRetry` and `RecoverFinish` are `recover()`: apply or
drop each journal by whether its entry is on the chain, commit tasks with both
acceptances, cancel the siblings of ACTIVE commitments, then serve.

Left out: POD, DISPUTE and PAID events (they change no state the properties
see), subcontracting permission (taken as absent), key-rotation journals (they are
in `VenueKeys`), the arithmetic of the reply clock.

`Overlap` says whether a message may start while another handler is parked. The
server does not serialize requests, so TRUE is the real system; FALSE is the
schedule a test exercises, and the runs with FALSE show which rules depend on it.

`CommitPoint` is the abstract specification: a commitment is decided in one step,
its effects follow before the next decision, the same for its void, and what is
decided is eventually carried out. `ImplementsCommitPoint` maps "decided" to the
COMMITMENT entry on the chain and "applied" to the record; the journal, the
snapshot, the crash and the recovery are what implements it.


### Outbox

`owed` are the causes (state changes) on disk in the order they happened,
`outbox` the list in memory, `rows` the table on disk with the sequence number
each row was *last written* with (an unchanged row keeps an old one, which
decides the order after a restart), `dead` the dead letters. A flush is
`flushing`, `pass`, `blocked`, `sending`: it gives up control only while a push
is answered, so `Delivered` and `Undelivered` contain everything up to the next
push. An unanswered push may still be taken in by the agent, at once or later
(`late`, `ArriveLate`). `inbox` is what the agent has taken in; it recognizes
the last `Window` ids (1000 in `runtime.ts`). `Enqueued` says how a cause's
notices reach the disk in the code: in the snapshot of the cause (`within`: a
commitment), in one right after it (`after`: a forwarded tender), or in memory
only (`unsaved`: lifecycle and renewal notices).

Left out: notices to an agent the directory does not know (dropped at once). The
agent's pull and its own crash are in `AgentRuntime`.


### Underwriting

`book`, `guarantee`, `claims` and `reserve` are the engine's maps in memory,
`disk` the four files that hold them, `pending` the files (and ledger entries)
the current operation has still to write, in order. No operation awaits, so an
operation is one action on memory followed by one `Write` per file, and `Crash`
between any two takes memory back to the files and recomputes `portfolio` the way
the constructor does. `journal`, `committed` and `voided` are what the venue's
commit transaction (VenueCommit) knows: attaching and releasing with it are
carried out again from the journal, completion and claims are not.

Left out: the history file and the pair book (they feed the price), commitments
without a guarantee, the price itself (a constant premium).


### Witness

A hash commits to everything before it, so in this module the hash of a head *is*
the ledger up to it, and "the same hash" is equality of sequences.

| Variable | Code |
|---|---|
| `ledger`, `drawn` | the venue's chain (`chain.ts`), entries numbered as drawn |
| `fork` | the fault switch `equivocate`: from where on, and to whom, `ledgerViewFor` shows the second book |
| `honest` | history: the switch was never used |
| `last`, `seen`, `receipts`, `proofs`, `halted` | `lastCosigned`, `seen`, `receipts`, `equivocations`, `halted` of `WitnessCoreState`, all on disk |
| `poll` | polls in flight, with the head and `last` they hold over their awaits |
| `mail` | proofs posted to peers |

`poll()` is three actions, one per request: `PollHead` (the head, and the last
head cosigned as it is *then*), `PollEntries` (the entries the venue serves by
then), `PollCosign` (the venue has taken the receipt; state is written).
`PollSkip` is every early return and a witness that dies. A head further back,
or entries that do not reach the head, are noted down in `forks` and change
nothing else, so they end the poll. `SignFor` is `receiptFor`, `Gossip` a
receipt that reaches `receiveGossip`, pushed or asked for, with the proof and
the posts that follow; `ReceiveProof` and `Lose` are the post's two ends. A
receipt is a signed fact, so `Gossip` may take any receipt ever signed, at any
time: late, repeated or out of order.

The part of `SplitOrCosigned` about splits is conditional. `receiptFor` appends a receipt for an old position
to `receipts`, and gossip tells the *last* receipt appended: two witnesses on two
books can go on telling each other receipts for positions the books share. As
long as the latest receipts are those of the heads, every split is found.

Left out: witnesses told to sign blindly (a fault switch), truncation of the
chain, the verifier's policy on receipts.


### StatusNotices

`status` is the issuer's file (`issuer.ts`): per credential, when its status was
set. `ledger` holds the status entries, each with the credential, that time and
the notice it came from; `promised` the notices whose promise has been returned.
`job` is what the venue is in the middle of: a notice, a revocation, or the
reconciliation at the end of `recover()`. Nothing in it awaits, so there is one
job at a time; it goes credential by credential through `Take` (the issuer's
file) and `RecordStatus` (the ledger), and `Crash` comes between any two. A
status is looked for on the ledger by credential and time, which is how the code
makes recording idempotent. An entry of status null makes that search throw in
the code (`Throws`, `RecordThrows`).

The witness half (`Cosign`, `ReceiptFor`, `Watch`, `Deadline`) is that of one
witness of an honest venue, with time reduced to what the code compares: `due` is
the set of promises whose deadline has passed, and a receipt remembers what was
due when it was signed. The venue answers `Cosign` between jobs only.

Left out: SUPERSEDED statuses (key rotation, in `Identity`), two statuses of one credential in
one millisecond, notices lodged without a promise, the fault switches that drop
or suppress notices, broken-promise proofs at peers.


### Intake

`nonces` are the rows on disk; a message signed is `sent`, on the `wire`,
`handling` at the venue, `handled` or `refused`. `Ingest` is `ingest()` up to the
handler: the nonce is looked up, the age, the credential (with the grace of a
rotation) and the key are checked, and the nonce is written before anything is
done. `Bearer` is `authenticateBearer`, which has no nonce; `Sweep` drops the
rows that are old enough. Two clocks differ by `ahead`; connections drop, and the
sender sends the same message again; either process may die.

Left out: the checks of shape and text; the rate limits are in `VenueServer`.


### AgentRuntime, VenuePin, AgentKeys

`AgentRuntime` is one agent's end of several negotiations. Its files are `saved`
(tasks.json, written when a handler ends), `seen` (ids of notices), `artifacts`
and `book` (the exposure book), written as they change. What the venue decided
comes in three ways, each an action: `Answered` (the answer to a message of its
own), `Reconcile` (a pull), `Push` then `Learn`/`Consider` (a notice is marked seen
and acknowledged before it is acted on). `Send`, `Dropped` are `sendRaw` with its
attempts; the same signed message is sent each time, and `Arrive`/`Handle` are the
venue's two halves around its await. `Dies` loses memory, `DiesWithin` comes between
the files of `process()`. `torn`, `overtaken`, `racing` are history: what a property
excepts, and why, is said at the property.

`VenuePin` is how the agent follows the venue's keys: `published` are the key
histories the venue has shown, `pinned` is on disk, `keys` the resolver in memory;
answers come in any order (`Ask`, `Take`, `Lose`). `AgentKeys` is its own key:
`Onboard`, `Prepare` and `Submit` against the venue's credential and the spent
proof, with `Dies` between the files of `installKey`.

Left out: the wire log, the agent's HTTP end, mandates' content (in `Bargain`).


### Bargain

One load, two strategies, a mandate each, and the venue that relays. `ctx` is the
private context of each principal (`Brokers`, `Carriers`), `limits` its mandate,
`last` the strategy's memory. `BrokerNext`, `BrokerOnCounter`, `CarrierOnTender`,
`CarrierNext`, `CarrierOnCounter` are the strategies' functions of the same names,
with their rounding; `Shaped`, `Usable`, `UsableAccept` are the fences of
`llm-strategy.ts` around what a model replies; `Within` is `evaluate` of the mandate
engine. Prices are whole dollars: the code's doubles are rounded before they leave
a strategy.

Left out: lanes, equipment and schedules of a mandate, prompts, signing.


### Identity, Vetting, Watchlist

`Identity` has one company. `mem` and `files` are control rows, spent proofs,
credentials, statuses and the agent in memory and on disk; `unwritten` is what the
running handler has yet to write, one file per `Write`, so that `Crash` comes
between any two. A request waits for vetting between `Onboard`/`AskRotation` and
`Issue`/`Rotate`, and others are served in between. `PostChallenge` and `Verify` are
the challenge store with cooldown, attempts and expiry. One deal stands for those
made under the credentials: `Accept`, `Commit`, `PickUp`, `PrePickupCheck`.

`Vetting` is the provider's record, the answer on its way and the cache, with the
policy (`BlocksOn`), the timeout and what happens on no answer. `Watchlist` is the
sweep that asks for the news from a day on (`From`, `Told`, `Fails`).

Left out: mail, HTTP, the second verifier's transport.


### VenueServer, VenueStore

`VenueServer`: the process recovers before it serves (`Start`, `Recovered`), each
job's timer goes off while its run may still be under way (`Due`, `End`), callers
are admitted by token buckets, of which old ones are forgotten (`Admit`, `Stale`).
`VenueStore`: rows in memory, the cache of what was written, the database;
`Persist`, `WriteRow`, `Commit` are the transaction row by row, `Rollback` and `Crash`
end it, `Start` loads, the first time from the JSON file (`WithLegacy`, `Unlink`).

Left out: routing, HTTP, metrics; schemas; SQLite, which is external.


### VenueKeys, Filers

`VenueKeys`: `ring`, `keyFile`, `nextFile`, `journal`, `ledger`, `credential`,
`store` are files; a rotation is a sequence of steps (`AppendEntry`, `InstallKey`,
`InstallRing`, `Reissue`, `Reattest`, `Reseal`, `Persist`, `Finish`), any of which a
`Crash` may follow, and `Recover` takes up the journal. `TrustedAt`, `InTime`,
`VerifyChain` are what everybody else computes from the ring that is shown.

`Filers`: the insurer's keys in the registries' directory, licensed by the
regulator whose keys are a log; mirrors answer from copies, an honest one says of
when. `FilerKeyOfRecord` is how the venue judges a signature, `FilerContradictedBy`
what convicts a mirror.

Left out: signatures themselves, witnesses' keys, parsing of upstream rows.


### Registry, Artifact

`Registry`: one carrier with one policy. A filing is made (`File`) and received
later (`Receive`); `held` are the venue's attestations, from copies of some time,
`word` the insurer's. `FreshAt`, `LiveCheck`, `ContradictedBy`,
`CoverageAssuredThrough`, `InsurerStanding` are the functions of those names in
`protocol/registry.ts` and `registry-mirror.ts`, in days and instants as there.
`Commit`, `Present` (a renewal), `RenewalCheck`, `PrePickupCheck`, `PickUp` are the
venue's uses of them. `honest` says which mirrors and whether the insurer keep
the rules; the rest may say anything signed.

`Artifact` extends it with the artifact made at the commitment, the ledger's
status entries after it, witnesses (of which `Blind` sign anything) and a venue that
may show an old head; `Verify` is the verifier with the words of the day, in the
declared order of its verdicts.

Left out: hashes, signatures and keys (`VenueKeys`, `Filers`), forks (`Witness`).


### Onboarding, Supervisor

`Onboarding`: the console's rows per organisation and proof, the agent's
directory, the processes, and what the venue has registered. A handler waits for
the registry, the venue, a signature or a process (`Asks`/`Answers`), and others run
meanwhile; a wait may fail. `Supervisor`: one agent as an OS process. `process` are
the processes there are, one of which may be on record (`procs`); one told to stop
takes a while, one that outlives the console goes on; `Listen`, `Exit`,
`Restart`, `Sweep`, `Recover`, `Stop` and the change of limits are its events.

Left out: pages, sessions, the hosted keys' storage.


## Runs

Where a module stands for several parts, a behaviour of the run is one of one part,
the others standing still (`part`): the parts share no state, and one run of each is
cheaper than their product. A property that names several in its definition is the
conjunction of what the component modules state.

| Run | Question | Bounds | States |
|---|---|---|---|
| `commit_overlap` | Do chain, records, guarantees and books agree when two negotiations of one load interleave and the process dies at any write? | 2 tasks, 2 handlers, 1 offer, 2 commitment ids, 1 crash, no lifecycle | 1,601,908 |
| `commit_lifecycle` | Is what is committed what was agreed, does a load's life go in order, is every decision carried out, and is all this a `CommitPoint`? | 1 task, 2 handlers, 2 offers, 2 rounds, 1 id, 1 crash, all events; fairness | 308,116 |
| `load_rules` | Which rules hold when one handler runs at a time, and can a carrier tender on the load it is to perform? | 2 tasks, 1 offer, 2 rounds, 2 ids, 2 crashes in turn; and a broker's task with its carrier's, overlapping, 1 id, 1 crash | 2,162,205 |
| `outbox_delivery` | Is every notice delivered or given up on, once, and what overtakes what? | a forwarded tender, a commitment and a pickup told to two agents, 2 attempts, window 3, 1 late push, 1 restart or retry; fairness | 778,302 |
| `guarantees` | Do reserve, exposure, limits and claims stay right across crashes between files? | 2 guarantees of one carrier covering 2, amounts 1 and 3, premium 1, limits 3 and 5, 2 claims, 1 crash | 4,338,505 |
| `witness` | Can an honest venue be convicted, a witness sign two histories, a split go unseen, a witness fall behind for good? | 2 witnesses, one shown a second book, 1 poll of each at a time, 2 entries after the first; fairness | 12,274 |
| `status_notices` | Do issuer's file, ledger and promises agree across crashes, does the venue start again, are kept promises left alone? | a credential issued here and one that was not, 3 notices, 2 statuses, 2 crashes, one witness; fairness | 182,854 |
| `agent_session` | Does the agent act once on what it hears, does its book follow, is a deal one both can live with, do keys stay trusted, here and at the venue? | a load tendered and one received, limit 1, 2 attempts, 1 fault; 6 brokers and 16 carriers with 2 mandates each on one lane, 8 rounds; 3 keys and 2 roots of the venue, 1 crash; 3 publications and 2 starts of an agent that follows | 2,748,877 |
| `identity` | Is a credential's key proven, is the provider's news heard, does a restart restore, is a message taken in once, is no honest directory convicted? | 2 keys, 2 challenges, 1 statement, 2 requests, 2 credentials, 3 instants, 1 crash; small instances of the six others | 2,143,867 |
| `artifacts` | Is a moving load covered, is no honest mirror accused, is the verdict on an artifact just? | 2 mirrors and an insurer of which any may lie, 2 instants a day, a day's notice, 4 instants, 2 entries after the commitment, 2 witnesses of which one is blind | 531,722 |
| `console` | Is a company one client's, are credentials the principal's who proved control, does an agent come back? | 2 clients, 2 companies, 2 requests, 2 proofs, 2 mandates; 4 processes, 2 changes of limits, 1 death, 1 stop of the console; fairness | 1,013,746 |
| `race_one_load` | (violation) Has a load one ACTIVE commitment with handlers that overlap? | 2 tasks, 2 handlers, 2 ids, no crash | - |

Why the bounds are enough: a race needs two handlers and two tasks, and a third
of either adds no new pair of awaits; a second offer is what makes terms differ, a
second round what makes an acceptance stale; one crash reaches every point
between two writes, and `load_rules` adds a crash during recovery; the claims
cover amounts below and above what is covered, and a reserve that starts with
nothing forces both deferral and later payment; two entries after the first allow
a book with an entry left out and an entry after it, the least that makes two
books differ and grow; three notices about one credential issued here (about it,
its entity, another) meet every branch of `applyNotice`, and two statuses make an
old entry and a new one of one credential; three keys make a compromise of a key
that was itself put in for a compromised one; four instants of two a day put a
filing, its receipt, a sync and a pickup on one day and on different ones; four
processes are one on record, one leaving, one started too early and one that takes
over. In `artifacts` the run looks at a cancellation or at a status, not at both at
once, and at words presented once before and once after the commitment (`Judged` in
`MCArtifact`, with its reasons); the theorems about `Artifact` are without these
restrictions. Where a component has theorems, they hold for every bound.

Deadlock is not checked: tasks, ids, causes, claims, keys and clocks are finite, so
a run ends when they are used up.

Fairness is assumed only of what a process does by itself while it lives:

- the venue: the writes of a transaction (no await between them), resuming from a
  registry read (it times out), recovery (`server.ts` recovers before it serves),
  the flush job (every `VENUE_SWEEP_MS`), the answer to a push, the end of a backoff
  (at most 30 s), the jobs of reconciliation. None is assumed of agents, operators
  or crashes. One caveat: `rpcCall` has no timeout of its own, so "a push is
  answered or refused" leans on the HTTP client; a peer that holds the connection
  open is outside `Settles`;
- witnesses poll and gossip on a timer for as long as they run, so a request that
  is made again and again is assumed to be answered some time (strong fairness: the
  poll of a growing chain fails now and then), and so is the post of a proof in the
  mail; nothing forces a lost post to be sent again;
- the console: an agent's process loads and listens (`Runs`), a change of limits
  goes on when what it waits for has come (`Serves`), the supervisor's sweep and its
  wait for a health check end (`Sweep`, `Awaited`), and a console that is down is
  started again (`Recover`, its service manager). None of clients or deaths.


## Findings

`race_one_load` states what `README.md` says of a load and exhibits two ACTIVE
commitments: two siblings both accepted, both past the winner check and parked in
`commit()`. The other findings in `PROJECT.json` are stated by a definition of the
module they are about, with the line of the repository they depart from; each was
obtained by running the module with that definition as an invariant or property.
In short:

- venue: a promise that was kept is declared broken by a receipt for an old
  position (`KeptPromise`); after a notice that matched nothing, no status comes on
  the ledger (`StatusesOnLedger`); the portfolio forgets completed loads at a
  restart (`TailCapped`); a retry of a message that the venue died over is taken
  for handled (`ReplayWasHandled`); a rolled-back snapshot leaves the cache wrong
  (`ConsistentView`);
- keys: a crash between two files stops the next start (`StartsAgain`), a second
  compromise leaves a credential untrusted (`StillTrustedAgain`), a revocation is
  dropped when its root falls (`RevokedStaysRevoked`), the agent's key and
  credential part (`KeyOfItsCredential`);
- identity: one proof, two credentials (`ProofSpentOnce`), a challenge good for
  ever (`ProofInWindow`), a compromise overwritten (`CompromiseSticks`), a deal left
  under it (`VoidedUnderCompromise`), no assessment with a policy unset
  (`VettedLately`, with `RiskScoresSet` FALSE);
- insurance: a failed source read as no filing (`CurrencyIsHonest`), the
  regulator's news ignored (`RegulatorNewsBlocks`), an honest mirror convicted by
  the insurer's word (`NoMirrorFramed`), a load moving on a renewal not shown
  (`MovesAssured`), an overlooked compromise (`CompromiseSeen`), uncertainty that
  becomes blame (`UncertainIsNotBlame`);
- bargaining: a pickup the truck cannot make (`ModelKeepsPickup`), below the floor
  (`NeverBelowFloor`), a stalemate without a reason (`StalemateForReason`);
- agent and console: a notice seen and not acted on (`OpenIsPulled`), limits said
  to run and not running (`RunsOnNewLimits`), a live client of another company
  (`LiveForItsEntity`), one directory for two clients (`OwnDirectory`).

Departures met while modelling that no definition states, or that one states
without a line of the repository to hold it against:

- the pre-pickup check voids with a status it read before its await
  (`service.ts:1884`), so a load picked up meanwhile is voided; with one handler at
  a time only an ACTIVE one is (`VoidsActiveInTurn`);
- with overlapping handlers a task canceled by a sweep or a sibling is overwritten
  by the handler that resumes (`README.md:206`, "Terminal tasks accept nothing
  further"); only the weaker `TerminalNeverReopens` holds;
- two messages of the awaited party can both pass the turn check before their
  awaits, and one negotiation then leads to two commitments;
- a load is open for tenders again once it is picked up, because only ACTIVE
  commitments count as won;
- a notice in backoff is overtaken by later ones to the same agent
  (`service.ts:1812`, against "per-recipient ordering"); `OnceAndInOrder` says what
  does hold;
- lifecycle and renewal notices are in memory only when their cause is on disk
  (`service.ts:552`, 605), and a crash forgets them; `NeverForgotten` is about the
  others;
- claims decided by the operator, or settled when capital arrives, are paid
  without an entry on the ledger (`server.ts:134-135`, against `claims.ts:15`);
- a chain that grew during a poll is kept as LEDGER_FORK_DETECTED
  (`witness-core.ts:101-109`), an honest venue's too; it is no proof and the next
  poll mends it; overlapping polls set the last cosigned head back, can sign two
  histories (`POST /poll` of `witness/server.ts`), and go on after their witness has
  halted (`witness-core.ts:119`); promises are judged after a cosign and when one
  is lodged, so with an unchanged head a broken one is not found
  (`witness-core.ts:79`);
- a notice about a credential not issued here is promised and nothing is recorded
  (`service.ts:357-360`); `PromisedIsRecorded` excepts it;
- the agent caches a venue key it never reads (`runtime.ts:192`), and drops the
  local task of a tender that comes OPEN after REFUSED (`runtime.ts:488-499`, 617);
- `verifyChain` passes over re-certifications (`chain.ts:157-169`);
- the registry's word and the grace of a rotation are tuned by separate settings
  from the age of messages (`VENUE_ROTATION_GRACE_MS`, `VENUE_MSG_MAX_AGE_MS`), and
  re-onboarding forgets earlier credentials;
- `AskIsHonoured` (`Bargain`), `OneCurrentKey` and `RevokedForGood` (`Identity`),
  `NoProofWorthNothing` (`Vetting`), `AssuredToTheInstant` (`Registry`),
  `ContradictionPredates` (`Artifact`) and `RegisteredIsTold` (`Onboarding`) are
  rules a reader would expect and the code does not keep.


## What is proved

Eight modules hold proofs: for every set of tasks, handlers, agents, mirrors,
witnesses or guarantees, every assignment of parties, and every bound, from the
assumptions named in the modules (sets that are finite where they are counted,
bounds that are naturals, null values that are no values).

**VenueCommit** (`VenueCommitInv`, `VenueCommit_proofs`)

| Theorem | Statement |
|---|---|
| `TypeCorrect`, `Inductive` | `[]TypeOK`, `[]IInv` |
| `BooksCorrect` | `[]BooksMatchLedger` |
| `CommitPointFirst` | `[]NothingBeforeCommitPoint` |
| `AgreedTerms` | `[]CommittedOnAgreedTerms` |
| `RefinesCommitPoint` | the safety half of the refinement of `CommitPoint` |
| `OnceEach` | `[]CommittedOnce` |
| `SiblingsClosed` | `[]NoOpenSibling` |
| `ChainInOrder` | `[]LifecycleInOrder` |
| `EndedStaysEnded` | `TerminalNeverReopens`, an action property |
| `OpensOnlyUnowed` | no negotiation opens for the carrier the chain has committed to the load |
| `FirstWinsInTurn`, `ToldOnceInTurn`, `VoidsActiveInTurn` | with `Overlap = FALSE`: one ACTIVE commitment per load, one outcome told once, VOIDED from ACTIVE only |
| `OneOutcomeInTurn` | `[]OneOutcomePerLoad` of `MCLoadRules`, with `Overlap = FALSE` |

`BooksMatchLedger` speaks of states with no open transaction, so it is not
inductive: the step that closes one must know what the earlier steps did, and the
step of recovery that applies a journal must know what the crash can have left.
`IInv` says it: at most one journal is open, and it is the running transaction's or
one that recovery has yet to reach (`JournalInv`); an id not drawn has left no trace
(`FreshInv`); what a parked check or an open lifecycle event relies on (`CheckInv`,
`LifecycleInv`); and per commitment which effects are in place at which step
(`CommitOpen`, `VoidOpen`, `Settled`). `CommittedOnAgreedTerms` has an invariant of
its own on what parked handlers and acceptances on file carry (`AgreedInv`).
The second module adds what is told and in which order (`ToldInv`, `OnceInv`,
`TaskInv`, `EntryFirst`), and for handlers in turn `SerialInv`: a handler is alone
while it is under way, what it read before its await is still so, and a load has
one winner. `race_one_load` shows that this hypothesis is needed.

**Outbox** (`Outbox_proofs`)

| Theorem | Statement |
|---|---|
| `TypeCorrect` | `[]TypeOK` |
| `NoneForgotten` | `[]NeverForgotten` |
| `SingleCopy` | a notice is never owed twice, nor owed and dead |
| `InOrder` | until a restart, only a notice a push of which failed is overtaken |
| `OnceWhileRemembered` | within its window of ids an agent hands a notice on once |
| `OnceInOrder` | `[]OnceAndInOrder`, when the window holds every notice there can be |

The invariant relates list, rows, dead letters and inbox (`BoxInv`), the running
flush to the list (`FlushInv`), and everything pushed to a cause that has happened
(`OwedInv`); order needs in addition that a notice that leads another one is ahead
of it in the list, in the pass and on the wire (`OrderInv`), until a restart reloads
the rows in the order they were last written. `OnceInOrder` has the hypothesis
because the code remembers the last 1000 ids: beyond that a repeated push is handed
on again.

**Underwriting** (`Underwriting_proofs`)

| Theorem | Statement |
|---|---|
| `RecordsKeepTypes` | `[]TypeOK`; in it, no claim is decided for more than its guarantee covers |
| `NeverPaidFromNothing` | `[]ReserveBears` |
| `ClaimsAlwaysRight` | `[]ClaimsAreRight` |
| `CapitalReachesClaims` | `CapitalGoesToClaims`, an action property |
| `ExposureBooked` | every commitment has its guarantee and its entry in the book, what was given back is given back |
| `SumsAlwaysRight` | `[]SumsAreRight`: exposure comes back, the limits hold, the reserve counts what was earned and paid |

A restart reads files of different moments. The files are written in one order, so
the invariant says that every mixture a crash can leave is consistent (`WriteInv`,
`RecordInv`, `ChainInv`, `SettleInv`; `BookExact` of memory).

`SumsAlwaysRight` is about sums over sets of any size. The library's induction takes
an operator as a parameter, which the provers cannot instantiate; the laws of sums
(`TotalAgrees`, `TotalType`, `TotalWithout`, `TotalWith`: a number may be taken out or
put in anywhere) are therefore proved from the order of the natural numbers being well
founded (`NoLeastMissed`): the set of the sizes for which a law holds is all of them.
The invariant (`SumsInv`, which TLC checked before it was proved) says

- of the limits, that the transaction that is open has been quoted: what the book holds
  stays within the carrier's limit when its guarantee is added, in memory and in the
  file a restart reads (`LimitsInv`); the portfolio likewise until a crash
  (`PortfolioInv`). It needs that one transaction is open at a time;
- of the reserve, that it is behind what it counts: premiums behind the guarantees of
  record, payouts behind the claims paid, on disk because guarantees and claims are
  written before it (`PremiumsInv`, `PayoutsInv`).

**Witness, Onboarding** (`Witness_proofs`)

| Theorem | Statement |
|---|---|
| `TypeCorrect` | `[]TypeOK` |
| `NoneConvicted` | `[]NoFalseProof` |
| `OneLine` | `[]OneHistory`, for a witness with one poll at a time |
| `ClientsAlwaysOwn` | `[]ClientsOwn` |

As long as the venue is honest everything a witness holds is a prefix of one book
(`OneBook`), and two prefixes of one length are equal, so that no receipts
contradict. `NoFalseProof` alone is not inductive: it says nothing of the receipts a
proof would be made of. `OneLine` is of any venue: what a witness has verified and
what its poll carries lie on the line of its last head (`InLine`). With two polls at
once it is false (see the findings).

`ClientsAlwaysOwn` is about the console, which its clients' requests leave and enter
at every wait. The row of a proof stays the organisation's it was made for (`Known`),
and one whose challenge was answered is of the principal who reads the company's
mailbox (`ProofsInv`). An agent's directory, its process and a request on its way hold
a configuration whose proof is of the organisation it names (`ConfigFits`,
`HoldsInv`), though the company its client has claimed may be another by then: what
the venue compares is the proof's company with the configuration's (`Accepts`), and
so the credential goes to the principal who proved control.

**StatusNotices** (`StatusNotices_proofs`)

| Theorem | Statement |
|---|---|
| `PromisesRecorded` | `[]PromisedIsRecorded` |
| `StatusesCovered` | `[]MatchedOnLedger` |

Times are handed out in order, so that the status of a notice in work is on no
entry (`Fresh`); a notice in work is recorded or has a credential left that will put
it on the ledger (`Owing`); a status not on the ledger is next to be recorded or in
what recovery still goes through (`Covered`), which a crash gives up and `Recover`
establishes anew.

**Registry, Artifact** (`Artifact_proofs`)

| Theorem | Statement | Hypotheses |
|---|---|---|
| `InnocentNeverConvicted` | `[]HonestNeverAccused` | `FilingsFail = FALSE` |
| `CoverHolds` | `[]CoveredInTransit` | |
| `NewsAlwaysBlocks` | `NewsBlocks`, an action property | `FilingsFail = FALSE` |
| `FineMeansCovered` | a fine verdict is covered through the delivery, by an honest insurer | |
| `OnlyLiarsConvicted` | a mirror is convicted only if one lied or the registry received the filing a day late, the insurer only if it lied | `FilingsFail = FALSE` |
| `OneWordConvicts` | a lie that an honest word of today shows is convicted | `FilingsFail = FALSE`, a clock that ends a notice period before `Never` |
| `FineMeansWitnessed` | a fine verdict with witnesses has no first status older than the tolerance that spoils the signature | polls end in time, fewer blind witnesses than the quorum |
| `VerdictsAreJust` | `[]VerdictIsJust` | these together |

The invariant relates three clocks: when a copy was taken and when its mirror says
so (`HeldInv`), when a word was signed (`WordInv`), the dates of a filing
(`WorldInv`); and what the deal may count on (`DealInv`). For the verdict:
what the artifact embeds was held then (`MadeInv`, `RenewalInv`), and a cosigned head
was no longer than the ledger, what follows it was recorded later (`LedgerInv`). With
`FilingsFail` an honest mirror's summary misses filings (finding `CurrencyIsHonest`),
and it can be convicted. The hypotheses are satisfied by `Artifact.cfg`.

**AgentRuntime, AgentKeys, VenuePin, VenueKeys, Bargain** (`AgentRuntime_proofs`)

| Theorem | Statement |
|---|---|
| `TypeCorrect` | `[]Types` |
| `ActedOnOnce` | `[]HandledOnce` |
| `BookIsRight` | `[]BookIsTrue`: the book counts each load held to be committed once, and an end not yet learnt can still be |
| `LimitHolds` | `[]CommittedWithinLimit` |
| `KeysAlwaysFollowed` | `[]KeysFollowed`: the agent's own keys and those of the venue |
| `DealAlwaysHonoured` | `[]DealHonoured`: what the two sides agree on, both stand by |
| `SignaturesAlwaysTrusted` | `[]SignaturesTrusted`: what the venue has signed stays trusted through its rotations |

The limit is checked in memory before an acceptance is sent, and what it protects is
at the venue, several messages later. So the invariant follows a load all the way:
while it is the agent's turn there is one request, or one handler, or one message
under way for it (`TurnInv`), no acceptance is of a later round than the venue's
(`RoundInv`), a notice of an end says what the venue holds and the agent has been
sent it (`TellInv`), what memory and file disagree about has a handler (`JobInv`);
then the book is the set of loads held, in order of the notices (`FollowInv`), and
that set with the acceptances not yet answered is within the limit (`LimitInv`). The
exceptions the properties make are those of the code: notices out of order
(`overtaken`, which a push in backoff brings about), a notice seen and not acted on
(`torn`, finding `OpenIsPulled`), and two acceptances at once (`racing`).
`AgentAssumption`: the tasks are finite, "none" is not one of them, those the agent
tenders are some of them, the limit and the rounds are naturals.

`KeysAlwaysFollowed`, of its own keys: what a file holds while the agent is down is
enough to go on (`FilesKept`), a key is proven before the file that answers for it is
gone (`BeforeProof`), there is one attempt at a time (`OneAttempt`), and what was sent
names keys it still holds (`SentInHand`). Of the venue's keys: the histories the venue
publishes grow, and each is consistent in itself (`PublishedFits`); from what it has
heard the agent knows every root, every key and every revocation that its roots let it
believe (`KnowsHeard`). Answers come in any order, so that an old one must take nothing
back: trust in a statement only fades as the root log grows (`TrustFades`).

`DealAlwaysHonoured`: an offer on the table is the last one of the side that made it
(`OnTable`), an offer or acceptance on the wire is what its sender meant (`OnWire`),
and each side accepts and offers only what its strategy and its mandate bear
(`LastMeant`, `BothBear`), also with a model's proposals in place of the rule's. It is
proved for the mandates, market contexts and replies of `MCBargain`, and any distance
and number of rounds; of the mandates and contexts the steps use only that their
amounts are naturals.

`SignaturesAlwaysTrusted` is for any number of keys, roots, instants and crashes
(`KeysInv` of `VenueKeysInv`). A rotation writes journal, ledger, key file, ring, credential, store, one
after the other, so at any time the ring is what the ledger says but for the rotation
under way, which is on the ledger and not yet installed (`KeyAhead`, `RootAhead`;
`LedgerInv`, `RingInv`); the journal says which, and `StepInv` how far it has come.
The active key is never revoked, and has a certificate made in its root's time: when
a root is declared compromised the journal carries the new certificate, which is
installed with the root (`RootJournalInv`, `TenureInv`). A declared compromise
casts doubt on entries, attestations and the credential; each is signed again by a
later step of that same rotation, or that step is still to come (`AffirmedInv`,
`AttestedInv`, `CredentialInv`: `Before`). Recovery takes up the journal, and drops
only one whose entry is not on the ledger, so nothing still to come is forgotten. A
verifier of the chain alone then builds the ring's roots and revocations from the
ledger and comes to the same verdict (`ChainShowsRing`). `VenueTimeAssumption`: there
is a first instant.

**Identity, Vetting, Watchlist, VenueStore, VenueServer, Intake, Filers**
(`MCIdentity_proofs`)

| Theorem | Statement |
|---|---|
| `ControlAlwaysProven` | `[]ControlIsProven` |
| `NewsAlwaysReaches` | `[]NewsReachesVenue`, with the risk scores set (`RiskScoresSet`) |
| `AlwaysServesAsBefore` | `[]ServesAsBefore` |
| `HonestAlwaysKeepStanding` | `[]HonestKeepStanding` |
| `KeysAlwaysInTurn` | `KeysInTurn`, an action property and the words of an honest mirror |

Each is about the behaviours of `MCIdentity`, in which one part moves at a time, and
each part has an invariant of its own. The issuer's files are written one after the
other, a crash keeps any first few of the writes, and what memory holds is what
the files will say once the writes still under way are done (`IdInv`: `WritesFit`,
`PostsFit`). A record the provider's answer rests on was held since the question was
asked, and a question waits no longer than its timeout (`VettingInv`). A day of news
that no sweep has told yet lies ahead of the sweep under way or after it (`NewsInv`).
What the process remembers to have written is on disk, or on its way in the open
transaction, as long as no write has failed (`StoreInv`). What a caller was admitted
and the tokens it has left are no more than a full bucket and the refill since
(`ServerInv`). A message handled has its nonce on record until it is stale for good
(`NoncesInv`), and one refused for a routine change of key was signed after it
(`RefusedInv`). The assumptions say that times and counts are numbers, that a day has
hours, that the heartbeat is a row, that a bucket that may be forgotten is full again
(`RateAssumption`), and that the company has answered a challenge.

A deal that is active or agreed is under a credential that is on disk (`DealInv`). An
heir is issued after the credential it succeeds (`Succeed`), so that following heirs
from it comes to an end (`LineEnds`, `CurrentHasNoHeir`), and that end is ACTIVE unless
it was revoked: a rotation on the way voids no deal. Of the directory, one mirror that
keeps the rules is among those asked (`HonestAsked`), and it refuses a revoked key.

Only model-checked: liveness (`DecidedAndResolved`, `Settles`, `SplitOrCosigned`,
`ServesAndKeeps`, `ComesBack`), which is beyond the prover; and `VoidsAndTendersInTurn`: its
two parts are theorems about `VenueCommit` (`VoidsActiveInTurn`, `OpensOnlyUnowed`), and
the prover cannot cite a theorem through the instance with a parameter, `Rebroker(t)`,
that the run puts beside it.


## Not modelled

The pricing model, EDI, the simulator, pages and views, command lines and the wire
helpers: pure computation, formatting, fixtures. The arithmetic of the reply clock:
a timeout may fire at any time. A torn last line of the ledger file: an append is
taken as atomic. `PROJECT.json` names for each component what is left out of it.


## Next

1. The reply clock: the time a crash takes is credited to the parties from the last
   sign of life, which recovery overwrites (`service.ts:1637`). No property covers it,
   since `Timeout` may fire at any time.
2. The ledger file with bytes: a torn last line makes start-up throw (`chain.ts:60`).
