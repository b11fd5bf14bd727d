--------------------------- MODULE VenueCommitInv ---------------------------
(***************************************************************************)
(* The inductive invariants of VenueCommit: what is true in the middle of  *)
(* a transaction, and of handlers parked at an await.                      *)
(***************************************************************************)
EXTENDS VenueCommit

\* At most one journal is open: that of the transaction being written, or one
\* a crash left and recovery has not reached
JournalInv ==
    /\ \A c, d \in Cids : journal[c] # "none" /\ journal[d] # "none" => c = d
    /\ \A c \in Cids : journal[c] # "none" =>
          \/ Recovering
          \/ section.cid = c /\ section.kind = journal[c]
    /\ section.kind \in {"COMMIT", "VOID"} => journal[section.cid] = section.kind
    /\ section.kind \in Events => mode = "serving"
    /\ mode = "recovering" =>
          /\ section # Idle => NoneInFlight
          /\ \A g, h \in Handlers : calls[g] # NoCall /\ calls[h] # NoCall => g = h
          /\ \A h \in Handlers : calls[h].kind \in {"none", "COMMIT"}

\* A commitment id not drawn yet has left no trace
FreshInv ==
    \A c \in Cids : c >= nextCid =>
        record[c] = "none" /\ journal[c] = "none" /\ intent[c] = NoIntent

\* A pre-pickup check is about a recorded commitment
CheckInv == \A h \in Handlers :
                calls[h].kind = "CHECK" => record[calls[h].cid] # "none"

\* A lifecycle event in progress is one the record's status allows
LifecycleInv ==
    section.kind \in Events =>
        /\ record[section.cid] = From(section.kind)
        /\ section.step = "snapshot" /\ section.kind = "DELIVERY_ACCEPTED"
             => guarantee[section.cid] # "ATTACHED"

Doing(c, steps) == section.cid = c /\ section.step \in steps

\* A commit begun: what is done so far, and nothing before the ledger entry
CommitOpen(c) ==
    /\ record[c] \in {"none", "ACTIVE"}
    /\ guarantee[c] # "none" =>
          guarantee[c] = "ATTACHED" /\ intent[c].guaranteed
    /\ \A s \in Sides : exposure[c][s] \in {"none", "held"}
    /\ ~OnLedger("VOID", c)
    /\ ~OnLedger("COMMITMENT", c) =>
          /\ record[c] = "none" /\ guarantee[c] = "none"
          /\ \A s \in Sides : exposure[c][s] = "none"
    /\ Doing(c, {"append"}) => ~OnLedger("COMMITMENT", c)
    /\ Doing(c, {"guarantee", "broker", "carrier", "snapshot", "cleanup"}) =>
          OnLedger("COMMITMENT", c)
    /\ Doing(c, {"broker", "carrier", "snapshot", "cleanup"})
          /\ intent[c].guaranteed => guarantee[c] # "none"
    /\ Doing(c, {"carrier", "snapshot", "cleanup"}) =>
          exposure[c]["broker"] = "held"
    /\ Doing(c, {"snapshot", "cleanup"}) => exposure[c]["carrier"] = "held"
    /\ Doing(c, {"cleanup"}) => record[c] = "ACTIVE"

\* A void begun, possibly of a commitment that is voided already
VoidOpen(c) ==
    /\ record[c] # "none"
    /\ OnLedger("COMMITMENT", c)
    /\ guarantee[c] # "none" <=> intent[c].guaranteed
    /\ \A s \in Sides : exposure[c][s] \in {"held", "released"}
    /\ record[c] = "COMPLETED" => guarantee[c] # "ATTACHED"
    /\ ~OnLedger("VOID", c) =>
          /\ record[c] # "VOIDED"
          /\ \A s \in Sides : exposure[c][s] = "held"
    /\ record[c] = "VOIDED" =>
          /\ guarantee[c] \in {"none", "RELEASED"}
          /\ \A s \in Sides : exposure[c][s] = "released"
    /\ Doing(c, {"guarantee", "broker", "carrier", "snapshot", "cleanup"}) =>
          OnLedger("VOID", c)
    /\ Doing(c, {"broker", "carrier", "snapshot", "cleanup"}) =>
          guarantee[c] \in {"none", "RELEASED"}
    /\ Doing(c, {"carrier", "snapshot", "cleanup"}) =>
          exposure[c]["broker"] = "released"
    /\ Doing(c, {"snapshot", "cleanup"}) => exposure[c]["carrier"] = "released"
    /\ Doing(c, {"cleanup"}) => record[c] = "VOIDED"

BookInv(c) ==
    /\ journal[c] = "none" => Settled(c)
    /\ journal[c] = "COMMIT" => CommitOpen(c)
    /\ journal[c] = "VOID" => VoidOpen(c)

\* The books are right, or a journal says what is missing
IInv ==
    /\ TypeOK
    /\ JournalInv
    /\ FreshInv
    /\ CheckInv
    /\ LifecycleInv
    /\ \A c \in Cids : BookInv(c)

\* What a parked handler carries to the commitment: terms, and for a commit
\* those of both acceptances on file
CarriesAgreed(call) ==
    /\ call.kind \in {"ACCEPT", "COMMIT"} => call.terms # NoOffer
    /\ call.kind = "COMMIT" =>
          \A s \in Sides : accepted[call.task][s] = call.terms

\* Two acceptances on file agree, and every journal was written from such a pair
AgreedInv ==
    /\ \A t \in Tasks : FullyAccepted(t) =>
          accepted[t]["broker"] = accepted[t]["carrier"]
    /\ \A h \in Handlers : CarriesAgreed(calls[h])
    /\ \A c \in Cids :
          /\ c < nextCid => intent[c] # NoIntent
          /\ intent[c] # NoIntent =>
                \A s \in Sides : intent[c].signed[s] = intent[c].terms
----------------------------------------------------------------------------
(* Outcomes of negotiations, and the order of the chain                    *)

Carrying(h, kinds) == calls[h].kind \in kinds

\* A tender parked at its await is the only one of its task, which is not yet
\* tendered; every other parked handler is about a task that is, and so is
\* every commit journal
TaskInv ==
    /\ \A h \in Handlers : Carrying(h, {"TENDER"}) =>
          /\ state[calls[h].task] = "none"
          /\ \A g \in Handlers :
                Carrying(g, {"TENDER"}) /\ calls[g].task = calls[h].task => g = h
    /\ \A h \in Handlers : Carrying(h, {"COUNTER", "ACCEPT", "REJECT", "COMMIT"})
          => state[calls[h].task] # "none"
    /\ \A c \in Cids : intent[c] # NoIntent => state[intent[c].task] # "none"

Tells(n, type, c) == n = [type |-> type, cid |-> c]

\* COMMITTED is told of a commitment once, to the parties of its task; while the
\* commit journal is there the task's status remembers that it was told
ToldInv ==
    \A c \in Cids, t \in Tasks : \A i \in 1 .. Len(told[t]) :
        Tells(told[t][i], "COMMITTED", c) =>
            /\ intent[c] # NoIntent /\ intent[c].task = t
            /\ journal[c] = "COMMIT" => status[t] = "COMMITTED"
            /\ \A j \in 1 .. Len(told[t]) : Tells(told[t][j], "COMMITTED", c) => i = j

OnceInv == \A c \in Cids : \A i, j \in Positions("COMMITMENT", c) : i = j

\* The record follows an event only when the chain holds it
EntryFirst ==
    section.kind \in Events /\ section.step \in {"guarantee", "snapshot"} =>
        OnLedger(section.kind, section.cid)

----------------------------------------------------------------------------
(* While one handler runs at a time                                        *)

\* What the parties of a committed negotiation have been told
Outcome(c) == IF record[c] = "VOIDED"
              THEN <<[type |-> "COMMITTED", cid |-> c], [type |-> "VOIDED", cid |-> c]>>
              ELSE <<[type |-> "COMMITTED", cid |-> c]>>

\* A handler in flight is alone, and its negotiation or commitment waits for it
AloneInv ==
    /\ \A g, h \in Handlers : calls[g] # NoCall /\ calls[h] # NoCall => g = h
    /\ section # Idle => NoneInFlight
    /\ \A h \in Handlers :
          /\ Carrying(h, {"COUNTER", "ACCEPT", "REJECT", "COMMIT"}) =>
                Open(calls[h].task)
          /\ Carrying(h, {"COMMIT"}) => ~Won(calls[h].task)
          /\ Carrying(h, {"CHECK"}) => record[calls[h].cid] = "ACTIVE"

\* A commit journal whose record is not written is of an open negotiation that
\* has not lost its load, and a void journal of what may be voided
PendingInv ==
    \A c \in Cids :
        /\ journal[c] = "COMMIT" /\ record[c] = "none" =>
              Open(intent[c].task) /\ ~Won(intent[c].task)
        /\ journal[c] = "VOID" => record[c] \in {"ACTIVE", "VOIDED"}

OutcomeInv ==
    /\ \A t \in Tasks :
          /\ status[t] = "COMMITTED" <=> state[t] = "completed"
          /\ state[t] \in {"none", "working", "rejected"} => told[t] = <<>>
          /\ state[t] \in {"canceled", "failed"} =>
                told[t] = <<[type |-> "REFUSED", cid |-> 0]>>
          /\ state[t] = "completed" =>
                \E c \in Cids : record[c] # "none" /\ intent[c].task = t
    /\ \A c \in Cids : record[c] # "none" =>
          /\ intent[c] # NoIntent
          /\ state[intent[c].task] = "completed"
          /\ told[intent[c].task] = Outcome(c)

SerialInv == AloneInv /\ PendingInv /\ OutcomeInv /\ OneActivePerLoad
=============================================================================
