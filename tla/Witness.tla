------------------------------- MODULE Witness -------------------------------
(***************************************************************************)
(* Witnesses of the venue's ledger (src/protocol/witness-core.ts, used by  *)
(* src/witness and by the agents): they poll its head, cosign it if it     *)
(* extends the head they cosigned before, and gossip.                      *)
(*                                                                         *)
(* A hash commits to everything before it, so the hash of a head is the    *)
(* ledger up to it.  The venue may do what the repository's fault switch   *)
(* makes it do: show some witnesses another book; `honest' says whether it *)
(* ever has.  A poll gives up control whenever it asks the venue           *)
(* something.  A receipt is a signed fact, so gossip about one is a single *)
(* step, taken at any time or never.  Left out: witnesses told to sign     *)
(* blindly, and the promises lodged with a witness.                        *)
(***************************************************************************)
EXTENDS Naturals, SequencesExt

CONSTANTS
    Witnesses,
    Polls,      \* slots for polls of a witness in flight
    MaxEntries, \* bound: entries the venue writes after the first
    Fooled      \* witnesses a forking venue shows its second book

ASSUME WitnessAssumption == MaxEntries \in Nat /\ Fooled \subseteq Witnesses

VARIABLES
    ledger,    \* the venue's chain
    fork,      \* the book it shows to some: where it departs, and to whom
    drawn,     \* entries written so far
    honest,    \* history: the venue has done nothing wrong
    last,      \* [Witnesses -> head cosigned last]; empty: none
    seen,      \* [Witnesses -> hashes verified, one per position]
    receipts,  \* [Witnesses -> receipts signed, in order]
    proofs,    \* [Witnesses -> proofs of equivocation held]
    halted,    \* [Witnesses -> has it stopped cosigning?]
    poll,      \* [Witnesses -> [Polls -> poll in flight]]
    mail       \* proofs posted to peers, not yet arrived

venueVars == <<ledger, fork, drawn, honest>>
chainVars == <<last, seen>>
vars == <<venueVars, chainVars, receipts, proofs, halted, poll, mail>>

Entry   == [id : Nat, status : BOOLEAN]
Chain   == Seq(Entry)
NoPoll  == [stage |-> "none"]
NonEmpty == Chain \ {<<>>}
Poll    == [stage : {"entries", "receipt"}, head : NonEmpty, last : Chain]
Mail    == [to : Witnesses, proof : Chain \X Chain]

TypeOK ==
    /\ ledger \in Chain
    /\ fork \in [from : Nat, to : SUBSET Witnesses]
    /\ drawn \in 0 .. MaxEntries
    /\ honest \in BOOLEAN
    /\ last \in [Witnesses -> Chain]
    /\ seen \in [Witnesses -> SUBSET NonEmpty]
    /\ receipts \in [Witnesses -> Seq(NonEmpty)]
    /\ proofs \in [Witnesses -> SUBSET (Chain \X Chain)]
    /\ halted \in [Witnesses -> BOOLEAN]
    /\ poll \in [Witnesses -> [Polls -> Poll \cup {NoPoll}]]
    /\ mail \subseteq Mail

Genesis == [id |-> 0, status |-> FALSE]

Init ==
    /\ ledger = <<Genesis>> /\ fork = [from |-> 0, to |-> {}]
    /\ drawn = 0 /\ honest = TRUE
    /\ last = [w \in Witnesses |-> <<>>]
    /\ seen = [w \in Witnesses |-> {}]
    /\ receipts = [w \in Witnesses |-> <<>>]
    /\ proofs = [w \in Witnesses |-> {}]
    /\ halted = [w \in Witnesses |-> FALSE]
    /\ poll = [w \in Witnesses |-> [s \in Polls |-> NoPoll]]
    /\ mail = {}

----------------------------------------------------------------------------
(* The venue                                                               *)

\* Status entries after `from' are left out of the second book
Kept == {i \in 1 .. Len(ledger) : i <= fork.from \/ ~ledger[i].status}

\* The entries kept, in their order
ForkView ==
    [k \in 1 .. Cardinality(Kept) |->
        ledger[CHOOSE i \in Kept : Cardinality({j \in Kept : j <= i}) = k]]

ViewOf(w) == IF w \in fork.to THEN ForkView ELSE ledger

\* The venue records something: a credential's status, or anything else
Record(status) ==
    /\ drawn < MaxEntries
    /\ drawn' = drawn + 1
    /\ ledger' = Append(ledger, [id |-> drawn + 1, status |-> status])
    /\ UNCHANGED <<fork, honest>>

\* Fault: some witnesses are shown another book
Equivocate(from) ==
    /\ honest
    /\ fork' = [from |-> from, to |-> Fooled]
    /\ honest' = FALSE
    /\ UNCHANGED <<ledger, drawn>>

Venue ==
    /\ \/ \E status \in BOOLEAN : Record(status)
       \/ \E from \in 1 .. Len(ledger) : Equivocate(from)
    /\ UNCHANGED <<chainVars, receipts, proofs, halted, poll, mail>>

----------------------------------------------------------------------------
(* Polling                                                                 *)

Latest(w) == receipts[w][Len(receipts[w])]

Peers(w) == Witnesses \ {w}

Goes(w, s, step) == poll' = [poll EXCEPT ![w][s] = step]

\* The venue answers with its head: if it is further on than the one cosigned
\* last, the entries from there on are asked for; one further back is noted down
\* as a fork.  An answer outgrown on its way ends like one outgrown in PollEntries.
PollHead(w, s) ==
    LET head == ViewOf(w) IN
    /\ ~halted[w]
    /\ poll[w][s] = NoPoll
    /\ Len(head) >= Len(last[w]) /\ head # last[w]
    /\ Goes(w, s, [stage |-> "entries", head |-> head, last |-> last[w]])
    /\ UNCHANGED <<venueVars, chainVars, receipts, proofs, halted, mail>>

\* Mutant: the first entry served is not compared with the one cosigned
ReachesOnly(view, from, head) == view = head

\* The entries served extend the head cosigned before and reach the new one
Extends(view, from, head) == IsPrefix(from, view) /\ view = head

\* The venue serves all entries it has from there on; if they extend the head
\* the witness signs it, and else notes down a fork, grown though it may have
PollEntries(w, s) ==
    LET p == poll[w][s] IN
    /\ p.stage = "entries"
    /\ Goes(w, s, IF Extends(ViewOf(w), p.last, p.head)
                  THEN [p EXCEPT !.stage = "receipt"]
                  ELSE NoPoll)
    /\ UNCHANGED <<venueVars, chainVars, receipts, proofs, halted, mail>>

NewPositions(p) == Len(p.last) + 1 .. Len(p.head)

\* Mutant: only the hash of the head is remembered
RemembersHead(hashes, p) == {p.head}

\* Every hash verified is remembered, one per position
Remembers(hashes, p) ==
    {h \in hashes : Len(h) \notin NewPositions(p)}
      \cup {SubSeq(p.head, 1, i) : i \in NewPositions(p)}

\* The venue has that head and takes the receipt: the head is cosigned
PollCosign(w, s) ==
    LET p == poll[w][s] IN
    /\ p.stage = "receipt"
    /\ IsPrefix(p.head, ledger) \/ IsPrefix(p.head, ViewOf(w))
    /\ last' = [last EXCEPT ![w] = p.head]
    /\ seen' = [seen EXCEPT ![w] = Remembers(@, p)]
    /\ receipts' = [receipts EXCEPT ![w] = Append(@, p.head)]
    /\ Goes(w, s, NoPoll)
    /\ UNCHANGED <<venueVars, proofs, halted, mail>>

\* The venue cannot be reached or refuses the receipt, or the witness dies
PollSkip(w, s) ==
    /\ poll[w][s] # NoPoll
    /\ Goes(w, s, NoPoll)
    /\ UNCHANGED <<venueVars, chainVars, receipts, proofs, halted, mail>>

----------------------------------------------------------------------------
(* Gossip                                                                  *)

HeadsOf(w) == ToSet(receipts[w])

\* A receipt for that head: one signed before, or one signed now
Sign(w, head) ==
    receipts' = IF head \in HeadsOf(w) THEN receipts
                ELSE [receipts EXCEPT ![w] = Append(@, head)]

\* w has a receipt ahead of one of p's; p asks it for one at its own position,
\* which w signs if it has verified that position
SignFor(w, p) ==
    /\ p \in Peers(w)
    /\ \E mine \in HeadsOf(p), h \in seen[w] :
          /\ Len(h) = Len(mine)
          /\ \E ahead \in HeadsOf(w) : Len(ahead) > Len(mine)
          /\ Sign(w, h)
    /\ UNCHANGED <<venueVars, chainVars, proofs, halted, poll, mail>>

\* Mutant: the hash received is compared with the head cosigned last
ContradictsLast(w, head) == {last[w]} \ {head, <<>>}

\* What w has verified at that position, if it is not the same
Contradicts(w, head) == {h \in seen[w] : Len(h) = Len(head) /\ h # head}

\* The receipts w can show for that position, and else the one it signs
Shown(w, h) ==
    LET signed == {m \in HeadsOf(w) : Len(m) = Len(h)}
    IN  IF signed = {} THEN {h} ELSE signed

\* A receipt of w's gets to p, told or asked for, and p compares it with what it
\* has verified; a contradiction is a proof: p halts and posts it to its peers
Gossip(w, p, head) ==
    /\ p \in Peers(w)
    /\ head \in HeadsOf(w)
    /\ \E h \in Contradicts(p, head) : \E mine \in Shown(p, h) \ {head} :
          /\ Sign(p, mine)
          /\ proofs' = [proofs EXCEPT ![p] = @ \cup {<<mine, head>>}]
          /\ halted' = [halted EXCEPT ![p] = TRUE]
          /\ mail' = mail \cup {[to |-> q, proof |-> <<mine, head>>] : q \in Peers(p)}
    /\ UNCHANGED <<venueVars, chainVars, poll>>

\* A peer's proof arrives, and halts the witness
ReceiveProof(m) ==
    /\ proofs' = [proofs EXCEPT ![m.to] = @ \cup {m.proof}]
    /\ halted' = [halted EXCEPT ![m.to] = TRUE]
    /\ mail' = mail \ {m}
    /\ UNCHANGED <<venueVars, chainVars, receipts, poll>>

\* Posted once, and never again if the peer cannot be reached
Lose(m) ==
    /\ mail' = mail \ {m}
    /\ UNCHANGED <<venueVars, chainVars, receipts, proofs, halted, poll>>

----------------------------------------------------------------------------

Next ==
    \/ Venue
    \/ \E w \in Witnesses, s \in Polls :
          \/ PollHead(w, s) \/ PollEntries(w, s) \/ PollCosign(w, s) \/ PollSkip(w, s)
    \/ \E w, p \in Witnesses :
          SignFor(w, p) \/ \E head \in HeadsOf(w) : Gossip(w, p, head)
    \/ \E m \in mail : ReceiveProof(m) \/ Lose(m)

Spec == Init /\ [][Next]_vars

\* The timer polls and gossips over and over; a request that is made again and
\* again is answered some time
Fairness ==
    /\ \A w \in Witnesses, s \in Polls :
          /\ SF_vars(PollHead(w, s)) /\ SF_vars(PollEntries(w, s))
          /\ SF_vars(PollCosign(w, s))
    /\ \A w, p \in Witnesses :
          SF_vars(receipts[w] # <<>> /\ Gossip(w, p, Latest(w)))
    /\ \A w \in Witnesses :
          SF_vars(\E m \in mail : m.to = w /\ ReceiveProof(m))

FairSpec == Spec /\ Fairness

----------------------------------------------------------------------------
(* Properties                                                              *)

\* While the venue does nothing wrong no witness holds a proof against it or
\* halts, however polls overlap, fail or see the chain grow, and however late a
\* receipt is compared (receiveGossip, receiveProof)
NoFalseProof == honest => \A w \in Witnesses : proofs[w] = {} /\ ~halted[w]

\* One witness signs one history: whatever it is shown, of two heads it has
\* signed for, one extends the other (poll, receiptFor, receiveGossip)
OneHistory ==
    \A w \in Witnesses : \A g, h \in HeadsOf(w) : IsPrefix(g, h) \/ IsPrefix(h, g)

Split(w, p) == \E g \in seen[w], h \in seen[p] : Len(g) = Len(h) /\ g # h

LatestIsHead == \A w \in Witnesses : receipts[w] # <<>> => Latest(w) = last[w]

\* A witness that was shown another book than a peer stops cosigning in the end,
\* provided that the latest receipts are those of the heads cosigned last
\* (gossip, receiveGossip, recordProof): a receipt for an old position, signed on
\* demand, takes the place of the one for the head, and a split can go unseen.
SplitDetected ==
    ([]LatestIsHead) =>
       \A w \in Witnesses : (\E p \in Witnesses : Split(w, p)) ~> halted[w]

\* An honest venue's chain is cosigned to its end by every witness, although a
\* chain that grows during a poll is taken for a fork (poll)
KeepsUp == ([]honest) => <>[](\A w \in Witnesses : last[w] = ledger)

\* A split ends in a halt, an honest chain is cosigned to its end
SplitOrCosigned == SplitDetected /\ KeepsUp
============================================================================
