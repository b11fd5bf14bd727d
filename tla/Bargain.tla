------------------------------- MODULE Bargain -------------------------------
(***************************************************************************)
(* The bargaining over one load: the strategies of the two agents           *)
(* (agents/broker/strategy.ts, agents/carrier/strategy.ts), a language      *)
(* model that may price in their place (agentkit/llm-strategy.ts), the      *)
(* mandate each is held to (mandate/engine.ts, mandate/validate.ts) and the *)
(* venue that relays the offers (service.ts, startNegotiation and advance). *)
(*                                                                         *)
(* Money is in whole dollars, percentages are whole: the code's doubles are *)
(* rounded to whole dollars before they leave a strategy.  A pickup is the  *)
(* hour its window starts, counted from the start of the load's own.        *)
(* Crashes, lost messages and time are AgentRuntime's and VenueCommit's.    *)
(***************************************************************************)
EXTENDS Integers, FiniteSets

CONSTANTS
    Brokers,     \* private contexts a broker may have
    Carriers,    \* private contexts a carrier may have
    MandatesOf,  \* [side -> limits its principal may sign]
    Miles,       \* of the load
    ModelReplies,\* replies a language model may give
    ModelRounds, \* maxModelRounds of the strategy
    MaxRounds    \* the venue's bound

Sides == {"broker", "carrier"}
Other(s) == IF s = "broker" THEN "carrier" ELSE "broker"

VARIABLES
    ctx,     \* [side -> the private context of its principal]
    limits,  \* [side -> the limits of its mandate]
    models,  \* the sides a language model prices for
    guaranteed, \* whether the venue would stand behind the deal
    task,    \* the venue's record of the negotiation
    inbox,   \* the message forwarded to the side awaited
    wire,    \* the message on its way to the venue
    last,    \* [side -> its last offer] (myLastOffer)
    judged   \* history: the sides whose acceptance was the model's

vars == <<ctx, limits, models, guaranteed, task, inbox, wire, last, judged>>
principals == <<ctx, limits, models, guaranteed>>

NoOffer == [rate |-> -1, pickup |-> 0, days |-> 0]
Nothing == [type |-> "none", by |-> "broker", offer |-> NoOffer, round |-> 0]

----------------------------------------------------------------------------
(* Arithmetic                                                              *)

\* round5: Math.round(x / 5) * 5 of the fraction n/d
Round5(n, d) == ((2 * n + 5 * d) \div (10 * d)) * 5
Ceil(n, d) == -((-n) \div d)
Least(a, b) == IF a <= b THEN a ELSE b
Greatest(a, b) == IF a >= b THEN a ELSE b

\* The most a broker pays: its margin, its ceilings per load and per mile
MaxPay == Least((ctx["broker"].customer * (100 - ctx["broker"].minMargin)) \div 100,
                Least(limits["broker"].max, limits["broker"].maxMile * Miles))

BrokerOpening ==
    LET b == ctx["broker"]
    IN Least(Round5(b.customer * (100 - b.targetMargin) * (100 - b.discount), 10000), MaxPay)

\* economics(): the floor, the target and the opening ask of the carrier
Floor == Greatest(Ceil(ctx["carrier"].cost * (100 + ctx["carrier"].minMargin), 100),
                  Greatest(limits["carrier"].min, limits["carrier"].minMile * Miles))
Target == Ceil(ctx["carrier"].cost * (100 + ctx["carrier"].targetMargin), 100)
OpeningAsk == Round5(Target * (100 + ctx["carrier"].markup), 100)

\* The first pickup the truck can make, given the one offered
PickupFor(offered) == Greatest(ctx["carrier"].earliest, offered)

----------------------------------------------------------------------------
(* The mandate                                                             *)

\* The agent refuses to start on limits that cannot be meant
Coherent(l) == /\ l.min <= l.max /\ l.minMile <= l.maxMile
               /\ l.days.min <= l.days.max /\ l.rounds >= 1

\* evaluateMandate(): lane and equipment are the load's and never move, in
\* `carries`; the counterparty's insurance and its insurer's word, in `covered`
Within(l, kind, o, round, available) ==
    /\ o.rate >= l.min /\ o.rate <= l.max
    /\ o.rate >= l.minMile * Miles /\ o.rate <= l.maxMile * Miles
    /\ l.carries
    /\ kind = "TENDER" => l.tenders
    /\ round <= l.rounds
    /\ o.days \in l.days.min .. l.days.max
    /\ kind = "ACCEPT" => /\ l.covered
                          /\ l.guarantee => available
                          /\ o.rate <= l.room

\* What the venue holds of it (envelopeToLimits): no rate per mile, no rounds, no
\* payment terms
Envelope(l) == [l EXCEPT !.minMile = 0, !.maxMile = l.max, !.tenders = TRUE,
                         !.rounds = MaxRounds, !.days = [min |-> 0, max |-> 365]]

----------------------------------------------------------------------------
(* The rules of each side: what it makes of an offer                       *)

Accepts == [kind |-> "ACCEPT", offer |-> NoOffer]
Rejects == [kind |-> "REJECT", offer |-> NoOffer]
CounterAt(rate, pickup, days) ==
    [kind |-> "COUNTER", offer |-> [rate |-> rate, pickup |-> pickup, days |-> days]]

\* The offer is no more than `gap` per cent away: |a - b| / base <= gap
Near(a, b, base, gap) == (a - b) * 100 <= gap * base

BrokerNext(ask, mine) ==
    Least(MaxPay, Round5(100 * mine + ctx["broker"].concession
                                        * (Least(ask, MaxPay) - mine), 100))

BrokerOnCounter(o) ==
    LET b == ctx["broker"]
        mine == Greatest(last["broker"].rate, 0)
        suits == o.pickup <= b.flex
    IN IF suits /\ \/ o.rate <= MaxPay /\ Near(o.rate, mine, o.rate, b.gap)
                   \/ BrokerNext(o.rate, mine) >= o.rate
       THEN Accepts
       ELSE CounterAt(Greatest(BrokerNext(o.rate, mine), mine),
                      IF suits THEN o.pickup ELSE last["broker"].pickup, b.days)

CarrierOnTender(o) ==
    IF PickupFor(o.pickup) = o.pickup /\ o.rate >= Target
    THEN Accepts
    ELSE CounterAt(Greatest(OpeningAsk, o.rate), PickupFor(o.pickup), ctx["carrier"].days)

CarrierNext(offer, mine) ==
    Greatest(Floor, Round5(100 * mine - ctx["carrier"].concession
                                          * (mine - Greatest(offer, Floor)), 100))

CarrierOnCounter(o) ==
    LET c == ctx["carrier"]
        mine == IF last["carrier"] = NoOffer THEN OpeningAsk ELSE last["carrier"].rate
        suits == PickupFor(o.pickup) = o.pickup
    IN IF suits /\ \/ o.rate >= Floor
                      /\ (o.rate >= Target \/ Near(mine, o.rate, o.rate, c.gap))
                   \/ CarrierNext(o.rate, mine) <= o.rate
       THEN Accepts
       ELSE CounterAt(Least(CarrierNext(o.rate, mine), mine), PickupFor(o.pickup), c.days)

\* onAcceptRequest(): the other side accepted; is it what we put on the table?
Countersigns(s, o) ==
    /\ last[s] # NoOffer
    /\ o.rate = last[s].rate
    /\ IF s = "broker" THEN o.days = last[s].days /\ o.rate <= MaxPay
                       ELSE o.rate >= Floor

Rules(s, m) ==
    CASE m.type = "ACCEPT" -> IF Countersigns(s, m.offer) THEN Accepts ELSE Rejects
      [] m.type = "TENDER" /\ s = "broker" -> Rejects
      [] m.type = "TENDER" /\ s = "carrier" -> CarrierOnTender(m.offer)
      [] m.type = "COUNTER" /\ s = "broker" -> BrokerOnCounter(m.offer)
      [] m.type = "COUNTER" /\ s = "carrier" -> CarrierOnCounter(m.offer)

----------------------------------------------------------------------------
(* The model: a reply is used only inside the mandate and the economics    *)

\* The principal's private bound on a rate, given to llmStrategy by each agent
Acceptable(s, o) == IF s = "broker" THEN o.rate <= MaxPay ELSE o.rate >= Floor

\* withinMandate()
Priced(s, o) ==
    LET l == limits[s]
    IN /\ o.rate >= l.min /\ o.rate <= l.max
       /\ o.rate >= l.minMile * Miles /\ o.rate <= l.maxMile * Miles
       /\ o.days \in l.days.min .. l.days.max

\* The payment terms a counter of the model is checked with
DaysOf(s, m, reply) ==
    IF reply.days >= 0 THEN reply.days
    ELSE IF last[s] # NoOffer THEN last[s].days ELSE m.offer.days

\* Mutant: the model's ACCEPT is not checked
UsableAccept(s, m, reply) ==
    reply.kind = "COUNTER" =>
        LET o == [rate |-> reply.rate, pickup |-> m.offer.pickup,
                  days |-> DaysOf(s, m, reply)]
        IN Priced(s, o) /\ Acceptable(s, o) /\ Rules(s, m).kind = "COUNTER"

\* consult(): the replies the strategy may use
Usable(s, m, reply) ==
    /\ m.round <= ModelRounds
    /\ reply.kind = "COUNTER" =>
           LET o == [rate |-> reply.rate, pickup |-> m.offer.pickup,
                     days |-> DaysOf(s, m, reply)]
           IN Priced(s, o) /\ Acceptable(s, o) /\ Rules(s, m).kind = "COUNTER"
    /\ reply.kind = "ACCEPT" => Priced(s, m.offer) /\ Acceptable(s, m.offer)

\* shaped(): the rules shape the offer, the model prices it
Shaped(s, m, reply) ==
    IF reply.kind # "COUNTER" THEN [kind |-> reply.kind, offer |-> NoOffer]
    ELSE LET base == Rules(s, m).offer
         IN CounterAt(reply.rate, base.pickup, IF reply.days >= 0 THEN reply.days ELSE base.days)

\* The decisions a side may take: the model's where it may speak, else the rules'
Replies(s, m) ==
    IF s \in models /\ m.type # "ACCEPT"
    THEN {r \in ModelReplies : Usable(s, m, r)} ELSE {}

----------------------------------------------------------------------------
Init ==
    /\ ctx \in [Sides -> Brokers \union Carriers]
    /\ ctx["broker"] \in Brokers /\ ctx["carrier"] \in Carriers
    /\ limits \in [Sides -> MandatesOf["broker"] \union MandatesOf["carrier"]]
    /\ \A s \in Sides : limits[s] \in MandatesOf[s] /\ Coherent(limits[s])
    /\ models \in SUBSET Sides
    /\ guaranteed \in BOOLEAN
    /\ task = [state |-> "none", offer |-> NoOffer, by |-> "broker", round |-> 0,
               awaiting |-> "broker", accepted |-> {}]
    /\ inbox = Nothing /\ wire = Nothing
    /\ last = [s \in Sides |-> NoOffer]
    /\ judged = {}

Sent(s, type, o, round) == [type |-> type, by |-> s, offer |-> o, round |-> round]

\* tender(): the broker opens; its mandate may refuse, and nothing is sent
Tender ==
    /\ task.state = "none" /\ wire = Nothing
    /\ LET o == [rate |-> BrokerOpening, pickup |-> 0, days |-> ctx["broker"].days]
       IN IF Within(limits["broker"], "TENDER", o, 1, TRUE)
          THEN /\ wire' = Sent("broker", "TENDER", o, 1)
               /\ last' = [last EXCEPT !["broker"] = o]
               /\ UNCHANGED task
          ELSE /\ task' = [task EXCEPT !.state = "refused"]
               /\ UNCHANGED <<wire, last>>
    /\ UNCHANGED <<principals, inbox, judged>>

\* act() and accept(): the mandate guards what the strategy decided
Act(s, m, d) ==
    CASE d.kind = "COUNTER" /\ Within(limits[s], "OFFER", d.offer, m.round + 1, TRUE) ->
             /\ wire' = Sent(s, "COUNTER", d.offer, m.round + 1)
             /\ last' = [last EXCEPT ![s] = d.offer]
      [] d.kind = "ACCEPT" /\ Within(limits[s], "ACCEPT", m.offer, m.round,
                                     \* only the countersigner has seen the quote
                                     m.type = "ACCEPT" => guaranteed) ->
             /\ wire' = Sent(s, "ACCEPT", m.offer, m.round)
             /\ last' = [last EXCEPT ![s] = m.offer]
      [] OTHER ->
             /\ wire' = Sent(s, "REJECT", NoOffer, m.round)
             /\ UNCHANGED last

\* process(): a message forwarded by the venue is considered by the side awaited
Consider ==
    /\ inbox # Nothing
    /\ LET s == task.awaiting
       IN \/ /\ Act(s, inbox, Rules(s, inbox))
             /\ UNCHANGED judged
          \/ \E reply \in Replies(s, inbox) :
                 /\ Act(s, inbox, Shaped(s, inbox, reply))
                 /\ judged' = IF wire'.type = "ACCEPT" THEN judged \union {s} ELSE judged
    /\ inbox' = Nothing
    /\ UNCHANGED <<principals, task>>

Forward(m) == inbox' = [m EXCEPT !.round = task'.round]

\* startNegotiation()
Opens ==
    /\ wire.type = "TENDER"
    /\ IF Within(Envelope(limits["broker"]), "TENDER", wire.offer, 1, TRUE)
       THEN /\ task' = [state |-> "working", offer |-> wire.offer, by |-> "broker",
                        round |-> 1, awaiting |-> "carrier", accepted |-> {}]
            /\ Forward(wire)
       ELSE /\ task' = [task EXCEPT !.state = "refused"]
            /\ UNCHANGED inbox

\* advance(): a counter replaces the offer on the table
Counters ==
    /\ wire.type = "COUNTER"
    /\ IF /\ task.round + 1 <= MaxRounds
          /\ Within(Envelope(limits[wire.by]), "OFFER", wire.offer, task.round + 1, TRUE)
       THEN /\ task' = [task EXCEPT !.offer = wire.offer, !.by = wire.by,
                                    !.round = @ + 1, !.awaiting = Other(wire.by)]
            /\ Forward(wire)
       ELSE /\ task' = [task EXCEPT !.state = IF task.round + 1 > MaxRounds
                                              THEN "exhausted" ELSE "refused"]
            /\ UNCHANGED inbox

\* advance(): an acceptance is of the offer on the table; two are a commitment
Accepted ==
    /\ wire.type = "ACCEPT"
    /\ IF /\ wire.offer = task.offer
          /\ \/ guaranteed
             \/ \A s \in Sides : ~limits[s].guarantee
          /\ Within(Envelope(limits[wire.by]), "ACCEPT", wire.offer, task.round, guaranteed)
       THEN LET both == task.accepted \union {wire.by}
            IN /\ task' = [task EXCEPT !.accepted = both, !.awaiting = Other(wire.by),
                                       !.state = IF both = Sides THEN "committed" ELSE @]
               /\ IF both = Sides THEN UNCHANGED inbox ELSE Forward(wire)
       ELSE /\ task' = [task EXCEPT !.state = "refused"]
            /\ UNCHANGED inbox

WalksAway ==
    /\ wire.type = "REJECT"
    /\ task' = [task EXCEPT !.state = "refused"]
    /\ UNCHANGED inbox

Relay ==
    /\ Opens \/ Counters \/ Accepted \/ WalksAway
    /\ wire' = Nothing
    /\ UNCHANGED <<principals, last, judged>>

Next == Tender \/ Consider \/ Relay

Spec == Init /\ [][Next]_vars

----------------------------------------------------------------------------
(* Properties                                                              *)

Committed == task.state = "committed"

\* A commitment is at a rate both principals can live with: no more than the
\* broker's customer leaves it, no less than the carrier's costs and minimum
\* margin, whoever opened, conceded or accepted, the rules or the model
\* (maxPay, economics; "the model negotiates inside the principal's economics,
\* never around them", llm-strategy.ts:120).  For a carrier whose target margin
\* is not below its minimum.
DealWithinEconomics ==
    Committed => /\ task.offer.rate <= MaxPay
                 /\ ctx["carrier"].minMargin <= ctx["carrier"].targetMargin
                        => task.offer.rate >= Floor

\* Where the rules decided, the truck can make the pickup and the shipper's
\* dock takes it: windowsOk of both strategies, through counters that moved it
PickupHonoured ==
    Committed => /\ "carrier" \in judged \/ task.offer.pickup >= ctx["carrier"].earliest
                 /\ "broker" \in judged \/ task.offer.pickup <= ctx["broker"].flex

\* A party does not refuse the acceptance of its own offer: what its strategy
\* put on the table, priced by the rules or by the model and capped by rounding,
\* still passes its final check and its mandate when it comes back accepted
\* (onAcceptRequest).  For a carrier that opens no lower than its floor; cover,
\* guarantee and exposure are looked at on acceptance only.
HonoursItsOffer ==
    inbox.type = "ACCEPT" =>
        LET s == task.awaiting
        IN \/ s = "carrier" /\ OpeningAsk < Floor
           \/ /\ Countersigns(s, inbox.offer)
              /\ Within(limits[s], "OFFER", inbox.offer, inbox.round, TRUE)

\* Not so: "the rules keep everything else: the shape of the offer", "an eager
\* ACCEPT of an offer the principal could not live with is refused the same way"
\* (DECISIONS.md:214).  The model's ACCEPT is checked for its rate and payment
\* terms; a pickup the truck cannot make is accepted
ModelKeepsPickup ==
    Committed => /\ task.offer.pickup >= ctx["carrier"].earliest
                 /\ task.offer.pickup <= ctx["broker"].flex

\* Not so: the carrier "never goes below floor" (carrier/strategy.ts:7-8).  It
\* accepts at its target, which a principal may have set below its minimum
NeverBelowFloor == Committed => task.offer.rate >= Floor

\* Not so: an opening ask is the target and a markup, rounded to $5, and may be
\* below the floor: the broker accepts it and is refused (BELOW_MINIMUM)
AskIsHonoured ==
    (inbox.type = "ACCEPT" /\ task.awaiting = "carrier") => Countersigns("carrier", inbox.offer)

\* Not so: they "converge or stalemate for real reasons" (README.md:240).  Eight
\* rounds may not bring the broker to a price that both could live with
StalemateForReason ==
    (task.state = "exhausted" /\ models = {})
        => MaxPay < Floor \/ ctx["carrier"].earliest > ctx["broker"].flex
=============================================================================
