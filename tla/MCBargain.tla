------------------------------ MODULE MCBargain ------------------------------
(* Agents for Bargain: the paces are the defaults of app/onboarding.ts:73-74, *)
(* the prices those of a 780-mile load, spread so that the parties' limits    *)
(* overlap well, barely and not at all.                                       *)
EXTENDS Integers

MCBrokers ==
    {[customer |-> paid, targetMargin |-> 14, minMargin |-> 8, discount |-> 10,
      concession |-> 35, gap |-> 3, flex |-> flex, days |-> 30]
        : paid \in {2300, 2448, 2760}, flex \in {0, 4}}

MCCarriers ==
    {[cost |-> 2000, minMargin |-> 8, targetMargin |-> t, markup |-> up,
      concession |-> 30, gap |-> 3, earliest |-> e, days |-> days]
        : t \in {6, 20}, up \in {0, 12}, e \in {0, 2}, days \in {30, 60}}

Limits(min, max, tenders, guarantee, rounds, days) ==
    [min |-> min, max |-> max, minMile |-> 0, maxMile |-> 10, carries |-> TRUE,
     tenders |-> tenders, rounds |-> rounds, days |-> [min |-> 0, max |-> days],
     covered |-> TRUE, guarantee |-> guarantee, room |-> max]

MCMandates ==
    [broker  |-> {Limits(0, 2450, TRUE, TRUE, 10, 45), Limits(0, 5000, TRUE, FALSE, 10, 60)},
     carrier |-> {Limits(0, 5000, FALSE, FALSE, 10, 60), Limits(2250, 5000, FALSE, FALSE, 4, 60)}]

\* A reply without payment terms has days -1
MCReplies ==
    {[kind |-> kind, rate |-> 0, days |-> -1] : kind \in {"ACCEPT", "REJECT"}}
    \union {[kind |-> "COUNTER", rate |-> r, days |-> -1] : r \in {2100, 2300}}
    \union {[kind |-> "COUNTER", rate |-> 2420, days |-> 45]}
=============================================================================
