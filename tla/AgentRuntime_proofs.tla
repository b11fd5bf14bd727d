------------------------- MODULE AgentRuntime_proofs -------------------------
(***************************************************************************)
(* Theorems about the agents.  Of AgentRuntime, for any tasks, rounds,      *)
(* attempts and faults: a message is handled once, however often it is      *)
(* sent; the agent's book follows what the venue has decided; the mandate's *)
(* limit holds there.  Of AgentKeys and VenuePin: an agent keeps its own    *)
(* key and follows the venue's.  Of Bargain: a deal is one both can bear.   *)
(* Of VenueKeys: what the venue signs stays trusted (VenueKeysInv).          *)
(***************************************************************************)
EXTENDS VenueKeysInv, FiniteSetTheorems, SequenceTheorems, WellFoundedInduction, TLAPS

Elements(s) == {s[i] : i \in DOMAIN s}
Distinct(s) == \A i, k \in DOMAIN s : s[i] = s[k] => i = k

----------------------------------------------------------------------------
(* What the variables hold                                                 *)

\* Notices: of a request, which the venue forwards, and of an outcome
Asks == [task : Tasks \ Outbound, type : {"TENDER"}, round : {1}, copy : {0}]
          \cup [task : Tasks, type : {"COUNTER", "ACCEPT"}, round : Nat, copy : {0}]
Tells == [task : Tasks, type : Outcomes, round : {0}, copy : {0, 1}]
Notices == Asks \cup Tells

C(t) == Notice(t, "COMMITTED", 0, 0)
V(t) == Notice(t, "VOIDED", 0, 0)
R(t) == Notice(t, "REFUSED", 0, 0)

Tenders == [task : Outbound, type : {"TENDER"}, round : {1}]
Replies == [task : Tasks, type : {"COUNTER", "ACCEPT", "REJECT"}, round : Nat]
Messages == Tenders \cup Replies
Attempts == [m : Messages, attempt : Nat]
Answerings == [m : Messages, attempt : Nat, kind : {"task", "refused", "reused"},
               notice : Tells \cup {Nothing}]

\* Handlers before the strategy's decision, and waiting for the answer to a tender
\* or to a reply
Deciding  == [notice : Asks, stage : {"deciding"}, m : {Nothing}, attempt : {0}]
Tendering == [notice : {Nothing}, stage : {"sending"}, m : Tenders, attempt : Nat]
Replying  == {j \in [notice : Asks, stage : {"sending"}, m : Replies, attempt : Nat] :
                 j.m.task = j.notice.task}

States == {"none", "open", "completed", "canceled", "rejected"}
Kept == [state : States, turn : {"me", "other"}, round : Nat \ {0},
         accepted : SUBSET {"me", "other"}, voided : BOOLEAN]
Statuses == {"none", "OPEN", "COMMITTED", "CANCELED", "VOIDED", "REFUSED", "REJECTED"}
Books == [added : SUBSET Tasks, released : SUBSET Tasks, outstanding : Nat]

VenueTypes ==
    /\ venue \in [Tasks -> Kept]
    /\ nonces \subseteq Messages /\ done \subseteq Messages
    /\ parked \subseteq Attempts /\ wire \subseteq Attempts
    /\ answers \subseteq Answerings
    /\ outbox \in Seq(Notices)
AgentTypes ==
    /\ queue \in Seq(Notices) /\ seen \subseteq Notices
    /\ local \in [Tasks -> Statuses] /\ saved \in [Tasks -> Statuses]
    /\ artifacts \subseteq Tasks /\ book \in Books
    /\ jobs \subseteq Deciding \cup Tendering \cup Replying
    /\ overtaken \in BOOLEAN /\ racing \in BOOLEAN
Types == VenueTypes /\ AgentTypes

\* What the venue has begun to handle it knows by its nonce, in one copy, and has
\* not ended
Intake ==
    /\ \A a \in parked : a.m \in nonces /\ a.m \notin done
    /\ done \subseteq nonces
    /\ \A a, b \in parked : a.m = b.m => a = b

(* Sequences                                                               *)

LEMMA Appended ==
    ASSUME NEW S, NEW s \in Seq(S), NEW x \in S
    PROVE  /\ Append(s, x) \in Seq(S) /\ Elements(Append(s, x)) = Elements(s) \cup {x}
           /\ Len(Append(s, x)) = Len(s) + 1 /\ Append(s, x)[Len(s) + 1] = x
           /\ \A i \in DOMAIN s : Append(s, x)[i] = s[i]
           /\ DOMAIN s = 1 .. Len(s) /\ DOMAIN Append(s, x) = 1 .. Len(s) + 1
  <1> QED  BY DEF Elements

LEMMA Headed ==
    ASSUME NEW S, NEW s \in Seq(S), s # <<>>
    PROVE  /\ Head(s) \in S /\ Tail(s) \in Seq(S) /\ Head(s) = s[1]
           /\ Elements(s) = Elements(Tail(s)) \cup {Head(s)}
           /\ Distinct(s) => Distinct(Tail(s)) /\ Head(s) \notin Elements(Tail(s))
           /\ DOMAIN Tail(s) = 1 .. Len(s) - 1 /\ DOMAIN s = 1 .. Len(s)
           /\ \A i \in DOMAIN Tail(s) : Tail(s)[i] = s[i + 1] /\ i + 1 \in DOMAIN s
  <1>1. /\ Head(s) \in S /\ Tail(s) \in Seq(S) /\ Head(s) = s[1] /\ Len(s) \in Nat \ {0}
        /\ Len(Tail(s)) = Len(s) - 1 /\ DOMAIN Tail(s) = 1 .. Len(s) - 1
        /\ DOMAIN s = 1 .. Len(s)
        /\ \A i \in DOMAIN Tail(s) : Tail(s)[i] = s[i + 1]
    BY HeadTailProperties, LenProperties
  <1>2. \A i \in DOMAIN Tail(s) : i + 1 \in DOMAIN s
    BY <1>1
  <1>3. Elements(s) = Elements(Tail(s)) \cup {Head(s)}
    <2>1. ASSUME NEW i \in DOMAIN s PROVE s[i] \in Elements(Tail(s)) \cup {Head(s)}
      <3>1. CASE i = 1
        BY <1>1, <3>1
      <3>2. CASE i # 1
        <4>1. i - 1 \in DOMAIN Tail(s) /\ Tail(s)[i - 1] = s[i]
          BY <1>1, <3>2
        <4> QED  BY <4>1 DEF Elements
      <3> QED  BY <3>1, <3>2
    <2>2. Head(s) \in Elements(s) /\ \A i \in DOMAIN Tail(s) : Tail(s)[i] \in Elements(s)
      BY <1>1, <1>2 DEF Elements
    <2> QED  BY <2>1, <2>2 DEF Elements
  <1>4. ASSUME Distinct(s) PROVE Distinct(Tail(s)) /\ Head(s) \notin Elements(Tail(s))
    BY <1>1, <1>2, <1>4 DEF Distinct, Elements
  <1> QED  BY <1>1, <1>2, <1>3, <1>4

Without(s, i) == SubSeq(s, 1, i - 1) \o SubSeq(s, i + 1, Len(s))

\* What is left of a sequence without its i-th element
LEMMA Removed ==
    ASSUME NEW S, NEW s \in Seq(S), NEW i \in DOMAIN s, NEW r, r = Without(s, i)
    PROVE  /\ r \in Seq(S) /\ DOMAIN r = 1 .. Len(s) - 1 /\ DOMAIN s = 1 .. Len(s)
           /\ \A k \in DOMAIN r : /\ k < i => r[k] = s[k]
                                 /\ ~(k < i) => r[k] = s[k + 1]
           /\ Elements(r) \subseteq Elements(s)
           /\ Elements(s) \subseteq Elements(r) \cup {s[i]}
  <1>1. Len(s) \in Nat /\ DOMAIN s = 1 .. Len(s) /\ i \in 1 .. Len(s)
    BY LenProperties
  <1> DEFINE a == SubSeq(s, 1, i - 1)
             b == SubSeq(s, i + 1, Len(s))
  <1>2. a \in Seq(S) /\ Len(a) = i - 1 /\ \A k \in 1 .. i - 1 : a[k] = s[k]
    <2>1. \A k \in 1 .. i - 1 : s[k] \in S
      BY <1>1
    <2>2. /\ a \in Seq(S) /\ Len(a) = (IF 1 <= i - 1 THEN i - 1 - 1 + 1 ELSE 0)
          /\ \A k \in 1 .. i - 1 - 1 + 1 : a[k] = s[1 + k - 1]
      BY <1>1, <2>1, SubSeqProperties
    <2>3. i - 1 - 1 + 1 = i - 1 /\ \A k \in 1 .. i - 1 : 1 + k - 1 = k
      BY <1>1
    <2> HIDE DEF a
    <2> QED  BY <1>1, <2>2, <2>3
  <1>3. b \in Seq(S) /\ Len(b) = Len(s) - i /\ \A k \in 1 .. Len(s) - i : b[k] = s[i + k]
    <2>1. \A k \in i + 1 .. Len(s) : s[k] \in S
      BY <1>1
    <2>2. /\ b \in Seq(S) /\ Len(b) = (IF i + 1 <= Len(s) THEN Len(s) - (i + 1) + 1 ELSE 0)
          /\ \A k \in 1 .. Len(s) - (i + 1) + 1 : b[k] = s[i + 1 + k - 1]
      BY <1>1, <2>1, SubSeqProperties, SMTT(60)
    <2>3. Len(s) - (i + 1) + 1 = Len(s) - i /\ \A k \in 1 .. Len(s) - i : i + 1 + k - 1 = i + k
      BY <1>1
    <2> HIDE DEF b
    <2> QED  BY <1>1, <2>2, <2>3, SMTT(60)
  <1>4. /\ a \o b \in Seq(S) /\ Len(a \o b) = Len(s) - 1
        /\ \A k \in 1 .. Len(s) - 1 :
              (a \o b)[k] = IF k <= i - 1 THEN a[k] ELSE b[k - (i - 1)]
    <2> HIDE DEF a, b
    <2>1. /\ a \o b \in Seq(S) /\ Len(a \o b) = Len(a) + Len(b)
          /\ \A k \in 1 .. Len(a) + Len(b) :
                (a \o b)[k] = IF k <= Len(a) THEN a[k] ELSE b[k - Len(a)]
      BY <1>2, <1>3, ConcatProperties, ZenonT(60)
    <2>2. Len(a) + Len(b) = Len(s) - 1
      BY <1>1, <1>2, <1>3
    <2> QED  BY <1>2, <2>1, <2>2
  <1>5. r = a \o b
    BY ZenonT(60) DEF Without
  <1> HIDE DEF a, b
  <1>6. r \in Seq(S) /\ DOMAIN r = 1 .. Len(s) - 1
    BY <1>1, <1>4, <1>5, LenProperties
  <1>7. \A k \in 1 .. Len(s) - 1 : r[k] = s[IF k < i THEN k ELSE k + 1]
    <2> SUFFICES ASSUME NEW k \in 1 .. Len(s) - 1
                 PROVE  r[k] = s[IF k < i THEN k ELSE k + 1]
      OBVIOUS
    <2>1. CASE k < i
      <3>1. k <= i - 1 /\ k \in 1 .. i - 1
        BY <1>1, <2>1
      <3> QED  BY <1>2, <1>4, <1>5, <2>1, <3>1
    <2>2. CASE ~(k < i)
      <3>0. i \in Nat /\ k \in Nat /\ Len(s) \in Nat /\ i <= k /\ k <= Len(s) - 1 /\ 1 <= i
        BY <1>1, <2>2
      <3>1. ~(k <= i - 1) /\ k - (i - 1) \in 1 .. Len(s) - i /\ i + (k - (i - 1)) = k + 1
        <4>1. ~(k <= i - 1)
          BY <3>0
        <4>2. i + (k - (i - 1)) = k + 1
          BY <3>0
        <4>3. k - (i - 1) \in 1 .. Len(s) - i
          <5>1. PICK n \in Nat : n = Len(s)
            BY <3>0
          <5>2. PICK d \in Int : d = k - (i - 1)
            BY <3>0
          <5>3. 1 <= d /\ d <= n - i
            BY <3>0, <5>1, <5>2
          <5> QED  BY <3>0, <5>1, <5>2, <5>3
        <4> QED  BY <4>1, <4>2, <4>3
      <3>2. r[k] = b[k - (i - 1)]
        BY <1>4, <1>5, <3>1
      <3>3. b[k - (i - 1)] = s[i + (k - (i - 1))]
        BY <1>3, <3>1
      <3> QED  BY <2>2, <3>1, <3>2, <3>3
    <2> QED  BY <2>1, <2>2
  <1>8. Elements(r) \subseteq Elements(s)
    <2>1. ASSUME NEW k \in 1 .. Len(s) - 1 PROVE \E e \in 1 .. Len(s) : r[k] = s[e]
      <3>1. (IF k < i THEN k ELSE k + 1) \in 1 .. Len(s)
        BY <1>1
      <3> QED  BY <1>7, <3>1
    <2> QED  BY <1>1, <1>6, <2>1, ZenonT(60) DEF Elements
  <1>9. Elements(s) \subseteq Elements(r) \cup {s[i]}
    <2>1. ASSUME NEW k \in DOMAIN s, k # i PROVE s[k] \in Elements(r)
      <3>1. CASE k < i
        <4>1. k \in 1 .. Len(s) - 1 /\ (IF k < i THEN k ELSE k + 1) = k
          BY <1>1, <3>1
        <4>2. r[k] = s[k]
          BY <1>7, <4>1
        <4> QED  BY <1>6, <4>1, <4>2 DEF Elements
      <3>2. CASE k > i
        <4>1. k - 1 \in 1 .. Len(s) - 1 /\ ~(k - 1 < i) /\ (k - 1) + 1 = k
          BY <1>1, <3>2
        <4>2. r[k - 1] = s[k]
          BY <1>7, <4>1
        <4> QED  BY <1>6, <4>1, <4>2 DEF Elements
      <3> QED  BY <1>1, <2>1, <3>1, <3>2
    <2> QED  BY <2>1 DEF Elements
  <1>10. \A k \in DOMAIN r : (k < i => r[k] = s[k]) /\ (~(k < i) => r[k] = s[k + 1])
    BY <1>6, <1>7
  <1> QED  BY <1>1, <1>6, <1>8, <1>9, <1>10

----------------------------------------------------------------------------
(* Values                                                                  *)

LEMMA Nothings ==
    /\ Nothing \notin Notices /\ Nothing \notin Messages
    /\ \A n \in Notices : n.task \in Tasks /\ n # Nothing
    /\ \A m \in Messages : m.task \in Tasks /\ m # Nothing
  <1>1. \A n \in Notices : n.task \in Tasks
    BY DEF Notices, Asks, Tells
  <1>2. \A m \in Messages : m.task \in Tasks
    BY AgentAssumption DEF Messages, Tenders, Replies
  <1>3. Nothing.task \notin Tasks
    BY AgentAssumption DEF Nothing
  <1> QED  BY <1>1, <1>2, <1>3

\* A notice or message is known by its fields
LEMMA Fields ==
    ASSUME NEW t, NEW y, NEW r, NEW c
    PROVE  /\ Notice(t, y, r, c).task = t /\ Notice(t, y, r, c).type = y
           /\ Notice(t, y, r, c).round = r /\ Notice(t, y, r, c).copy = c
           /\ Message(t, y, r).task = t /\ Message(t, y, r).type = y
           /\ Message(t, y, r).round = r
  BY DEF Notice, Message

LEMMA Outcomeses ==
    ASSUME NEW t \in Tasks
    PROVE  /\ C(t) \in Tells /\ V(t) \in Tells /\ R(t) \in Tells
           /\ \A c \in {0, 1} : Notice(t, "REFUSED", 0, c) \in Tells
           /\ C(t).task = t /\ V(t).task = t /\ R(t).task = t
           /\ C(t).type = "COMMITTED" /\ V(t).type = "VOIDED" /\ R(t).type = "REFUSED"
           /\ C(t).copy = 0 /\ V(t).copy = 0 /\ R(t).copy = 0
           /\ \A n \in Tells : n.task = t =>
                 /\ n.type = "COMMITTED" /\ n.copy = 0 => n = C(t)
                 /\ n.type = "VOIDED" /\ n.copy = 0 => n = V(t)
                 /\ n.type = "REFUSED" => n = Notice(t, "REFUSED", 0, n.copy)
  BY DEF C, V, R, Notice, Tells, Outcomes

LEMMA Kinds ==
    /\ \A n \in Notices : /\ n.type \in Outcomes <=> n \in Tells
                          /\ n.type \in Requests <=> n \in Asks
                          /\ n \in Tells => n \notin Asks
    /\ \A m \in Messages : /\ m.type = "TENDER" <=> m \in Tenders
                           /\ m.type # "TENDER" <=> m \in Replies
  BY DEF Notices, Asks, Tells, Requests, Outcomes, Messages, Tenders, Replies

LEMMA StatusIs ==
    ASSUME VenueTypes, NEW t \in Tasks
    PROVE  /\ venue[t].state = "completed" => StatusMessage(t) = C(t)
           /\ venue[t].state \in {"canceled", "rejected"} => StatusMessage(t) = R(t)
           /\ ~Terminal(t) => StatusMessage(t) = Nothing
           /\ Terminal(t) => StatusMessage(t) \in Tells /\ StatusMessage(t).task = t
           /\ StatusMessage(t) \in Tells \cup {Nothing}
  <1>1. CASE venue[t].state = "completed"
    BY <1>1, Outcomeses DEF StatusMessage, Terminal, C
  <1>2. CASE venue[t].state \in {"canceled", "rejected"}
    BY <1>2, Outcomeses DEF StatusMessage, Terminal, R
  <1>3. CASE ~Terminal(t)
    BY <1>3 DEF StatusMessage, Terminal
  <1> QED  BY <1>1, <1>2, <1>3 DEF Terminal

\* The handlers, by stage and by what they wait for
LEMMA JobFields ==
    ASSUME AgentTypes, NEW j \in jobs
    PROVE  /\ j.stage = "deciding" =>
                 j \in Deciding /\ j = Job(j.notice, "deciding", Nothing, 0)
                 /\ j.notice \in Asks /\ j.m = Nothing
           /\ j.stage = "sending" => j.m \in Messages /\ j.attempt \in Nat
           /\ j.stage = "sending" /\ j.m.type = "TENDER" =>
                 j \in Tendering /\ j.m \in Tenders /\ j.notice = Nothing
           /\ j.stage = "sending" /\ j.m.type # "TENDER" =>
                 j \in Replying /\ j.m \in Replies /\ j.notice \in Asks
                 /\ j.m.task = j.notice.task
           /\ j.stage \in {"deciding", "sending"}
           /\ j = Job(j.notice, j.stage, j.m, j.attempt)
  <1>1. CASE j \in Deciding
    BY <1>1 DEF Deciding, Job
  <1>2. CASE j \in Tendering
    BY <1>2 DEF Tendering, Tenders, Messages, Job
  <1>3. CASE j \in Replying
    BY <1>3 DEF Replying, Replies, Messages, Job
  <1> QED  BY <1>1, <1>2, <1>3 DEF AgentTypes

----------------------------------------------------------------------------
(* What a step of the venue does to t and to the notices it owes           *)

Untouched == [state |-> "none", turn |-> "other", round |-> 1, accepted |-> {}, voided |-> FALSE]

\* What gave the agent its turn
Ask(t) ==
    Notice(t, IF venue[t].accepted # {} THEN "ACCEPT"
              ELSE IF venue[t].round = 1 THEN "TENDER" ELSE "COUNTER", venue[t].round, 0)

Others(t) == venue' \in [Tasks -> Kept] /\ \A u \in Tasks : u # t => venue'[u] = venue[u]
Stays == venue' = venue /\ outbox' = outbox

\* The other party tenders; the venue takes in the agent's tender
Opened(t) ==
    /\ t \notin Outbound /\ venue[t].state = "none" /\ venue'[t].state = "open"
    /\ venue'[t].turn = "me" /\ venue'[t].round = venue[t].round
    /\ venue'[t].accepted = venue[t].accepted /\ venue'[t].voided = venue[t].voided
    /\ outbox' = Append(outbox, Notice(t, "TENDER", 1, 0))
Admitted(t) ==
    /\ venue[t].state = "none" /\ venue'[t].state \in {"open", "rejected"}
    /\ venue'[t].turn = venue[t].turn /\ venue'[t].round = venue[t].round
    /\ venue'[t].accepted = venue[t].accepted /\ venue'[t].voided = venue[t].voided
    /\ outbox' = outbox

\* The other party accepts or counters, or the agent does
Turned(t, by) ==
    /\ venue[t].state = "open" /\ venue'[t].state = "open"
    /\ venue'[t].turn # venue[t].turn /\ venue'[t].voided = venue[t].voided
    /\ \/ venue'[t].round = venue[t].round /\ venue'[t].accepted = {by}
       \/ venue'[t].round = venue[t].round + 1 /\ venue'[t].accepted = {}
Asked(t) ==
    /\ venue[t].turn = "other" /\ Turned(t, "other")
    /\ outbox' = Append(outbox, Ask(t)')
Replied(t) ==
    /\ venue[t].turn = "me" /\ Turned(t, "me")
    /\ outbox' = outbox

\* The negotiation ends, or its commitment does
Canceled(t) ==
    /\ venue[t].state = "open" /\ venue'[t].state = "canceled"
    /\ venue'[t].turn = venue[t].turn /\ venue'[t].round = venue[t].round
    /\ venue'[t].accepted = venue[t].accepted /\ venue'[t].voided = venue[t].voided
    /\ \E c \in {0, 1} : outbox' = Append(outbox, Notice(t, "REFUSED", 0, c))
Completed(t) ==
    /\ venue[t].state = "open" /\ venue'[t].state = "completed"
    /\ venue'[t].turn = venue[t].turn /\ venue'[t].round = venue[t].round
    /\ "me" \in venue'[t].accepted /\ venue[t].accepted \subseteq venue'[t].accepted
    /\ venue[t].turn = "other" => "me" \in venue[t].accepted
    /\ venue'[t].voided = venue[t].voided
    /\ outbox' = Append(outbox, C(t))
Voided(t) ==
    /\ venue[t].state = "completed" /\ ~venue[t].voided
    /\ venue'[t] = [venue[t] EXCEPT !.voided = TRUE]
    /\ outbox' = Append(outbox, V(t))

ByOther(t) ==
    /\ Others(t)
    /\ Opened(t) \/ Asked(t) \/ Voided(t) \/ Canceled(t)
         \/ (Completed(t) /\ venue[t].turn = "other")

\* What comes of the agent's message
ByAgent(t, m) ==
    /\ Others(t)
    /\ \/ Stays
       \/ m.type = "TENDER" /\ Admitted(t)
       \/ /\ m.type # "TENDER" /\ venue[t].turn = "me"
          /\ \/ Replied(t) /\ m.type # "REJECT" /\ (venue'[t].accepted # {} => m.type = "ACCEPT")
             \/ Canceled(t)
             \/ Completed(t) /\ m.type = "ACCEPT"

LEMMA KeptFields ==
    ASSUME VenueTypes, NEW t \in Tasks
    PROVE  /\ venue[t] \in Kept
           /\ venue[t].state \in States /\ venue[t].turn \in {"me", "other"}
           /\ venue[t].round \in Nat \ {0} /\ venue[t].accepted \subseteq {"me", "other"}
           /\ venue[t].voided \in BOOLEAN
  BY DEF VenueTypes, Kept

LEMMA Update ==
    ASSUME VenueTypes, NEW t \in Tasks, NEW v \in Kept, venue' = [venue EXCEPT ![t] = v]
    PROVE  Others(t) /\ venue'[t] = v
  BY DEF VenueTypes, Others

\* A record of a task with fields replaced
LEMMA Replaced ==
    ASSUME NEW k \in Kept, NEW s \in States, NEW u \in {"me", "other"}, NEW r \in Nat \ {0},
           NEW c \in SUBSET {"me", "other"}
    PROVE  /\ [k EXCEPT !.state = s] \in Kept
           /\ [k EXCEPT !.state = s, !.turn = u] \in Kept
           /\ [k EXCEPT !.state = s, !.accepted = c] \in Kept
           /\ [k EXCEPT !.accepted = c, !.turn = u] \in Kept
           /\ [k EXCEPT !.round = r, !.accepted = c, !.turn = u] \in Kept
           /\ [k EXCEPT !.voided = TRUE] \in Kept
  <1>1. [k EXCEPT !.state = s] \in Kept /\ [k EXCEPT !.state = s, !.turn = u] \in Kept
    BY DEF Kept
  <1>2. [k EXCEPT !.state = s, !.accepted = c] \in Kept /\ [k EXCEPT !.accepted = c, !.turn = u] \in Kept
    BY DEF Kept
  <1>3. [k EXCEPT !.round = r, !.accepted = c, !.turn = u] \in Kept
    BY DEF Kept
  <1>4. [k EXCEPT !.voided = TRUE] \in Kept
    BY DEF Kept
  <1> QED  BY <1>1, <1>2, <1>3, <1>4

LEMMA CancelDoes ==
    ASSUME VenueTypes, NEW t \in Tasks, Cancel(t), venue[t].state = "open"
    PROVE  Others(t) /\ Canceled(t)
  <1> DEFINE v == [venue[t] EXCEPT !.state = "canceled"]
  <1>1. venue[t] \in Kept /\ v \in Kept /\ venue' = [venue EXCEPT ![t] = v]
    BY KeptFields, SMTT(60) DEF Cancel, Kept, States
  <1>2. Others(t) /\ venue'[t] = v
    BY <1>1, Update
  <1> QED  BY <1>1, <1>2 DEF Canceled, Kept, Cancel

LEMMA CompleteDoes ==
    ASSUME VenueTypes, NEW t \in Tasks, NEW by \in {"me", "other"}, Complete(t, by),
           venue[t].state = "open", venue[t].accepted \ {by} # {}, venue[t].turn = by
    PROVE  Others(t) /\ Completed(t)
  <1>1. PICK c \in SUBSET {"me", "other"} : c = venue[t].accepted \cup {by}
    BY KeptFields
  <1> DEFINE v == [venue[t] EXCEPT !.state = "completed", !.accepted = c]
  <1>2. venue[t] \in Kept /\ v \in Kept
    BY KeptFields, Replaced DEF States
  <1>3. venue' = [venue EXCEPT ![t] = v] /\ outbox' = Append(outbox, C(t))
    BY <1>1, ZenonT(60) DEF Complete, C
  <1>4. Others(t) /\ venue'[t] = v
    BY <1>2, <1>3, Update
  <1>5. /\ v.state = "completed" /\ v.accepted = c /\ v.turn = venue[t].turn
        /\ v.round = venue[t].round /\ v.voided = venue[t].voided
    BY <1>2 DEF Kept
  <1>6. "me" \in c /\ venue[t].accepted \subseteq c /\ (by = "other" => "me" \in venue[t].accepted)
    BY <1>1, KeptFields
  <1> HIDE DEF v
  <1> QED  BY <1>3, <1>4, <1>5, <1>6 DEF Completed

LEMMA AcceptDoes ==
    ASSUME VenueTypes, NEW t \in Tasks, NEW by \in {"me", "other"}, Accept(t, by),
           venue[t].state = "open", venue[t].turn = by
    PROVE  /\ Others(t)
           /\ Canceled(t) \/ Completed(t) \/ (by = "other" /\ Asked(t)) \/ (by = "me" /\ Replied(t))
  <1>1. CASE venue[t].accepted \ {by} # {}
    BY <1>1, CancelDoes, CompleteDoes DEF Accept
  <1>2. CASE venue[t].accepted \ {by} = {} /\ ~Cancel(t)
    <2> DEFINE o == IF by = "me" THEN "other" ELSE "me"
               v == [venue[t] EXCEPT !.accepted = {by}, !.turn = o]
    <2>1. venue[t] \in Kept /\ v \in Kept
      BY KeptFields, ZenonT(60) DEF Kept
    <2>2. /\ venue' = [venue EXCEPT ![t] = v]
          /\ outbox' = IF by = "me" THEN outbox
                       ELSE Append(outbox, Notice(t, "ACCEPT", venue[t].round, 0))
      BY <1>2 DEF Accept
    <2>3. Others(t) /\ venue'[t] = v
      BY <2>1, <2>2, Update
    <2>4. /\ v.state = venue[t].state /\ v.accepted = {by} /\ v.turn = o
          /\ v.round = venue[t].round /\ v.voided = venue[t].voided
      BY <2>1 DEF Kept
    <2> HIDE DEF v
    <2>5. Turned(t, by) /\ venue'[t].accepted # {} /\ venue'[t].round = venue[t].round
      BY <2>3, <2>4 DEF Turned
    <2> QED  BY <2>2, <2>3, <2>5 DEF Asked, Replied, Ask
  <1> QED  BY <1>1, <1>2, CancelDoes

LEMMA CounterDoes ==
    ASSUME VenueTypes, NEW t \in Tasks, NEW by \in {"me", "other"}, Counter(t, by),
           venue[t].state = "open", venue[t].turn = by
    PROVE  /\ Others(t) /\ venue'[t].accepted = {}
           /\ (by = "other" /\ Asked(t)) \/ (by = "me" /\ Replied(t))
  <1> DEFINE o == IF by = "me" THEN "other" ELSE "me"
  <1>1. PICK r \in Nat \ {0} : r = venue[t].round + 1 /\ r # 1
    BY KeptFields
  <1> DEFINE v == [venue[t] EXCEPT !.round = r, !.accepted = {}, !.turn = o]
  <1>2. venue[t] \in Kept /\ v \in Kept
    BY KeptFields, ZenonT(60) DEF Kept
  <1>3. /\ venue' = [venue EXCEPT ![t] = v]
        /\ outbox' = IF by = "me" THEN outbox ELSE Append(outbox, Notice(t, "COUNTER", r, 0))
    BY <1>1 DEF Counter
  <1>4. Others(t) /\ venue'[t] = v
    BY <1>2, <1>3, Update
  <1>5. /\ v.state = venue[t].state /\ v.accepted = {} /\ v.turn = o
        /\ v.round = r /\ v.voided = venue[t].voided
    BY <1>2 DEF Kept
  <1> HIDE DEF v
  <1>6. Turned(t, by) /\ venue'[t].accepted = {} /\ venue'[t].round = r
    BY <1>1, <1>4, <1>5 DEF Turned
  <1> QED  BY <1>1, <1>3, <1>4, <1>6 DEF Asked, Replied, Ask

LEMMA OtherDoes ==
    ASSUME VenueTypes, NEW t \in Tasks, OtherActs(t) \/ Timeout(t)
    PROVE  ByOther(t) /\ UNCHANGED <<nonces, parked, done, netVars, local, fileVars,
                                     agentVars, faults, history>>
  <1>1. UNCHANGED <<nonces, parked, done, netVars, local, fileVars, agentVars, faults, history>>
    BY DEF OtherActs, Timeout
  <1>2. CASE Timeout(t)
    BY <1>2, CancelDoes DEF Timeout, ByOther
  <1>3. CASE /\ venue[t].state = "none" /\ t \notin Outbound
             /\ venue' = [venue EXCEPT ![t].state = "open", ![t].turn = "me"]
             /\ outbox' = Append(outbox, Notice(t, "TENDER", 1, 0))
    <2> DEFINE v == [venue[t] EXCEPT !.state = "open", !.turn = "me"]
    <2>1. venue[t] \in Kept /\ v \in Kept
      BY KeptFields, Replaced, ZenonT(60) DEF States
    <2>2. venue' = [venue EXCEPT ![t] = v]
      BY <1>3
    <2>3. Others(t) /\ venue'[t] = v
      BY <2>1, <2>2, Update
    <2>4. /\ v.state = "open" /\ v.turn = "me" /\ v.round = venue[t].round
          /\ v.accepted = venue[t].accepted /\ v.voided = venue[t].voided
      BY <2>1 DEF Kept
    <2> HIDE DEF v
    <2> QED  BY <1>1, <1>3, <2>3, <2>4, SMTT(60) DEF ByOther, Opened
  <1>4. CASE /\ venue[t].state = "open" /\ venue[t].turn = "other"
             /\ Accept(t, "other") \/ Counter(t, "other")
    <2>1. CASE Accept(t, "other")
      BY <1>1, <1>4, <2>1, AcceptDoes DEF ByOther
    <2>2. CASE Counter(t, "other")
      BY <1>1, <1>4, <2>2, CounterDoes DEF ByOther
    <2> QED  BY <1>4, <2>1, <2>2
  <1>5. CASE /\ venue[t].state = "completed" /\ ~venue[t].voided
             /\ venue' = [venue EXCEPT ![t].voided = TRUE]
             /\ outbox' = Append(outbox, Notice(t, "VOIDED", 0, 0))
    <2> DEFINE v == [venue[t] EXCEPT !.voided = TRUE]
    <2>1. v \in Kept
      BY KeptFields DEF Kept
    <2>2. venue' = [venue EXCEPT ![t] = v]
      BY <1>5
    <2>3. Others(t) /\ venue'[t] = v
      BY <2>1, <2>2, Update
    <2> QED  BY <1>1, <1>5, <2>3 DEF ByOther, Voided, V
  <1> QED  BY <1>1, <1>2, <1>3, <1>4, <1>5 DEF OtherActs

\* A tender of the agent's is the first the venue hears of its task
FirstHeard ==
    \A t \in Tasks : t \in Outbound /\ venue[t].state # "none" => Message(t, "TENDER", 1) \in done

LEMMA HandleDoes ==
    ASSUME VenueTypes, Intake, FirstHeard, NEW a \in parked, Handle(a)
    PROVE  /\ a.m \in Messages /\ a.m.task \in Tasks /\ ByAgent(a.m.task, a.m)
           /\ parked' = parked \ {a} /\ done' = done \cup {a.m}
           /\ \A b \in answers' : b \in answers \/
                 \E k \in {"task", "refused"} :
                    b = [m |-> a.m, attempt |-> a.attempt, kind |-> k,
                         notice |-> StatusMessage(a.m.task)']
           /\ UNCHANGED <<nonces, wire, local, fileVars, agentVars, faults, history>>
  <1> DEFINE t == a.m.task
             mine == venue[t].state = "open" /\ venue[t].turn = "me"
  <1>1. a.m \in Messages /\ t \in Tasks /\ a.attempt \in Nat
    BY Nothings DEF VenueTypes, Attempts
  <1>2. /\ parked' = parked \ {a} /\ done' = done \cup {a.m}
        /\ UNCHANGED <<nonces, wire, local, fileVars, agentVars, faults, history>>
    BY SMTT(60) DEF Handle
  <1>3. ByAgent(t, a.m)
    <2>1. CASE /\ a.m.type = "TENDER"
               /\ \E s \in {"open", "rejected"} : venue' = [venue EXCEPT ![t].state = s]
               /\ UNCHANGED outbox
      <3>1. a.m = Message(t, "TENDER", 1) /\ t \in Outbound
        BY <1>1, <2>1, Kinds DEF Tenders, Message
      <3>2. venue[t].state = "none"
        BY <1>1, <3>1 DEF Intake, FirstHeard
      <3>3. PICK s \in {"open", "rejected"} : venue' = [venue EXCEPT ![t].state = s]
        BY <2>1
      <3> DEFINE v == [venue[t] EXCEPT !.state = s]
      <3>4. venue[t] \in Kept /\ v \in Kept /\ venue' = [venue EXCEPT ![t] = v]
        BY <1>1, <3>3, KeptFields DEF Kept, States
      <3>5. Others(t) /\ venue'[t] = v
        BY <1>1, <3>4, Update
      <3> QED  BY <2>1, <3>2, <3>4, <3>5 DEF ByAgent, Admitted, Kept
    <2>2. CASE a.m.type = "COUNTER" /\ mine /\ (Counter(t, "me") \/ Cancel(t))
      BY <1>1, <2>2, CancelDoes, CounterDoes DEF ByAgent
    <2>3. CASE a.m.type = "ACCEPT" /\ mine /\ Accept(t, "me")
      BY <1>1, <2>3, AcceptDoes DEF ByAgent
    <2>4. CASE a.m.type = "REJECT" /\ mine /\ Cancel(t)
      BY <1>1, <2>4, CancelDoes DEF ByAgent
    <2>5. CASE a.m.type # "TENDER" /\ ~mine /\ UNCHANGED <<venue, outbox>>
      BY <2>5, SMTT(60) DEF ByAgent, Stays, Others, VenueTypes
    <2> QED  BY <2>1, <2>2, <2>3, <2>4, <2>5 DEF Handle
  <1>4. ASSUME NEW b \in answers', b \notin answers
        PROVE  \E k \in {"task", "refused"} :
                  b = [m |-> a.m, attempt |-> a.attempt, kind |-> k,
                       notice |-> StatusMessage(a.m.task)']
    BY <1>4 DEF Handle, Answer
  <1> QED  BY <1>1, <1>2, <1>3, <1>4

----------------------------------------------------------------------------
(* The inductive invariant                                                 *)

\* What the agent has been asked about t and has not answered
Waiting(t) ==
    {n \in Asks :
        /\ n.task = t
        /\ \/ n \in Elements(outbox) \ seen
           \/ n \in Elements(queue)
           \/ \E j \in jobs : j.stage = "deciding" /\ j.notice = n}

\* What it has answered and the venue has not handled; a rejection for as long as
\* the agent waits for its end
Moves(t) ==
    {m \in Replies :
        /\ m.task = t
        /\ \/ m \notin nonces /\ \E a \in wire : a.m = m
           \/ \E a \in parked : a.m = m
           \/ \E j \in jobs : j.stage = "sending" /\ j.m = m /\ (m \notin nonces \/ m.type = "REJECT")}

\* While it is the agent's turn there is one request to answer, or one answer
TurnInv(t) ==
    /\ venue[t].state = "none" => venue[t] = Untouched
    /\ venue[t].state = "none" \/ (venue[t].state = "open" /\ venue[t].turn = "other") =>
          Waiting(t) = {} /\ Moves(t) = {}
    /\ venue[t].state = "open" /\ venue[t].turn = "me" =>
          /\ venue[t].accepted \subseteq {"other"}
          /\ Waiting(t) \subseteq {Ask(t)}
          /\ Moves(t) # {} => Waiting(t) = {}
          /\ \A m, n \in Moves(t) : m = n
          /\ \A m \in Moves(t) : m.type = "ACCEPT" => m.round = venue[t].round
    /\ venue[t].state = "completed" =>
          Waiting(t) = {} /\ \A m \in Moves(t) : m.type # "REJECT"

\* No request or acceptance is of a later round than the venue's
RoundInv ==
    /\ \A n \in Asks : n \in Elements(outbox) \cup Elements(queue) => n.round <= venue[n.task].round
    /\ \A j \in jobs : j.stage = "deciding" => j.notice.round <= venue[j.notice.task].round
    /\ \A x \in jobs \cup wire \cup parked :
          x.m # Nothing /\ x.m.type = "ACCEPT" => x.m.round <= venue[x.m.task].round

\* What a notice says of a task's end is so
Says(n) ==
    /\ n.type # "REFUSED" => venue[n.task].state = "completed" /\ n.copy = 0
    /\ n.type = "VOIDED" => venue[n.task].voided
    /\ n.type = "REFUSED" => venue[n.task].state \in {"canceled", "rejected"}

\* The agent has been told of every end, and of nothing else
TellInv ==
    /\ \A n \in Tells : n \in Elements(outbox) \cup seen => Says(n)
    /\ \A a \in answers : a.notice # Nothing => a.notice = StatusMessage(a.m.task) /\ Terminal(a.m.task)
    /\ \A t \in Tasks :
          /\ venue[t].state = "completed" =>
                "me" \in venue[t].accepted /\ C(t) \in seen \cup Elements(outbox)
          /\ venue[t].voided => venue[t].state = "completed"
    /\ FirstHeard

\* The agent's handlers, and what it has in memory only
JobInv ==
    /\ Elements(queue) \subseteq seen /\ Distinct(queue)
    /\ \A j \in jobs :
          /\ j.stage = "deciding" => j.notice \in seen /\ j.notice \notin Elements(queue)
          /\ j.notice # Nothing => local[j.notice.task] # "none"
          /\ j.notice = Nothing => local[j.m.task] = "none"
    /\ \A j, k \in jobs : j.notice = Nothing /\ k.notice = Nothing /\ j.m = k.m => j = k
    /\ \A n \in Elements(queue) : n.type = "TENDER" => local[n.task] = "none"
    /\ \A t \in Tasks :
          /\ t \notin Outbound /\ (local[t] # "none" \/ saved[t] # "none")
                => Notice(t, "TENDER", 1, 0) \in seen
          /\ saved[t] # local[t] => \E j \in jobs : j.notice.task = t

\* A VOIDED comes after its COMMITTED
Ordered ==
    \A t \in Tasks :
        /\ V(t) \in seen => C(t) \in seen
        /\ \A i \in DOMAIN outbox : outbox[i] = V(t) =>
              C(t) \in seen \/ \E k \in DOMAIN outbox : k < i /\ outbox[k] = C(t)
        /\ \A i, k \in DOMAIN queue : queue[i] = V(t) /\ queue[k] = C(t) => k < i

\* What the agent has seen of the end of t it has acted on, or has in its queue
Acted(t) ==
    /\ C(t) \in seen => C(t) \in Elements(queue) \/
          (t \in book.added /\ t \in artifacts /\ local[t] \in {"COMMITTED", "VOIDED"})
    /\ V(t) \in seen => V(t) \in Elements(queue) \/ (t \in book.released /\ local[t] = "VOIDED")
    /\ \A c \in {0, 1} : Notice(t, "REFUSED", 0, c) \in seen =>
          Notice(t, "REFUSED", 0, c) \in Elements(queue) \/ local[t] \in {"CANCELED", "REJECTED"}
    /\ t \in book.added => C(t) \notin Elements(queue)
    /\ t \in book.released => t \in book.added /\ V(t) \notin Elements(queue)
    /\ local[t] = "COMMITTED" <=> t \in book.added \ book.released

\* What is in the book it was told
Booked(t) ==
    /\ t \in book.added => C(t) \in seen
    /\ t \in book.released => V(t) \in seen

FollowInv ==
    ~overtaken =>
        /\ Ordered
        /\ \A t \in Tasks : Booked(t)
        /\ \A t \in Tasks \ torn : Acted(t)
        /\ torn = {} => book.outstanding = Cardinality(book.added \ book.released)

\* The loads held and those that may yet come are within the limit
LimitInv ==
    torn = {} /\ ~overtaken /\ ~racing =>
        Cardinality((book.added \ book.released) \cup Unresolved) <= Limit

IInv ==
    /\ Types /\ Intake
    /\ \A t \in Tasks : TurnInv(t)
    /\ RoundInv /\ TellInv /\ JobInv /\ FollowInv /\ LimitInv

----------------------------------------------------------------------------
(* Types                                                                   *)

LEMMA TypesInit == Init => Types
  <1> SUFFICES ASSUME Init PROVE Types
    OBVIOUS
  <1>1. venue \in [Tasks -> Kept]
    BY DEF Init, Kept, States
  <1>2. /\ queue \in Seq(Notices) /\ outbox \in Seq(Notices)
        /\ local \in [Tasks -> Statuses] /\ saved \in [Tasks -> Statuses]
    BY DEF Init, Statuses
  <1>3. book \in Books
    BY DEF Init, Books
  <1> QED  BY <1>1, <1>2, <1>3 DEF Init, Types, VenueTypes, AgentTypes

\* What a step of the venue owes the agent
Owes(t) ==
    \/ outbox' = outbox /\ (Stays \/ Admitted(t) \/ Replied(t))
    \/ \E n \in Asks :
          /\ outbox' = Append(outbox, n) /\ n = Ask(t)' /\ n.task = t
          /\ Opened(t) \/ Asked(t)
    \/ \E n \in Tells :
          /\ outbox' = Append(outbox, n) /\ n.task = t
          /\ \/ Canceled(t) /\ n.type = "REFUSED"
             \/ Completed(t) /\ n = C(t)
             \/ Voided(t) /\ n = V(t)

LEMMA OwesIt ==
    ASSUME VenueTypes, NEW t \in Tasks, venue[t].state = "none" => venue[t] = Untouched,
           NEW m, ByOther(t) \/ ByAgent(t, m)
    PROVE  venue' \in [Tasks -> Kept] /\ outbox' \in Seq(Notices) /\ Owes(t)
  <1>1. venue' \in [Tasks -> Kept] /\ venue'[t] \in Kept
    BY DEF ByOther, ByAgent, Others
  <1>2. CASE Stays \/ Admitted(t) \/ Replied(t)
    <2>1. outbox' = outbox
      BY <1>2 DEF Stays, Admitted, Replied
    <2> QED  BY <1>1, <1>2, <2>1 DEF Owes, VenueTypes
  <1>3. CASE Asked(t)
    <2>1. venue'[t].round \in Nat /\ (venue'[t].accepted = {} => venue'[t].round # 1)
      <3>1. venue[t].round \in Nat \ {0} /\ venue'[t].round \in Nat
        BY <1>1, KeptFields DEF Kept
      <3>2. venue[t].round + 1 # 1
        BY <3>1
      <3>3. \/ venue'[t].accepted = {"other"}
            \/ venue'[t].round = venue[t].round + 1
        BY <1>3 DEF Asked, Turned
      <3> QED  BY <3>1, <3>2, <3>3
    <2>2. Ask(t)' \in Asks /\ Ask(t)'.task = t
      BY <2>1 DEF Ask, Asks, Notice
    <2> QED  BY <1>1, <1>3, <2>2 DEF Owes, Asked, VenueTypes, Notices
  <1>4. CASE Opened(t)
    <2>1. /\ venue'[t].round = 1 /\ venue'[t].accepted = {} /\ t \notin Outbound
          /\ outbox' = Append(outbox, Notice(t, "TENDER", 1, 0))
      BY <1>4 DEF Opened, Untouched
    <2>2. Ask(t)' = Notice(t, "TENDER", 1, 0)
      BY <2>1 DEF Ask
    <2>3. Ask(t)' \in Asks /\ Ask(t)'.task = t
      BY <2>1, <2>2 DEF Asks, Notice
    <2> QED  BY <1>1, <1>4, <2>1, <2>2, <2>3 DEF Owes, VenueTypes, Notices
  <1>5. CASE Canceled(t)
    <2>1. PICK c \in {0, 1} : outbox' = Append(outbox, Notice(t, "REFUSED", 0, c))
      BY <1>5 DEF Canceled
    <2>2. Notice(t, "REFUSED", 0, c) \in Tells
      BY DEF Tells, Notice, Outcomes
    <2> QED  BY <1>1, <1>5, <2>1, <2>2, Fields DEF Owes, VenueTypes, Notices
  <1>6. CASE Completed(t)
    BY <1>1, <1>6, Outcomeses DEF Owes, Completed, VenueTypes, Notices
  <1>7. CASE Voided(t)
    BY <1>1, <1>7, Outcomeses DEF Owes, Voided, VenueTypes, Notices
  <1> QED  BY <1>2, <1>3, <1>4, <1>5, <1>6, <1>7 DEF ByOther, ByAgent

LEMMA VenueTypesOther ==
    ASSUME Types, NEW t \in Tasks, TurnInv(t), OtherActs(t) \/ Timeout(t)
    PROVE  Types'
  <1> VenueTypes /\ AgentTypes
    BY DEF Types
  <1>1. /\ ByOther(t) /\ UNCHANGED <<nonces, parked, done, netVars, local, fileVars,
                                     agentVars, faults, history>>
    BY OtherDoes
  <1>2. venue' \in [Tasks -> Kept] /\ outbox' \in Seq(Notices)
    BY <1>1, OwesIt DEF TurnInv
  <1> QED  BY <1>1, <1>2 DEF Types, VenueTypes, AgentTypes, netVars, fileVars, agentVars, history

LEMMA VenueTypesHandle ==
    ASSUME Types, Intake, FirstHeard, \A t \in Tasks : TurnInv(t), NEW a \in parked, Handle(a)
    PROVE  Types'
  <1> VenueTypes /\ AgentTypes
    BY DEF Types
  <1> DEFINE t == a.m.task
  <1>1. /\ a.m \in Messages /\ t \in Tasks /\ ByAgent(t, a.m)
        /\ parked' = parked \ {a} /\ done' = done \cup {a.m}
        /\ \A b \in answers' : b \in answers \/
              \E k \in {"task", "refused"} :
                 b = [m |-> a.m, attempt |-> a.attempt, kind |-> k,
                      notice |-> StatusMessage(t)']
        /\ UNCHANGED <<nonces, wire, local, fileVars, agentVars, faults, history>>
    BY HandleDoes
  <1> HIDE DEF t
  <1>2. venue' \in [Tasks -> Kept] /\ outbox' \in Seq(Notices)
    BY <1>1, OwesIt DEF TurnInv
  <1>3. StatusMessage(t)' \in Tells \cup {Nothing}
    <2>1. venue'[t].state \in States
      BY <1>1, <1>2 DEF Kept
    <2> QED  BY <1>1, <2>1 DEF StatusMessage, States, Tells, Notice, Outcomes
  <1>4. answers' \subseteq Answerings
    BY <1>1, <1>3 DEF VenueTypes, Attempts, Answerings
  <1> QED  BY <1>1, <1>2, <1>4 DEF Types, VenueTypes, AgentTypes, fileVars, agentVars, history

\* What the agent makes of an outcome
LEMMA ProcessTypes ==
    ASSUME AgentTypes, NEW n \in Tells \cup {Nothing}
    PROVE  /\ Heard(n) \in [Tasks -> Statuses] /\ BookAfter(n) \in Books
           /\ n # Nothing => n.task \in Tasks
           /\ Record(n) => artifacts' \subseteq Tasks /\ book' \in Books
  <1>1. ASSUME n # Nothing
        PROVE  n.task \in Tasks /\ (IF n.type = "REFUSED" THEN "CANCELED" ELSE n.type) \in Statuses
    <2>1. n \in Tells
      BY <1>1
    <2> QED  BY <2>1 DEF Tells, Outcomes, Statuses
  <1>2. Heard(n) \in [Tasks -> Statuses]
    BY <1>1 DEF Heard, Applies, AgentTypes
  <1>3. ASSUME NEW t \in Tasks PROVE Add(book, t) \in Books /\ Release(book, t) \in Books
    <2>1. /\ book.added \subseteq Tasks /\ book.released \subseteq Tasks
          /\ book.outstanding \in Nat /\ book \in Books
      BY DEF Books, AgentTypes
    <2>2. PICK a \in SUBSET Tasks : a = book.added \cup {t}
      BY <2>1
    <2>3. PICK r \in SUBSET Tasks : r = book.released \cup {t}
      BY <2>1
    <2>4. PICK o \in Nat : o = book.outstanding + 1
      BY <2>1
    <2>5. PICK p \in Nat : p = IF book.outstanding = 0 THEN 0 ELSE book.outstanding - 1
      BY <2>1
    <2>6. /\ [book EXCEPT !.added = a, !.outstanding = o] \in Books
          /\ [book EXCEPT !.released = r, !.outstanding = p] \in Books
      BY <2>1 DEF Books
    <2> QED  BY <2>1, <2>2, <2>3, <2>4, <2>5, <2>6 DEF Add, Release
  <1>4. BookAfter(n) \in Books
    BY <1>1, <1>3 DEF BookAfter, Applies, AgentTypes
  <1>5. ASSUME Record(n) PROVE artifacts' \subseteq Tasks /\ book' \in Books
    BY <1>1, <1>4, <1>5 DEF Record, Applies, AgentTypes
  <1> QED  BY <1>1, <1>2, <1>4, <1>5

----------------------------------------------------------------------------
(* What a handler of the agent's does to its end                           *)

Unmoved == UNCHANGED <<venueVars, queue, history>>

\* The message is sent again; a tender ends; a reply ends and its outcome is heard
Retries(j) ==
    /\ jobs' = (jobs \ {j}) \cup {Job(j.notice, "sending", j.m, j.attempt + 1)}
    /\ wire' \subseteq wire \cup {[m |-> j.m, attempt |-> j.attempt + 1]}
    /\ UNCHANGED <<local, fileVars>>
TenderOver(j) ==
    /\ j.m \in Tenders /\ jobs' = jobs \ {j} /\ wire' \subseteq wire
    /\ \/ UNCHANGED <<local, saved>>
       \/ /\ \E s \in {"OPEN", "REFUSED"} : local' = [local EXCEPT ![j.m.task] = s]
          /\ saved' = local'
    /\ UNCHANGED <<seen, artifacts, book>>
ReplyOver(j) ==
    /\ j.m \in Replies /\ wire' \subseteq wire
    /\ \E outcome \in {StatusMessage(j.m.task), Nothing} : Ends(j, outcome)

\* The answers on their way are of what the venue has decided
AnswersTrue ==
    \A a \in answers : a.notice # Nothing =>
        a.notice = StatusMessage(a.m.task) /\ Terminal(a.m.task)

LEMMA JobMoves ==
    ASSUME Types, AnswersTrue, NEW j \in jobs, Dropped(j) \/ \E a \in answers : Answered(j, a)
    PROVE  /\ Unmoved /\ answers' \subseteq answers /\ j.stage = "sending"
           /\ Retries(j) \/ TenderOver(j) \/ ReplyOver(j)
  <1>1. j.stage = "sending" /\ Unmoved /\ answers' \subseteq answers
    BY DEF Dropped, Answered, Unmoved
  <1>2. /\ j.m \in Messages /\ (j.m.type = "TENDER" <=> j.m \in Tenders)
        /\ (j.m.type # "TENDER" <=> j.m \in Replies)
    BY <1>1, JobFields, Kinds DEF Types
  <1>3. ASSUME NEW a \in answers, Answered(j, a)
        PROVE  TenderOver(j) \/ ReplyOver(j)
    <2>1. a.m = j.m /\ wire' = wire
      BY <1>3 DEF Answered
    <2>2. CASE j.m.type = "TENDER"
      <3>1. TenderEnds(j, a)
        BY <1>3, <2>2 DEF Answered
      <3> QED  BY <1>2, <2>1, <2>2, <3>1 DEF TenderEnds, TenderOver
    <2>3. CASE j.m.type # "TENDER"
      <3>1. Ends(j, IF a.kind = "reused" THEN StatusMessage(j.m.task) ELSE a.notice)
        BY <1>3, <2>3 DEF Answered
      <3>2. a.notice \in {StatusMessage(j.m.task), Nothing}
        BY <2>1 DEF AnswersTrue
      <3> QED  BY <1>2, <2>1, <2>3, <3>1, <3>2 DEF ReplyOver
    <2> QED  BY <2>2, <2>3
  <1>4. ASSUME Dropped(j)
        PROVE  Retries(j) \/ TenderOver(j) \/ ReplyOver(j)
    <2>1. PICK late \in SUBSET {a \in wire : a.m = j.m} :
             LET left == {a \in wire : a.m # j.m} \cup late
             IN  IF j.attempt < MaxAttempts
                 THEN /\ wire' = left \cup {[m |-> j.m, attempt |-> j.attempt + 1]}
                      /\ jobs' = (jobs \ {j}) \cup {[j EXCEPT !.attempt = @ + 1]}
                      /\ UNCHANGED <<local, fileVars>>
                 ELSE /\ wire' = left
                      /\ IF j.m.type = "TENDER"
                         THEN jobs' = jobs \ {j} /\ UNCHANGED <<local, fileVars>>
                         ELSE Ends(j, Nothing)
      BY <1>4 DEF Dropped
    <2> DEFINE left == {a \in wire : a.m # j.m} \cup late
    <2>2. left \subseteq wire
      OBVIOUS
    <2> HIDE DEF left
    <2>3. CASE j.attempt < MaxAttempts
      <3>1. j = Job(j.notice, "sending", j.m, j.attempt)
        BY <1>1, JobFields DEF Types
      <3>2. [j EXCEPT !.attempt = @ + 1] = Job(j.notice, "sending", j.m, j.attempt + 1)
        BY <3>1 DEF Job
      <3>3. /\ wire' = left \cup {[m |-> j.m, attempt |-> j.attempt + 1]}
            /\ jobs' = (jobs \ {j}) \cup {[j EXCEPT !.attempt = @ + 1]}
            /\ UNCHANGED <<local, fileVars>>
        BY <2>1, <2>3 DEF left
      <3> QED  BY <2>2, <3>2, <3>3 DEF Retries
    <2>4. CASE ~(j.attempt < MaxAttempts) /\ j.m.type = "TENDER"
      BY <1>2, <2>1, <2>2, <2>4 DEF TenderOver, fileVars, left
    <2>5. CASE ~(j.attempt < MaxAttempts) /\ j.m.type # "TENDER"
      BY <1>2, <2>1, <2>2, <2>5 DEF ReplyOver, left
    <2> QED  BY <2>3, <2>4, <2>5
  <1> QED  BY <1>1, <1>3, <1>4

\* What the strategy decides
LEMMA Decides ==
    ASSUME AgentTypes, NEW j \in jobs, Decide(j)
    PROVE  /\ j \in Deciding /\ j.notice \in Asks /\ j.stage = "deciding" /\ j.m = Nothing
           /\ \E m \in Replies :
                /\ m.task = j.notice.task /\ Send(j, j.notice, m)
                /\ m.type # "ACCEPT" => racing' = racing
                /\ m.type = "ACCEPT" => /\ m.round = j.notice.round /\ Guard
                                        /\ racing' = (racing \/ Unresolved \ {m.task} # {})
           /\ UNCHANGED <<venueVars, answers, local, fileVars, queue, faults, torn, overtaken>>
  <1> DEFINE t == j.notice.task
             r == j.notice.round
  <1>1. /\ j \in Deciding /\ j.notice \in Asks /\ j.stage = "deciding" /\ j.m = Nothing
    BY JobFields DEF Decide
  <1>2. t \in Tasks /\ r \in Nat /\ r + 1 \in Nat
    BY <1>1 DEF Asks
  <1>3. UNCHANGED <<venueVars, answers, local, fileVars, queue, faults, torn, overtaken>>
    BY DEF Decide
  <1>4. /\ Message(t, "REJECT", r) \in Replies /\ Message(t, "COUNTER", r + 1) \in Replies
        /\ Message(t, "ACCEPT", r) \in Replies
    BY <1>2 DEF Message, Replies
  <1>5. \/ Send(j, j.notice, Message(t, "REJECT", r)) /\ racing' = racing
        \/ Send(j, j.notice, Message(t, "COUNTER", r + 1)) /\ racing' = racing
        \/ /\ Guard /\ Send(j, j.notice, Message(t, "ACCEPT", r))
           /\ racing' = (racing \/ Unresolved \ {t} # {})
    BY DEF Decide
  <1>6. \E m \in Replies :
           /\ m.task = t /\ Send(j, j.notice, m)
           /\ m.type # "ACCEPT" => racing' = racing
           /\ m.type = "ACCEPT" => /\ m.round = r /\ Guard
                                   /\ racing' = (racing \/ Unresolved \ {m.task} # {})
    <2> HIDE DEF t, r
    <2>1. CASE Send(j, j.notice, Message(t, "REJECT", r)) /\ racing' = racing
      BY <1>4, <2>1, Fields
    <2>2. CASE Send(j, j.notice, Message(t, "COUNTER", r + 1)) /\ racing' = racing
      BY <1>4, <2>2, Fields
    <2>3. CASE /\ Guard /\ Send(j, j.notice, Message(t, "ACCEPT", r))
               /\ racing' = (racing \/ Unresolved \ {t} # {})
      BY <1>4, <2>3, Fields
    <2> QED  BY <1>5, <2>1, <2>2, <2>3
  <1> QED  BY <1>1, <1>3, <1>6

----------------------------------------------------------------------------
(* Types of the agent's steps                                              *)

LEMMA TypesAgent ==
    ASSUME Types, AnswersTrue,
           \/ \E t \in Tasks : Tender(t) \/ Reconcile(t)
           \/ \E a \in wire : Arrive(a)
           \/ \E i \in DOMAIN outbox : Push(i)
           \/ \E j \in jobs : Decide(j) \/ Dropped(j) \/ \E a \in answers : Answered(j, a)
           \/ Learn \/ Consider \/ VenueDies \/ Dies \/ DiesWithin
    PROVE  Types'
  <1> VenueTypes /\ AgentTypes
    BY DEF Types
  <1>1. ASSUME NEW t \in Tasks, Tender(t) PROVE Types'
    <2> DEFINE m == Message(t, "TENDER", 1)
    <2>1. m \in Tenders /\ m \in Messages
      BY <1>1 DEF Tender, Message, Tenders, Messages
    <2>2. /\ Job(Nothing, "sending", m, 1) \in Tendering
          /\ [m |-> m, attempt |-> 1] \in Attempts
      BY <2>1 DEF Job, Tendering, Attempts
    <2>3. /\ jobs' = (jobs \ {Nothing}) \cup {Job(Nothing, "sending", m, 1)}
          /\ wire' = wire \cup {[m |-> m, attempt |-> 1]}
          /\ UNCHANGED <<venueVars, answers, local, fileVars, queue, history>>
      BY <1>1 DEF Tender, Send
    <2> HIDE DEF m
    <2> QED  BY <2>2, <2>3 DEF Types, VenueTypes, AgentTypes, venueVars, fileVars, history
  <1>2. ASSUME NEW t \in Tasks, Reconcile(t) PROVE Types'
    <2> DEFINE n == StatusMessage(t)
    <2>1. n \in Tells
      BY <1>2, StatusIs DEF Reconcile
    <2>2. /\ local' = Heard(n) /\ saved' \in {saved, local'} /\ Record(n)
          /\ seen' = seen \cup {n} /\ UNCHANGED <<venueVars, netVars, agentVars, history>>
      BY <1>2 DEF Reconcile, Process
    <2> HIDE DEF n
    <2> QED  BY <2>1, <2>2, ProcessTypes
             DEF Types, VenueTypes, AgentTypes, venueVars, netVars, agentVars, history, Notices
  <1>3. ASSUME NEW a \in wire, Arrive(a) PROVE Types'
    <2>1. a.m \in Messages /\ a.attempt \in Nat
      BY DEF VenueTypes, Attempts
    <2>2. Answer(a, "reused", Nothing) \subseteq Answerings
      BY <2>1 DEF Answer, Answerings
    <2> QED  BY <1>3, <2>1, <2>2 DEF Types, VenueTypes, AgentTypes, Arrive, fileVars, agentVars, history
  <1>4. ASSUME NEW i \in DOMAIN outbox, Push(i) PROVE Types'
    <2> DEFINE n == outbox[i]
               rest == Without(outbox, i)
    <2>1. n \in Notices /\ rest \in Seq(Notices)
      BY Removed DEF VenueTypes
    <2>2. /\ outbox' \in {rest, outbox} /\ queue' \in {queue, Append(queue, n)}
          /\ seen' = seen \cup {n} /\ overtaken' \in {overtaken, TRUE}
          /\ UNCHANGED <<venue, nonces, parked, done, netVars, local, saved, jobs,
                         artifacts, book, torn, racing>>
      BY <1>4 DEF Push, Without
    <2> HIDE DEF n, rest
    <2>3. queue' \in Seq(Notices)
      <3>1. queue \in Seq(Notices)
        BY DEF AgentTypes
      <3>2. Append(queue, n) \in Seq(Notices)
        BY <2>1, <3>1, Appended
      <3> QED  BY <2>2, <3>1, <3>2
    <2>4. VenueTypes'
      BY <2>1, <2>2 DEF VenueTypes, netVars
    <2>5. AgentTypes'
      BY <2>1, <2>2, <2>3 DEF AgentTypes
    <2> QED  BY <2>4, <2>5 DEF Types
  <1>5. ASSUME NEW j \in jobs, Decide(j) PROVE Types'
    <2>1. PICK m \in Replies : m.task = j.notice.task /\ Send(j, j.notice, m)
      BY <1>5, Decides
    <2>2. j.notice \in Asks /\ racing' \in BOOLEAN
          /\ UNCHANGED <<venueVars, answers, local, fileVars, queue, torn, overtaken>>
      BY <1>5, Decides DEF AgentTypes
    <2>3. Job(j.notice, "sending", m, 1) \in Replying /\ [m |-> m, attempt |-> 1] \in Attempts
      BY <2>1, <2>2 DEF Job, Replying, Attempts, Messages
    <2> QED  BY <2>1, <2>2, <2>3 DEF Types, VenueTypes, AgentTypes, Send, venueVars, fileVars
  <1>6. ASSUME NEW j \in jobs, Dropped(j) \/ \E a \in answers : Answered(j, a) PROVE Types'
    <2>1. /\ UNCHANGED <<venueVars, queue, history>> /\ answers' \subseteq answers
          /\ j.stage = "sending" /\ (Retries(j) \/ TenderOver(j) \/ ReplyOver(j))
      BY <1>6, JobMoves DEF Unmoved
    <2>2. CASE Retries(j)
      <3>1. /\ [m |-> j.m, attempt |-> j.attempt + 1] \in Attempts
            /\ Job(j.notice, "sending", j.m, j.attempt + 1) \in Tendering \cup Replying
        <4>1. j.m \in Messages /\ j.attempt + 1 \in Nat
          BY <2>1, JobFields
        <4>2. CASE j.m.type = "TENDER"
          BY <2>1, <4>1, <4>2, JobFields DEF Tendering, Job, Attempts
        <4>3. CASE j.m.type # "TENDER"
          BY <2>1, <4>1, <4>3, JobFields DEF Replying, Job, Attempts
        <4> QED  BY <4>2, <4>3
      <3> QED  BY <2>1, <2>2, <3>1
               DEF Types, VenueTypes, AgentTypes, Retries, venueVars, fileVars, history
    <2>3. CASE TenderOver(j)
      <3>1. local' \in [Tasks -> Statuses] /\ saved' \in [Tasks -> Statuses]
        BY <2>3 DEF TenderOver, AgentTypes, Statuses
      <3> QED  BY <2>1, <2>3, <3>1
               DEF Types, VenueTypes, AgentTypes, TenderOver, venueVars, history
    <2>4. CASE ReplyOver(j)
      <3>1. PICK outcome \in {StatusMessage(j.m.task), Nothing} : Ends(j, outcome)
        BY <2>4 DEF ReplyOver
      <3>2. outcome \in Tells \cup {Nothing}
        <4>1. j.m.task \in Tasks
          BY <2>1, JobFields, Nothings
        <4> QED  BY <4>1, StatusIs
      <3>3. PICK n \in Tells \cup {Nothing} : n = IF outcome \in seen THEN Nothing ELSE outcome
        BY <3>2
      <3>4. Heard(n) \in [Tasks -> Statuses]
        BY ProcessTypes
      <3>5. /\ local' \in [Tasks -> Statuses] /\ saved' = local'
            /\ seen' \subseteq seen \cup ({outcome} \ {Nothing})
            /\ Record(n) /\ jobs' = jobs \ {j}
        BY <3>1, <3>3, <3>4 DEF Ends, Statuses
      <3>6. artifacts' \subseteq Tasks /\ book' \in Books
        BY <3>5, ProcessTypes
      <3> QED  BY <2>1, <2>4, <3>2, <3>5, <3>6
               DEF Types, VenueTypes, AgentTypes, ReplyOver, venueVars, history, Notices
    <2> QED  BY <2>1, <2>2, <2>3, <2>4
  <1>7. CASE Learn
    <2> DEFINE n == Head(queue)
    <2>1. n \in Tells /\ Tail(queue) \in Seq(Notices)
      BY <1>7, Headed, Kinds DEF Learn, AgentTypes
    <2>2. /\ local' = Heard(n) /\ saved' \in {saved, local'} /\ Record(n)
          /\ queue' = Tail(queue)
          /\ UNCHANGED <<venueVars, netVars, seen, jobs, overtaken, racing>>
      BY <1>7 DEF Learn, Process
    <2> HIDE DEF n
    <2> QED  BY <2>1, <2>2, ProcessTypes
             DEF Types, VenueTypes, AgentTypes, venueVars, netVars, Notices
  <1>8. CASE Consider
    <2> DEFINE n == Head(queue)
    <2>1. n \in Asks /\ Tail(queue) \in Seq(Notices)
      BY <1>8, Headed, Kinds DEF Consider, AgentTypes
    <2>2. /\ jobs' \subseteq jobs \cup {Job(n, "deciding", Nothing, 0)}
          /\ local' \in {local, [local EXCEPT ![n.task] = "OPEN"]}
          /\ queue' = Tail(queue) /\ UNCHANGED <<venueVars, netVars, fileVars, history>>
      BY <1>8 DEF Consider
    <2> HIDE DEF n
    <2>3. Job(n, "deciding", Nothing, 0) \in Deciding
      BY <2>1 DEF Job, Deciding
    <2>4. local' \in [Tasks -> Statuses]
      BY <2>2 DEF AgentTypes, Statuses
    <2> QED  BY <2>1, <2>2, <2>3, <2>4
             DEF Types, VenueTypes, AgentTypes, venueVars, netVars, fileVars, history
  <1>9. CASE VenueDies
    BY <1>9 DEF VenueDies, Types, VenueTypes, AgentTypes, fileVars, agentVars, history
  <1>10. CASE Dies
    <2>1. queue' = <<>> /\ queue' \in Seq(Notices)
      BY <1>10 DEF Dies
    <2> QED  BY <1>10, <2>1 DEF Dies, Types, VenueTypes, AgentTypes, venueVars
  <1>11. CASE DiesWithin
    <2> DEFINE n == Head(queue)
    <2>1. n \in Tells /\ n.task \in Tasks
      <3>1. queue # <<>> /\ n.type = "COMMITTED"
        BY <1>11 DEF DiesWithin
      <3>2. n \in Notices
        BY <3>1, Headed DEF AgentTypes
      <3> QED  BY <3>1, <3>2, Kinds, Nothings DEF Outcomes
    <2>2. queue' = <<>> /\ queue' \in Seq(Notices) /\ jobs' = {} /\ answers' = {}
          /\ local' = saved /\ artifacts' = artifacts \cup {n.task}
          /\ book' \in {book, BookAfter(n)}
          /\ UNCHANGED <<venueVars, wire, saved, seen, overtaken, racing>>
      BY <1>11 DEF DiesWithin
    <2> HIDE DEF n
    <2> QED  BY <2>1, <2>2, ProcessTypes DEF Types, VenueTypes, AgentTypes, venueVars
  <1> QED  BY <1>1, <1>2, <1>3, <1>4, <1>5, <1>6, <1>7, <1>8, <1>9, <1>10, <1>11

----------------------------------------------------------------------------
(* The agent's steps but a decision, and what the network and the venue do  *)
(* to its messages before they are handled, move what is there on           *)

Quieter ==
    /\ venue' = venue /\ nonces \subseteq nonces'
    /\ Elements(outbox') \subseteq Elements(outbox) /\ seen \subseteq seen'
    /\ \A n \in Elements(queue') : n \in Elements(queue) \/ n \in Elements(outbox) \ seen
    /\ \A j \in jobs' :
          \/ j \in jobs
          \/ j.stage = "deciding" /\ j.notice \in Elements(queue) \cap Asks /\ j.m = Nothing
          \/ /\ j.stage = "sending"
             /\ j.m \in Tenders \/ \E k \in jobs : k.stage = "sending" /\ k.m = j.m
    /\ \A a \in wire' :
          a \in wire \/ a.m \in Tenders \/ \E k \in jobs : k.stage = "sending" /\ k.m = a.m
    /\ \A a \in parked' : a \in parked \/ (a \in wire /\ a.m \notin nonces)

\* What the agent comes to know it was told
Hears ==
    /\ venue' = venue /\ done' = done /\ seen \subseteq seen'
    /\ Elements(outbox') \subseteq Elements(outbox)
    /\ Elements(outbox) \subseteq Elements(outbox') \cup seen'
    /\ \A n \in seen' : n \in seen \cup Elements(outbox)
                        \/ \E t \in Tasks : Terminal(t) /\ n = StatusMessage(t)
    /\ \A b \in answers' : b \in answers \/ b.notice = Nothing

\* Handlers that end or send again
LEMMA QuietJobs ==
    ASSUME Types, AnswersTrue, NEW j \in jobs, Dropped(j) \/ \E a \in answers : Answered(j, a)
    PROVE  Quieter /\ Hears
  <1> VenueTypes /\ AgentTypes
    BY DEF Types
  <1>1. /\ UNCHANGED <<venueVars, queue, history>> /\ answers' \subseteq answers
        /\ j.stage = "sending" /\ (Retries(j) \/ TenderOver(j) \/ ReplyOver(j))
    BY JobMoves DEF Unmoved
  <1>2. /\ seen \subseteq seen'
        /\ \A n \in seen' : n \in seen \/ \E t \in Tasks : Terminal(t) /\ n = StatusMessage(t)
    <2>1. CASE Retries(j) \/ TenderOver(j)
      BY <2>1 DEF Retries, TenderOver, fileVars
    <2>2. CASE ReplyOver(j)
      <3>1. PICK outcome \in {StatusMessage(j.m.task), Nothing} : Ends(j, outcome)
        BY <2>2 DEF ReplyOver
      <3>2. seen' = seen \cup ({outcome} \ {Nothing}) /\ j.m.task \in Tasks
        BY <1>1, <3>1, JobFields, Nothings DEF Ends
      <3>3. outcome # Nothing => outcome = StatusMessage(j.m.task) /\ Terminal(j.m.task)
        BY <3>2, StatusIs
      <3> QED  BY <3>2, <3>3
    <2> QED  BY <1>1, <2>1, <2>2
  <1>3. /\ \A k \in jobs' : k \in jobs \/ (k.stage = "sending" /\ k.m = j.m)
        /\ \A a \in wire' : a \in wire \/ a.m = j.m
    BY <1>1 DEF Retries, TenderOver, ReplyOver, Ends, Job
  <1> QED  BY <1>1, <1>2, <1>3 DEF Quieter, Hears, venueVars

LEMMA QuietSteps ==
    ASSUME Types,
           \/ \E t \in Tasks : Tender(t) \/ Reconcile(t)
           \/ \E a \in wire : Arrive(a)
           \/ \E i \in DOMAIN outbox : Push(i)
           \/ Learn \/ Consider \/ VenueDies \/ Dies \/ DiesWithin
    PROVE  Quieter /\ Hears
  <1> VenueTypes /\ AgentTypes
    BY DEF Types
  <1>0. Elements(<<>>) = {}
    BY DEF Elements
  <1>1. ASSUME NEW t \in Tasks, Tender(t) PROVE Quieter /\ Hears
    <2>1. Message(t, "TENDER", 1) \in Tenders
      BY <1>1 DEF Tender, Message, Tenders
    <2>2. /\ jobs' = (jobs \ {Nothing}) \cup {Job(Nothing, "sending", Message(t, "TENDER", 1), 1)}
          /\ wire' = wire \cup {[m |-> Message(t, "TENDER", 1), attempt |-> 1]}
          /\ UNCHANGED <<venueVars, answers, local, fileVars, queue, history>>
      BY <1>1 DEF Tender, Send
    <2> QED  BY <2>1, <2>2 DEF Quieter, Hears, Job, venueVars, fileVars
  <1>2. ASSUME NEW t \in Tasks, Reconcile(t) PROVE Quieter /\ Hears
    BY <1>2 DEF Reconcile, Quieter, Hears, venueVars, netVars, agentVars
  <1>3. ASSUME NEW a \in wire, Arrive(a) PROVE Quieter /\ Hears
    <2>1. /\ nonces' \in {nonces, nonces \cup {a.m}} /\ wire' = wire \ {a}
          /\ parked' = parked \/ (a.m \notin nonces /\ parked' = parked \cup {a})
          /\ \A b \in answers' : b \in answers \/ b.notice = Nothing
          /\ UNCHANGED <<venue, done, outbox, local, fileVars, agentVars, faults, history>>
      BY <1>3 DEF Arrive, Answer
    <2> QED  BY <2>1 DEF Quieter, Hears, fileVars, agentVars
  <1>4. ASSUME NEW i \in DOMAIN outbox, Push(i) PROVE Quieter /\ Hears
    <2> DEFINE n == outbox[i]
               rest == Without(outbox, i)
    <2>1. /\ n \in Notices /\ n \in Elements(outbox)
          /\ Elements(rest) \subseteq Elements(outbox)
          /\ Elements(outbox) \subseteq Elements(rest) \cup {n}
      <3>1. /\ Elements(rest) \subseteq Elements(outbox)
            /\ Elements(outbox) \subseteq Elements(rest) \cup {n}
        BY Removed DEF VenueTypes
      <3>2. n \in Elements(outbox)
        BY DEF Elements
      <3>3. n \in Notices
        BY DEF VenueTypes
      <3> QED  BY <3>1, <3>2, <3>3
    <2>2. /\ outbox' \in {rest, outbox} /\ seen' = seen \cup {n}
          /\ queue' = IF n \in seen THEN queue ELSE Append(queue, n)
          /\ UNCHANGED <<venue, nonces, parked, done, netVars, jobs>>
      BY <1>4 DEF Push, Without
    <2> HIDE DEF n, rest
    <2>3. n \notin seen => Elements(queue') = Elements(queue) \cup {n}
      BY <2>1, <2>2, Appended DEF AgentTypes
    <2> QED  BY <2>1, <2>2, <2>3 DEF Quieter, Hears, netVars
  <1>5. CASE Learn
    <2>1. Elements(Tail(queue)) \subseteq Elements(queue)
      BY <1>5, Headed DEF Learn, AgentTypes
    <2> QED  BY <1>5, <2>1 DEF Learn, Quieter, Hears, venueVars, netVars
  <1>6. CASE Consider
    <2>1. /\ Elements(Tail(queue)) \subseteq Elements(queue)
          /\ Head(queue) \in Elements(queue) \cap Asks
      BY <1>6, Headed, Kinds DEF Consider, AgentTypes
    <2>2. /\ jobs' \subseteq jobs \cup {Job(Head(queue), "deciding", Nothing, 0)}
          /\ queue' = Tail(queue)
          /\ UNCHANGED <<venueVars, netVars, fileVars, faults, history>>
      BY <1>6 DEF Consider
    <2> QED  BY <2>1, <2>2 DEF Quieter, Hears, venueVars, netVars, fileVars, Job
  <1>7. CASE VenueDies
    BY <1>7 DEF VenueDies, Quieter, Hears, fileVars, agentVars
  <1>8. CASE Dies
    BY <1>0, <1>8 DEF Dies, Quieter, Hears, venueVars
  <1>9. CASE DiesWithin
    BY <1>0, <1>9 DEF DiesWithin, Quieter, Hears, venueVars
  <1> QED  BY <1>1, <1>2, <1>3, <1>4, <1>5, <1>6, <1>7, <1>8, <1>9
LEMMA WaitingQuiet ==
    ASSUME Types, Quieter, NEW t \in Tasks
    PROVE  Waiting(t)' \subseteq Waiting(t) /\ Moves(t)' \subseteq Moves(t)
  <1>1. ASSUME NEW n \in Waiting(t)' PROVE n \in Waiting(t)
    BY <1>1 DEF Waiting, Quieter
  <1>2. ASSUME NEW m \in Moves(t)' PROVE m \in Moves(t)
    <2>0. m \in Replies /\ m \notin Tenders /\ m.task = t /\ (m \in nonces => m \in nonces')
      BY <1>2 DEF Moves, Replies, Tenders, Quieter
    <2>1. ASSUME m \notin nonces', NEW a \in wire', a.m = m PROVE m \in Moves(t)
      BY <2>0, <2>1 DEF Moves, Quieter
    <2>2. ASSUME NEW a \in parked', a.m = m PROVE m \in Moves(t)
      BY <2>0, <2>2 DEF Moves, Quieter
    <2>3. ASSUME NEW j \in jobs', j.stage = "sending", j.m = m,
                 m \notin nonces' \/ m.type = "REJECT"
          PROVE  m \in Moves(t)
      <3>1. \E k \in jobs : k.stage = "sending" /\ k.m = m
        BY <2>0, <2>3 DEF Quieter
      <3> QED  BY <2>0, <2>3, <3>1 DEF Moves
    <2> QED  BY <1>2, <2>1, <2>2, <2>3 DEF Moves
  <1> QED  BY <1>1, <1>2

LEMMA TurnLess ==
    ASSUME NEW t \in Tasks, TurnInv(t), venue'[t] = venue[t],
           Waiting(t)' \subseteq Waiting(t), Moves(t)' \subseteq Moves(t)
    PROVE  TurnInv(t)'
  <1>1. Ask(t)' = Ask(t)
    BY DEF Ask
  <1> DEFINE W == Waiting(t)
             N == Moves(t)
             k == venue[t]
  <1> SUFFICES
        /\ k.state = "none" => k = Untouched
        /\ k.state = "none" \/ (k.state = "open" /\ k.turn = "other") => W' = {} /\ N' = {}
        /\ k.state = "open" /\ k.turn = "me" =>
              /\ k.accepted \subseteq {"other"} /\ W' \subseteq {Ask(t)}
              /\ N' # {} => W' = {}
              /\ \A m, n \in N' : m = n
              /\ \A m \in N' : m.type = "ACCEPT" => m.round = k.round
        /\ k.state = "completed" => W' = {} /\ \A m \in N' : m.type # "REJECT"
    BY <1>1 DEF TurnInv, Untouched
  <1>2. /\ k.state = "none" => k = Untouched
        /\ k.state = "none" \/ (k.state = "open" /\ k.turn = "other") => W = {} /\ N = {}
        /\ k.state = "open" /\ k.turn = "me" =>
              /\ k.accepted \subseteq {"other"} /\ W \subseteq {Ask(t)}
              /\ N # {} => W = {}
              /\ \A m, n \in N : m = n
              /\ \A m \in N : m.type = "ACCEPT" => m.round = k.round
        /\ k.state = "completed" => W = {} /\ \A m \in N : m.type # "REJECT"
    BY DEF TurnInv
  <1>3. W' \subseteq W /\ N' \subseteq N
    OBVIOUS
  <1> HIDE DEF W, N, k
  <1> QED  BY <1>2, <1>3

LEMMA TurnQuiet ==
    ASSUME Types, Quieter, \A t \in Tasks : TurnInv(t)
    PROVE  \A t \in Tasks : TurnInv(t)'
  BY WaitingQuiet, TurnLess DEF Quieter

LEMMA RoundQuiet ==
    ASSUME Types, Quieter, RoundInv
    PROVE  RoundInv'
  <1>1. ASSUME NEW n \in Asks, n \in Elements(outbox') \cup Elements(queue')
        PROVE  n.round <= venue'[n.task].round
    BY <1>1 DEF Quieter, RoundInv
  <1>2. ASSUME NEW j \in jobs', j.stage = "deciding"
        PROVE  j.notice.round <= venue'[j.notice.task].round
    <2>1. CASE j \in jobs
      BY <1>2, <2>1 DEF Quieter, RoundInv
    <2>2. CASE j \notin jobs
      BY <1>2, <2>2 DEF Quieter, RoundInv
    <2> QED  BY <2>1, <2>2
  <1>3. ASSUME NEW x \in jobs' \cup wire' \cup parked', x.m # Nothing, x.m.type = "ACCEPT"
        PROVE  x.m.round <= venue'[x.m.task].round
    <2>1. x.m \notin Tenders
      BY <1>3 DEF Tenders
    <2>2. \E y \in jobs \cup wire \cup parked : y.m = x.m
      BY <1>3, <2>1 DEF Quieter
    <2> QED  BY <1>3, <2>2 DEF RoundInv, Quieter
  <1> QED  BY <1>1, <1>2, <1>3 DEF RoundInv

\* What the venue has ended it does not take back
LEMMA SaysStays ==
    ASSUME venue' = venue, NEW n, Says(n)
    PROVE  Says(n)'
  BY DEF Says

LEMMA StatusSays ==
    ASSUME VenueTypes, NEW t \in Tasks, Terminal(t)
    PROVE  Says(StatusMessage(t)) /\ StatusMessage(t) \in Tells
           /\ (StatusMessage(t) = C(t) \/ StatusMessage(t) = R(t))
  BY StatusIs, Outcomeses DEF Says, Terminal

LEMMA TellHears ==
    ASSUME Types, TellInv, Hears
    PROVE  TellInv'
  <1> VenueTypes /\ AgentTypes
    BY DEF Types
  <1>1. \A t : StatusMessage(t)' = StatusMessage(t) /\ Terminal(t)' = Terminal(t)
    BY DEF Hears, StatusMessage, Terminal
  <1>2. ASSUME NEW n \in Tells, n \in Elements(outbox') \cup seen'
        PROVE  Says(n)'
    <2>1. CASE n \in Elements(outbox) \cup seen
      BY <2>1, SaysStays DEF TellInv, Hears
    <2>2. CASE \E t \in Tasks : Terminal(t) /\ n = StatusMessage(t)
      BY <2>2, StatusSays, SaysStays DEF Hears
    <2> QED  BY <1>2, <2>1, <2>2 DEF Hears
  <1>3. \A a \in answers' : a.notice # Nothing =>
            a.notice = StatusMessage(a.m.task)' /\ Terminal(a.m.task)'
    BY <1>1 DEF TellInv, Hears
  <1>4. ASSUME NEW t \in Tasks
        PROVE  /\ venue'[t].state = "completed" =>
                     "me" \in venue'[t].accepted /\ C(t) \in seen' \cup Elements(outbox')
               /\ venue'[t].voided => venue'[t].state = "completed"
    BY DEF TellInv, Hears
  <1>5. FirstHeard'
    BY DEF TellInv, FirstHeard, Hears
  <1> QED  BY <1>2, <1>3, <1>4, <1>5 DEF TellInv, Elements
----------------------------------------------------------------------------
(* A decision                                                              *)

LEMMA DecideWaits ==
    ASSUME Types, JobInv, NEW j \in jobs, Decide(j), NEW t \in Tasks
    PROVE  /\ j.notice.task = t => j.notice \in Waiting(t)
           /\ Waiting(t)' \subseteq Waiting(t) \ {j.notice}
  <1> VenueTypes /\ AgentTypes
    BY DEF Types
  <1>1. j.stage = "deciding" /\ j.notice \in Asks /\ j = Job(j.notice, "deciding", Nothing, 0)
    BY Decides, JobFields
  <1>2. PICK m \in Replies : Send(j, j.notice, m)
    BY Decides
  <1>3. /\ UNCHANGED <<outbox, seen, queue>>
        /\ jobs' = (jobs \ {j}) \cup {Job(j.notice, "sending", m, 1)}
    BY <1>2, Decides DEF venueVars, fileVars, Send
  <1>4. j.notice \in seen /\ j.notice \notin Elements(queue)
    BY <1>1 DEF JobInv
  <1>5. \A k \in jobs' : k.stage = "deciding" => k \in jobs /\ k.notice # j.notice
    <2>1. ASSUME NEW k \in jobs', k.stage = "deciding", k.notice = j.notice PROVE FALSE
      <3>1. k \in jobs /\ k # j
        BY <1>3, <2>1 DEF Job
      <3>2. k = Job(k.notice, "deciding", Nothing, 0)
        BY <2>1, <3>1, JobFields
      <3> QED  BY <1>1, <2>1, <3>1, <3>2
    <2>2. ASSUME NEW k \in jobs', k.stage = "deciding" PROVE k \in jobs
      BY <1>3, <2>2 DEF Job
    <2> QED  BY <2>1, <2>2
  <1>6. j.notice.task = t => j.notice \in Waiting(t)
    BY <1>1 DEF Waiting
  <1>7. ASSUME NEW n \in Waiting(t)' PROVE n \in Waiting(t) /\ n # j.notice
    BY <1>3, <1>4, <1>5, <1>7 DEF Waiting
  <1> QED  BY <1>6, <1>7

LEMMA TurnDecide ==
    ASSUME Types, JobInv, \A t \in Tasks : TurnInv(t), NEW j \in jobs, Decide(j)
    PROVE  \A t \in Tasks : TurnInv(t)'
  <1> VenueTypes /\ AgentTypes
    BY DEF Types
  <1>1. PICK m \in Replies :
           /\ m.task = j.notice.task /\ Send(j, j.notice, m)
           /\ m.type = "ACCEPT" => m.round = j.notice.round
    BY Decides
  <1>2. /\ UNCHANGED <<venue, nonces, parked>> /\ j.notice \in Asks /\ j.stage = "deciding"
        /\ jobs' = (jobs \ {j}) \cup {Job(j.notice, "sending", m, 1)}
        /\ wire' = wire \cup {[m |-> m, attempt |-> 1]}
    BY <1>1, Decides DEF venueVars, Send
  <1>3. ASSUME NEW t \in Tasks
        PROVE  Moves(t)' \subseteq Moves(t) \cup (IF m.task = t THEN {m} ELSE {})
    BY <1>2 DEF Moves, Job
  <1>4. ASSUME NEW t \in Tasks, t # m.task PROVE TurnInv(t)'
    BY <1>2, <1>3, <1>4, DecideWaits, TurnLess
  <1>5. ASSUME NEW t \in Tasks, t = m.task PROVE TurnInv(t)'
    <2> DEFINE W == Waiting(t)
               N == Moves(t)
               k == venue[t]
    <2>1. j.notice \in W /\ W' \subseteq W \ {j.notice} /\ N' \subseteq N \cup {m} /\ k' = k
      BY <1>1, <1>2, <1>3, <1>5, DecideWaits
    <2>2. k.state # "completed" /\ k.state # "none" /\ ~(k.state = "open" /\ k.turn = "other")
      BY <2>1 DEF TurnInv
    <2>3. CASE k.state \in {"canceled", "rejected"}
      BY <2>1, <2>3 DEF TurnInv
    <2>4. CASE k.state = "open" /\ k.turn = "me"
      <3>1. k.accepted \subseteq {"other"} /\ W \subseteq {Ask(t)} /\ N = {}
        BY <2>1, <2>4 DEF TurnInv
      <3>2. j.notice = Ask(t) /\ W' = {} /\ N' \subseteq {m}
        BY <2>1, <3>1
      <3>3. m.type = "ACCEPT" => m.round = k.round
        BY <1>1, <3>2 DEF Ask, Notice
      <3> QED  BY <2>1, <2>4, <3>1, <3>2, <3>3 DEF TurnInv
    <2>5. k.state \in States /\ k.turn \in {"me", "other"}
      BY KeptFields
    <2> QED  BY <2>2, <2>3, <2>4, <2>5 DEF States
  <1> QED  BY <1>4, <1>5

LEMMA RoundDecide ==
    ASSUME Types, RoundInv, NEW j \in jobs, Decide(j)
    PROVE  RoundInv'
  <1> VenueTypes /\ AgentTypes
    BY DEF Types
  <1>1. PICK m \in Replies :
           /\ m.task = j.notice.task /\ Send(j, j.notice, m)
           /\ m.type = "ACCEPT" => m.round = j.notice.round
    BY Decides
  <1>2. /\ UNCHANGED <<venue, parked, outbox, queue>> /\ j.stage = "deciding"
        /\ jobs' = (jobs \ {j}) \cup {Job(j.notice, "sending", m, 1)}
        /\ wire' = wire \cup {[m |-> m, attempt |-> 1]}
    BY <1>1, Decides DEF venueVars, Send
  <1>3. m.type = "ACCEPT" => m.round <= venue[m.task].round
    BY <1>1, <1>2 DEF RoundInv
  <1>4. \A k \in jobs' : k.stage = "deciding" => k \in jobs
    BY <1>2 DEF Job
  <1>5. \A x \in jobs' \cup wire' \cup parked' : x \in jobs \cup wire \cup parked \/ x.m = m
    BY <1>2 DEF Job
  <1> QED  BY <1>2, <1>3, <1>4, <1>5 DEF RoundInv

LEMMA HearsDecide ==
    ASSUME Types, NEW j \in jobs, Decide(j)
    PROVE  Hears
  <1>1. UNCHANGED <<venueVars, answers, fileVars>>
    BY Decides DEF Types
  <1> QED  BY <1>1 DEF Hears, venueVars, fileVars

----------------------------------------------------------------------------
(* The venue's steps                                                       *)

\* The agent's message m is of t, and was parked
Sent(t, m) ==
    /\ ByAgent(t, m) /\ m \in Messages /\ m.task = t /\ m \in nonces
    /\ \E a \in parked : a.m = m /\ parked' = parked \ {a}
    /\ done' = done \cup {m}
VenueMoves(t, m) ==
    /\ ByOther(t) \/ Sent(t, m)
    /\ parked' \subseteq parked /\ done \subseteq done'
    /\ UNCHANGED <<nonces, wire, local, fileVars, agentVars, history>>

LEMMA VenueWaits ==
    ASSUME Types, NEW t \in Tasks, NEW m, VenueMoves(t, m), Owes(t), NEW u \in Tasks
    PROVE  /\ Moves(u)' \subseteq Moves(u)
           /\ Waiting(u)' \subseteq Waiting(u) \cup
                (IF u = t /\ (Opened(t) \/ Asked(t)) THEN {Ask(t)'} ELSE {})
  <1> VenueTypes /\ AgentTypes
    BY DEF Types
  <1>1. UNCHANGED <<nonces, wire, seen, queue, jobs>> /\ parked' \subseteq parked
    BY DEF VenueMoves, fileVars, agentVars
  <1>2. Moves(u)' \subseteq Moves(u)
    BY <1>1 DEF Moves
  <1>3. \A n \in Elements(outbox') :
           \/ n \in Elements(outbox) \/ n \in Tells
           \/ n = Ask(t)' /\ n.task = t /\ (Opened(t) \/ Asked(t))
    <2>1. CASE outbox' = outbox
      BY <2>1
    <2>2. ASSUME NEW n \in Asks, outbox' = Append(outbox, n), n = Ask(t)', n.task = t,
                 Opened(t) \/ Asked(t)
          PROVE  \A e \in Elements(outbox') : e \in Elements(outbox) \/ e = n
      BY <2>2, Appended DEF VenueTypes, Notices
    <2>3. ASSUME NEW n \in Tells, outbox' = Append(outbox, n)
          PROVE  \A e \in Elements(outbox') : e \in Elements(outbox) \/ e = n
      BY <2>3, Appended DEF VenueTypes, Notices
    <2> QED  BY <2>1, <2>2, <2>3 DEF Owes
  <1>4. ASSUME NEW n \in Waiting(u)', n \notin Waiting(u)
        PROVE  u = t /\ (Opened(t) \/ Asked(t)) /\ n = Ask(t)'
    BY <1>1, <1>3, <1>4, Kinds DEF Waiting, Notices
  <1> QED  BY <1>2, <1>4
LEMMA TurnVenue ==
    ASSUME Types, Intake, \A u \in Tasks : TurnInv(u),
           NEW t \in Tasks, NEW m, VenueMoves(t, m)
    PROVE  \A u \in Tasks : TurnInv(u)'
  <1> VenueTypes /\ AgentTypes
    BY DEF Types
  <1>0. venue' \in [Tasks -> Kept] /\ Owes(t) /\ Others(t)
    BY OwesIt DEF TurnInv, VenueMoves, ByOther, Sent, ByAgent
  <1>1. ASSUME NEW u \in Tasks, u # t PROVE TurnInv(u)'
    BY <1>0, <1>1, VenueWaits, TurnLess DEF Others
  <1> DEFINE W == Waiting(t)
             N == Moves(t)
             k == venue[t]
  <1>2. /\ k.state = "none" => k = Untouched
        /\ k.state = "none" \/ (k.state = "open" /\ k.turn = "other") => W = {} /\ N = {}
        /\ k.state = "open" /\ k.turn = "me" =>
              /\ k.accepted \subseteq {"other"} /\ W \subseteq {Ask(t)}
              /\ N # {} => W = {}
              /\ \A x, n \in N : x = n
              /\ \A x \in N : x.type = "ACCEPT" => x.round = k.round
        /\ k.state = "completed" => W = {} /\ \A x \in N : x.type # "REJECT"
    BY DEF TurnInv
  <1>3. /\ N' \subseteq N
        /\ W' \subseteq W \cup (IF Opened(t) \/ Asked(t) THEN {Ask(t)'} ELSE {})
    BY <1>0, VenueWaits
  <1>4. Sent(t, m) /\ m.type # "TENDER" => m \in N /\ m \in Replies
    <2>1. Sent(t, m) /\ m.type # "TENDER" => m \in Replies /\ m.task = t
      BY Kinds DEF VenueMoves, Sent
    <2> QED  BY <2>1 DEF VenueMoves, Sent, Moves
  <1>5. k' \in Kept /\ k' = venue'[t]
    BY <1>0
  <1>6. SUFFICES
        ASSUME ~Stays
        PROVE
        /\ k'.state # "none"
        /\ k'.state = "open" /\ k'.turn = "other" => W' = {} /\ N' = {}
        /\ k'.state = "open" /\ k'.turn = "me" =>
              /\ k'.accepted \subseteq {"other"} /\ W' \subseteq {Ask(t)'}
              /\ N' # {} => W' = {}
              /\ \A x, n \in N' : x = n
              /\ \A x \in N' : x.type = "ACCEPT" => x.round = k'.round
        /\ k'.state = "completed" => W' = {} /\ \A x \in N' : x.type # "REJECT"
    <2>1. CASE Stays
      <3>1. ~Opened(t) /\ ~Asked(t) /\ venue' = venue
        BY <2>1 DEF Stays, Opened, Asked, Turned
      <3>2. TurnInv(t)'
        BY <1>3, <3>1, TurnLess
      <3> QED  BY <1>1, <3>2
    <2>2. CASE ~Stays
      BY <1>1, <2>2 DEF TurnInv
    <2> QED  BY <2>1, <2>2
  <1> HIDE DEF W, N
  <1>8. CASE Opened(t)
    <2>1. k = Untouched /\ W = {} /\ N = {}
      BY <1>2, <1>8 DEF Opened
    <2>2. k'.state = "open" /\ k'.turn = "me" /\ k'.accepted = {}
      BY <1>8, <2>1 DEF Opened, Untouched
    <2> QED  BY <1>3, <2>1, <2>2
  <1>9. CASE Admitted(t)
    <2>1. k = Untouched /\ W = {} /\ N = {}
      BY <1>2, <1>9 DEF Admitted
    <2>2. k'.state \in {"open", "rejected"} /\ k'.turn = "other" /\ ~Opened(t) /\ ~Asked(t)
      BY <1>9, <2>1 DEF Admitted, Untouched, Opened, Asked, Turned
    <2> QED  BY <1>3, <2>1, <2>2
  <1>10. CASE Asked(t)
    <2>1. W = {} /\ N = {} /\ k'.state = "open" /\ k'.turn # "other" /\ k'.accepted \subseteq {"other"}
      BY <1>2, <1>10 DEF Asked, Turned
    <2> QED  BY <1>3, <2>1
  <1>11. CASE Replied(t) /\ Sent(t, m) /\ m.type \notin {"TENDER", "REJECT"}
    <2>1. k.state = "open" /\ k.turn = "me" /\ k'.state = "open" /\ k'.turn # "me"
          /\ ~Opened(t) /\ ~Asked(t)
      BY <1>11 DEF Replied, Turned, Opened, Asked
    <2>2. W = {} /\ N \subseteq {m}
      BY <1>2, <1>4, <1>11, <2>1
    <2>3. m \notin N'
      <3>1. PICK a \in parked : a.m = m /\ parked' = parked \ {a}
        BY <1>11 DEF VenueMoves, Sent
      <3>2. m \in nonces' /\ \A b \in parked' : b.m # m
        BY <1>11, <3>1 DEF VenueMoves, Sent, Intake
      <3> QED  BY <1>11, <3>2 DEF N, Moves
    <2> QED  BY <1>3, <2>1, <2>2, <2>3
  <1>12. CASE Canceled(t)
    BY <1>12 DEF Canceled
  <1>13. CASE Completed(t) /\ k.turn = "other"
    <2>1. W = {} /\ N = {} /\ k'.state = "completed" /\ ~Opened(t) /\ ~Asked(t)
      BY <1>2, <1>13 DEF Completed, Opened, Asked, Turned
    <2> QED  BY <1>3, <2>1
  <1>14. CASE Completed(t) /\ k.turn = "me" /\ Sent(t, m) /\ m.type = "ACCEPT"
    <2>1. k.state = "open" /\ k'.state = "completed" /\ ~Opened(t) /\ ~Asked(t)
      BY <1>14 DEF Completed, Opened, Asked, Turned
    <2>2. W = {} /\ N \subseteq {m}
      BY <1>2, <1>4, <1>14, <2>1
    <2> QED  BY <1>3, <1>14, <2>1, <2>2
  <1>15. CASE Voided(t)
    <2>1. k.state = "completed" /\ k'.state = "completed" /\ ~Opened(t) /\ ~Asked(t)
      <3>1. k'.state = k.state
        BY <1>15, KeptFields DEF Voided, Kept
      <3> QED  BY <1>15, <3>1 DEF Voided, Opened, Asked, Turned
    <2> QED  BY <1>2, <1>3, <2>1
  <1> QED
    BY <1>6, <1>8, <1>9, <1>10, <1>11, <1>12, <1>13, <1>14, <1>15 DEF VenueMoves, ByOther, Sent, ByAgent
\* The negotiation goes forward
LEMMA Forward ==
    ASSUME Types, NEW t \in Tasks, Owes(t), Others(t), NEW u \in Tasks
    PROVE  /\ venue[u].round <= venue'[u].round
           /\ venue[u].state = "completed" =>
                 venue'[u].state = "completed" /\ venue'[u].accepted = venue[u].accepted
           /\ venue[u].state \in {"canceled", "rejected"} => venue'[u].state = venue[u].state
           /\ venue[u].voided => venue'[u].voided
           /\ venue[u].state # "none" => venue'[u].state # "none"
           /\ Terminal(u) => Terminal(u)' /\ StatusMessage(u)' = StatusMessage(u)
  <1> VenueTypes
    BY DEF Types
  <1>1. venue[u] \in Kept /\ venue[u].round \in Nat /\ venue[u].round <= venue[u].round
    BY KeptFields
  <1>2. /\ venue[u].round <= venue'[u].round
        /\ venue[u].state = "completed" =>
              venue'[u].state = "completed" /\ venue'[u].accepted = venue[u].accepted
        /\ venue[u].state \in {"canceled", "rejected"} => venue'[u].state = venue[u].state
        /\ venue[u].voided => venue'[u].voided
        /\ venue[u].state # "none" => venue'[u].state # "none"
    <2>1. CASE venue'[u] = venue[u]
      BY <1>1, <2>1
    <2>2. CASE venue'[u] # venue[u]
      <3>1. u = t /\ ~Stays
        BY <2>2 DEF Others, Stays
      <3>2. CASE Admitted(u) \/ Opened(u)
        BY <1>1, <3>2 DEF Admitted, Opened
      <3>3. CASE Replied(u) \/ Asked(u)
        <4>1. Turned(u, "me") \/ Turned(u, "other")
          BY <3>3 DEF Replied, Asked
        <4>2. venue'[u].round \in {venue[u].round, venue[u].round + 1}
          BY <4>1 DEF Turned
        <4>3. venue[u].round <= venue'[u].round
          BY <1>1, <4>2
        <4>4. venue[u].state = "open" /\ venue'[u].state = "open" /\ venue'[u].voided = venue[u].voided
          BY <4>1 DEF Turned
        <4> QED  BY <4>3, <4>4
      <3>4. CASE Canceled(u) \/ Completed(u)
        BY <1>1, <3>4 DEF Canceled, Completed
      <3>5. CASE Voided(u)
        <4>1. /\ venue'[u].state = venue[u].state /\ venue'[u].round = venue[u].round
              /\ venue'[u].accepted = venue[u].accepted /\ venue'[u].voided
          BY <1>1, <3>5 DEF Voided, Kept
        <4> QED  BY <1>1, <4>1
      <3> QED  BY <3>1, <3>2, <3>3, <3>4, <3>5 DEF Owes
    <2> QED  BY <2>1, <2>2
  <1>3. Terminal(u) => Terminal(u)' /\ StatusMessage(u)' = StatusMessage(u)
    BY <1>2 DEF Terminal, StatusMessage
  <1> QED  BY <1>2, <1>3

LEMMA RoundVenue ==
    ASSUME Types, RoundInv, NEW t \in Tasks, NEW m, VenueMoves(t, m), Owes(t), Others(t)
    PROVE  RoundInv'
  <1> VenueTypes /\ AgentTypes
    BY DEF Types
  <1>1. UNCHANGED <<wire, queue, jobs>> /\ parked' \subseteq parked
    BY DEF VenueMoves, fileVars, agentVars
  <1>2. \A u \in Tasks : /\ venue[u].round \in Nat /\ venue'[u].round \in Nat
                         /\ venue[u].round <= venue'[u].round
    <2>1. venue' \in [Tasks -> Kept]
      BY DEF Others
    <2> QED  BY <2>1, Forward, KeptFields DEF Kept
  <1>3. ASSUME NEW n \in Asks, n \in Elements(outbox') \cup Elements(queue')
        PROVE  n.round <= venue'[n.task].round
    <2>0. n.task \in Tasks /\ n.round \in Nat
      BY DEF Asks
    <2>1. CASE n \in Elements(outbox) \cup Elements(queue)
      <3>1. n.round <= venue[n.task].round
        BY <2>1 DEF RoundInv
      <3> QED  BY <1>2, <2>0, <3>1
    <2>2. CASE n \notin Elements(outbox) \cup Elements(queue)
      <3>1. n \in Elements(outbox') /\ n \notin Elements(outbox)
        BY <1>1, <1>3, <2>2
      <3>2. PICK e \in Notices : outbox' = Append(outbox, e) /\ (e \in Asks => e = Ask(t)' /\ e.task = t)
        BY <3>1, Kinds DEF Owes, Notices
      <3>3. n = e
        BY <3>1, <3>2, Appended DEF VenueTypes
      <3>4. n = Ask(t)' /\ n.task = t
        BY <3>2, <3>3
      <3>5. n.round = venue'[t].round
        BY <3>4 DEF Ask, Notice
      <3> QED  BY <1>2, <3>4, <3>5
    <2> QED  BY <2>1, <2>2
  <1>4. ASSUME NEW j \in jobs', j.stage = "deciding"
        PROVE  j.notice.round <= venue'[j.notice.task].round
    <2>1. j \in jobs /\ j.notice \in Asks
      BY <1>1, <1>4, JobFields
    <2>2. j.notice.round <= venue[j.notice.task].round /\ j.notice.task \in Tasks /\ j.notice.round \in Nat
      BY <1>4, <2>1 DEF RoundInv, Asks
    <2> QED  BY <1>2, <2>2
  <1>5. ASSUME NEW x \in jobs' \cup wire' \cup parked', x.m # Nothing, x.m.type = "ACCEPT"
        PROVE  x.m.round <= venue'[x.m.task].round
    <2>1. x \in jobs \cup wire \cup parked
      BY <1>1
    <2>2. x.m \in Messages
      <3>1. CASE x \in jobs
        BY <1>5, <3>1, JobFields
      <3> QED  BY <2>1, <3>1 DEF VenueTypes, Attempts
    <2>3. x.m \in Replies /\ x.m.task \in Tasks
      BY <1>5, <2>2, Kinds DEF Replies
    <2>4. x.m.round \in Nat /\ x.m.round <= venue[x.m.task].round
      BY <1>5, <2>1, <2>3 DEF RoundInv, Replies
    <2> QED  BY <1>2, <2>3, <2>4
  <1> QED  BY <1>3, <1>4, <1>5 DEF RoundInv

LEMMA SaysForward ==
    ASSUME Types, NEW t \in Tasks, Owes(t), Others(t), NEW n \in Notices, Says(n)
    PROVE  Says(n)'
  <1>1. n.task \in Tasks
    BY Nothings
  <1> QED  BY <1>1, Forward DEF Says

LEMMA TellVenue ==
    ASSUME Types, \A u \in Tasks : TurnInv(u), TellInv,
           NEW t \in Tasks, NEW m, VenueMoves(t, m), Owes(t), Others(t),
           \A b \in answers' : b \in answers \/
              (b.m.task = t /\ b.notice = StatusMessage(t)')
    PROVE  TellInv'
  <1> VenueTypes /\ AgentTypes
    BY DEF Types
  <1>1. UNCHANGED <<seen, queue, jobs>> /\ done \subseteq done' /\ venue' \in [Tasks -> Kept]
    BY DEF VenueMoves, fileVars, agentVars, Others
  <1>2. /\ Elements(outbox) \subseteq Elements(outbox')
        /\ \A n \in Elements(outbox') : n \in Elements(outbox) \/ n \in Asks \/
              /\ outbox' = Append(outbox, n) /\ n.task = t
              /\ \/ Canceled(t) /\ n.type = "REFUSED"
                 \/ Completed(t) /\ n = C(t)
                 \/ Voided(t) /\ n = V(t)
    <2>1. CASE outbox' = outbox
      BY <2>1
    <2>2. ASSUME NEW n \in Notices, outbox' = Append(outbox, n)
          PROVE  Elements(outbox') = Elements(outbox) \cup {n}
      BY <2>2, Appended DEF VenueTypes
    <2> QED  BY <2>1, <2>2 DEF Owes, Notices
  <1>3. ASSUME NEW n \in Tells, n \in Elements(outbox') \cup seen'
        PROVE  Says(n)'
    <2>1. CASE n \in Elements(outbox) \cup seen
      BY <2>1, SaysForward DEF TellInv, Notices
    <2>2. CASE n.task = t /\ Canceled(t) /\ n.type = "REFUSED"
      BY <2>2 DEF Canceled, Says
    <2>3. CASE Completed(t) /\ n = C(t)
      BY <2>3, Outcomeses DEF Completed, Says
    <2>4. CASE Voided(t) /\ n = V(t)
      <3>1. venue'[t].state = "completed" /\ venue'[t].voided
        BY <2>4, KeptFields DEF Voided, Kept
      <3> QED  BY <2>4, <3>1, Outcomeses DEF Says
    <2> QED  BY <1>1, <1>2, <1>3, <2>1, <2>2, <2>3, <2>4, Kinds DEF Notices
  <1>4. ASSUME NEW b \in answers', b.notice # Nothing
        PROVE  b.notice = StatusMessage(b.m.task)' /\ Terminal(b.m.task)'
    <2>1. CASE b \in answers
      <3>1. b.m.task \in Tasks
        BY <2>1, Nothings DEF VenueTypes, Answerings
      <3> QED  BY <1>4, <2>1, <3>1, Forward DEF TellInv
    <2>2. CASE b.m.task = t /\ b.notice = StatusMessage(t)'
      BY <1>4, <2>2 DEF StatusMessage, Terminal
    <2> QED  BY <2>1, <2>2
  <1>5. ASSUME NEW u \in Tasks
        PROVE  /\ venue'[u].state = "completed" =>
                     "me" \in venue'[u].accepted /\ C(u) \in seen' \cup Elements(outbox')
               /\ venue'[u].voided => venue'[u].state = "completed"
    <2>1. CASE venue'[u] = venue[u]
      BY <1>1, <1>2, <2>1 DEF TellInv
    <2>2. CASE venue'[u] # venue[u]
      <3>1. u = t /\ ~Stays
        BY <2>2 DEF Others, Stays
      <3>2. CASE Admitted(t) \/ Opened(t)
        BY <3>1, <3>2 DEF Admitted, Opened, TellInv
      <3>3. CASE Replied(t) \/ Asked(t) \/ Canceled(t)
        BY <3>1, <3>3 DEF Replied, Asked, Turned, Canceled, TellInv
      <3>4. CASE Completed(t)
        <4>1. C(t) \in Elements(outbox')
          BY <3>4, Appended, Outcomeses DEF Completed, VenueTypes, Notices
        <4> QED  BY <3>1, <3>4, <4>1 DEF Completed
      <3>5. CASE Voided(t)
        <4>1. venue'[t].state = "completed" /\ venue'[t].accepted = venue[t].accepted
          BY <3>5, KeptFields DEF Voided, Kept
        <4> QED  BY <1>1, <1>2, <3>1, <3>5, <4>1 DEF TellInv, Voided
      <3> QED  BY <3>1, <3>2, <3>3, <3>4, <3>5 DEF Owes
    <2> QED  BY <2>1, <2>2
  <1>6. FirstHeard'
    <2> SUFFICES ASSUME NEW u \in Tasks, u \in Outbound, venue'[u].state # "none"
                 PROVE  Message(u, "TENDER", 1) \in done'
      BY DEF FirstHeard
    <2>1. CASE venue[u].state # "none"
      BY <1>1, <2>1 DEF TellInv, FirstHeard
    <2>2. CASE venue[u].state = "none"
      <3>1. u = t /\ ~Stays
        BY <2>2 DEF Others, Stays
      <3>2. Sent(t, m) /\ m.type = "TENDER"
        BY <2>2, <3>1
           DEF VenueMoves, ByOther, Sent, ByAgent, Opened, Asked, Voided, Canceled, Completed, Replied, Turned
      <3>3. m \in Tenders /\ m.task = t /\ m \in done'
        BY <3>2, Kinds DEF VenueMoves, Sent
      <3>4. m = Message(t, "TENDER", 1)
        BY <3>3 DEF Tenders, Message
      <3> QED  BY <3>1, <3>3, <3>4
    <2> QED  BY <2>1, <2>2
  <1> QED  BY <1>3, <1>4, <1>5, <1>6 DEF TellInv
----------------------------------------------------------------------------
(* The agent's handlers                                                    *)

LEMMA HeardIs ==
    ASSUME AgentTypes, NEW n \in Tells \cup {Nothing}
    PROVE  /\ Heard(n) \in [Tasks -> Statuses]
           /\ \A u \in Tasks : /\ Heard(n)[u] = "none" <=> local[u] = "none"
                               /\ u # n.task => Heard(n)[u] = local[u]
           /\ Applies(n) => n \in Tells /\ n.task \in Tasks /\ Heard(n)[n.task] =
                 (IF n.type = "REFUSED" THEN "CANCELED" ELSE n.type)
           /\ ~Applies(n) => Heard(n) = local
  <1>1. CASE Applies(n)
    <2>1. n \in Tells /\ n.task \in Tasks /\ n.type \in Outcomes /\ local[n.task] # "none"
      BY <1>1 DEF Applies, Tells
    <2>2. Heard(n) = [local EXCEPT ![n.task] = IF n.type = "REFUSED" THEN "CANCELED" ELSE n.type]
      BY <1>1 DEF Heard
    <2> QED  BY <1>1, <2>1, <2>2 DEF AgentTypes, Outcomes, Statuses
  <1>2. CASE ~Applies(n)
    BY <1>2 DEF Heard, AgentTypes
  <1> QED  BY <1>1, <1>2

LEMMA JobKeeps ==
    ASSUME JobInv, seen \subseteq seen', Elements(queue') \subseteq Elements(queue), Distinct(queue'),
           \A j \in jobs' : \E k \in jobs :
               /\ k.notice = j.notice /\ (j.notice = Nothing => j.m = k.m)
               /\ j.stage = "deciding" => k.stage = "deciding",
           \A j, k \in jobs' : j.notice = Nothing /\ k.notice = Nothing /\ j.m = k.m => j = k,
           \A n \in Elements(queue) : n.task \in Tasks,
           \A j \in jobs : /\ j.notice # Nothing => j.notice.task \in Tasks
                           /\ j.notice = Nothing => j.m.task \in Tasks,
           \A u \in Tasks :
               /\ local'[u] = "none" <=> local[u] = "none"
               /\ saved'[u] # "none" => saved[u] # "none" \/ local[u] # "none"
               /\ saved'[u] # local'[u] => \E j \in jobs' : j.notice.task = u
    PROVE  JobInv'
  <1>1. \A j \in jobs' : /\ j.stage = "deciding" => j.notice \in seen' /\ j.notice \notin Elements(queue')
                         /\ j.notice # Nothing => local'[j.notice.task] # "none"
                         /\ j.notice = Nothing => local'[j.m.task] = "none"
    BY DEF JobInv
  <1>2. \A n \in Elements(queue') : n.type = "TENDER" => local'[n.task] = "none"
    BY DEF JobInv
  <1>3. \A t \in Tasks : /\ t \notin Outbound /\ (local'[t] # "none" \/ saved'[t] # "none")
                               => Notice(t, "TENDER", 1, 0) \in seen'
                         /\ saved'[t] # local'[t] => \E j \in jobs' : j.notice.task = t
    BY DEF JobInv
  <1>4. Elements(queue') \subseteq seen' /\ Distinct(queue')
    BY DEF JobInv
  <1> QED  BY <1>1, <1>2, <1>3, <1>4 DEF JobInv, Elements, Distinct

\* Where the tasks of queue and handlers lie
LEMMA JobTasks ==
    ASSUME AgentTypes
    PROVE  /\ \A n \in Elements(queue) : n \in Notices /\ n.task \in Tasks
           /\ \A j \in jobs : /\ j.notice # Nothing =>
                                    j.notice.task \in Tasks /\ j.notice \in Asks
                              /\ j.notice = Nothing => j.m.task \in Tasks /\ j.m \in Tenders
                                    /\ j.stage = "sending"
           /\ \A u \in Tasks : Nothing.task # u
  <1>1. \A n \in Elements(queue) : n \in Notices /\ n.task \in Tasks
    BY Nothings DEF AgentTypes, Elements
  <1>2. ASSUME NEW j \in jobs
        PROVE  /\ j.notice # Nothing => j.notice.task \in Tasks /\ j.notice \in Asks
               /\ j.notice = Nothing => j.m.task \in Tasks /\ j.m \in Tenders
                                        /\ j.stage = "sending"
    <2>1. Nothing \notin Asks /\ Tenders \subseteq Messages /\ \A n \in Asks : n.task \in Tasks
      BY Nothings DEF Notices, Messages, Asks
    <2>2. CASE j \in Tendering
      BY <2>1, <2>2, Nothings DEF Tendering
    <2>3. CASE j \in Deciding \cup Replying
      BY <2>1, <2>3 DEF Deciding, Replying
    <2> QED  BY <2>2, <2>3 DEF AgentTypes
  <1>3. \A u \in Tasks : Nothing.task # u
    BY AgentAssumption DEF Nothing
  <1> QED  BY <1>1, <1>2, <1>3

LEMMA JobFrame ==
    ASSUME JobInv, UNCHANGED <<queue, seen, jobs, local, saved>>
    PROVE  JobInv'
  BY DEF JobInv, Elements, Distinct

\* A handler that ends or sends again
LEMMA JobOver ==
    ASSUME Types, AnswersTrue, JobInv, NEW j \in jobs,
           Dropped(j) \/ \E a \in answers : Answered(j, a)
    PROVE  JobInv'
  <1> VenueTypes /\ AgentTypes
    BY DEF Types
  <1>1. /\ queue' = queue /\ j.stage = "sending" /\ (Retries(j) \/ TenderOver(j) \/ ReplyOver(j))
    BY JobMoves DEF Unmoved
  <1>2. CASE Retries(j)
    <2> DEFINE h == Job(j.notice, "sending", j.m, j.attempt + 1)
    <2>1. /\ jobs' = (jobs \ {j}) \cup {h} /\ UNCHANGED <<local, saved, seen>>
          /\ h.notice = j.notice /\ h.m = j.m /\ h.stage = "sending"
      BY <1>2 DEF Retries, fileVars, Job
    <2> HIDE DEF h
    <2>2. \A k \in jobs' : \E i \in jobs :
               /\ i.notice = k.notice /\ (k.notice = Nothing => k.m = i.m)
               /\ k.stage = "deciding" => i.stage = "deciding"
      BY <2>1
    <2>3. \A i, k \in jobs' : i.notice = Nothing /\ k.notice = Nothing /\ i.m = k.m => i = k
      BY <2>1 DEF JobInv
    <2>4. \A u \in Tasks : saved'[u] # local'[u] => \E k \in jobs' : k.notice.task = u
      BY <2>1 DEF JobInv
    <2> QED  BY <1>1, <2>1, <2>2, <2>3, <2>4, JobTasks, JobKeeps DEF JobInv, Elements, Distinct
  <1>3. CASE TenderOver(j)
    <2>0. j.m \in Tenders /\ j.m.task \in Tasks /\ j.m.task \in Outbound /\ j.notice = Nothing
          /\ j.m = Message(j.m.task, "TENDER", 1)
      <3>1. j.m \in Tenders
        BY <1>3 DEF TenderOver
      <3>2. j.m.task \in Outbound /\ j.m = Message(j.m.task, "TENDER", 1) /\ j.m.type = "TENDER"
        BY <3>1 DEF Tenders, Message
      <3> QED  BY <1>1, <3>1, <3>2, JobFields, AgentAssumption
    <2>1. /\ jobs' = jobs \ {j} /\ seen' = seen
          /\ \A u \in Tasks : u # j.m.task => local'[u] = local[u]
          /\ local'[j.m.task] = "none" => local' = local
          /\ UNCHANGED <<local, saved>> \/ saved' = local'
      BY <1>3, <2>0 DEF TenderOver, AgentTypes
    <2>2. \A k \in jobs' :
             /\ k.stage = "deciding" => k.notice \in seen' /\ k.notice \notin Elements(queue')
             /\ k.notice # Nothing => local'[k.notice.task] # "none"
             /\ k.notice = Nothing => local'[k.m.task] = "none"
      <3> SUFFICES ASSUME NEW k \in jobs'
                   PROVE  /\ k.notice # Nothing => local'[k.notice.task] # "none"
                          /\ k.notice = Nothing => local'[k.m.task] = "none"
        BY <1>1, <2>1 DEF JobInv, Elements
      <3>1. CASE k.notice # Nothing
        BY <2>0, <2>1, <3>1, JobTasks DEF JobInv
      <3>2. CASE k.notice = Nothing
        <4>1. k \in jobs /\ k # j /\ k.m # j.m /\ k.m \in Tenders /\ k.m.task \in Tasks
          BY <2>0, <2>1, <3>2, JobTasks DEF JobInv
        <4>2. k.m = Message(k.m.task, "TENDER", 1)
          BY <4>1 DEF Tenders, Message
        <4>3. k.m.task # j.m.task
          BY <2>0, <4>1, <4>2
        <4> QED  BY <2>1, <3>2, <4>1, <4>3 DEF JobInv
      <3> QED  BY <3>1, <3>2
    <2>3. \A n \in Elements(queue') : n.type = "TENDER" => local'[n.task] = "none"
      <3> SUFFICES ASSUME NEW n \in Elements(queue), n.type = "TENDER" PROVE local'[n.task] = "none"
        BY <1>1 DEF Elements
      <3>1. n.task \in Tasks /\ n.task \notin Outbound
        BY JobTasks DEF Notices, Asks, Tells, Outcomes
      <3> QED  BY <2>0, <2>1, <3>1 DEF JobInv
    <2>4. \A u \in Tasks :
             /\ u \notin Outbound /\ (local'[u] # "none" \/ saved'[u] # "none")
                    => Notice(u, "TENDER", 1, 0) \in seen'
             /\ saved'[u] # local'[u] => \E k \in jobs' : k.notice.task = u
      <3> SUFFICES ASSUME NEW u \in Tasks
                   PROVE  /\ u \notin Outbound /\ (local'[u] # "none" \/ saved'[u] # "none")
                                => Notice(u, "TENDER", 1, 0) \in seen'
                          /\ saved'[u] # local'[u] => \E k \in jobs' : k.notice.task = u
        OBVIOUS
      <3>1. \A k \in jobs : k.notice.task = u => k \in jobs'
        BY <2>0, <2>1, JobTasks
      <3> QED  BY <2>0, <2>1, <3>1 DEF JobInv
    <2> QED  BY <1>1, <2>1, <2>2, <2>3, <2>4 DEF JobInv, Elements, Distinct
  <1>4. CASE ReplyOver(j)
    <2>1. PICK outcome \in {StatusMessage(j.m.task), Nothing} : Ends(j, outcome)
      BY <1>4 DEF ReplyOver
    <2>2. /\ j.m \in Replies /\ j.notice \in Asks /\ j.m.task = j.notice.task
          /\ j.m.task \in Tasks /\ j.notice # Nothing
      <3>1. j.m \in Replies
        BY <1>4 DEF ReplyOver
      <3>2. j.m.type # "TENDER"
        BY <3>1 DEF Replies
      <3> QED  BY <1>1, <3>1, <3>2, JobFields, Nothings DEF Notices, Messages
    <2>3. outcome \in Tells \cup {Nothing}
      BY <2>2, StatusIs
    <2>4. PICK n \in Tells \cup {Nothing} : n = IF outcome \in seen THEN Nothing ELSE outcome
      BY <2>3
    <2>5. /\ jobs' = jobs \ {j} /\ seen \subseteq seen' /\ saved' = local'
          /\ local' = IF j.m.type = "REJECT" THEN [Heard(n) EXCEPT ![j.m.task] = "REJECTED"]
                      ELSE Heard(n)
      BY <2>1, <2>4 DEF Ends
    <2>6. local[j.m.task] # "none"
      BY <2>2 DEF JobInv
    <2>7. \A u \in Tasks : local'[u] = "none" <=> local[u] = "none"
      BY <2>5, <2>6, HeardIs
    <2>8. \A i, k \in jobs' : i.notice = Nothing /\ k.notice = Nothing /\ i.m = k.m => i = k
      BY <2>5 DEF JobInv
    <2> QED  BY <1>1, <2>5, <2>7, <2>8, JobTasks, JobKeeps DEF JobInv, Elements, Distinct
  <1> QED  BY <1>1, <1>2, <1>3, <1>4
\* An outcome is heard, from the queue or not
LEMMA JobHears ==
    ASSUME Types, JobInv, NEW n \in Tells \cup {Nothing}, Process(n),
           seen \subseteq seen', jobs' = jobs,
           Elements(queue') \subseteq Elements(queue), Distinct(queue')
    PROVE  JobInv'
  <1> VenueTypes /\ AgentTypes
    BY DEF Types
  <1>1. /\ local' = Heard(n) /\ (Applies(n) => saved' = local')
        /\ ~Applies(n) => saved' = saved /\ local' = local
    BY HeardIs DEF Process
  <1>2. \A u \in Tasks : local'[u] = "none" <=> local[u] = "none"
    BY <1>1, HeardIs
  <1>3. \A u \in Tasks : /\ saved'[u] # "none" => saved[u] # "none" \/ local[u] # "none"
                         /\ saved'[u] # local'[u] => saved[u] # local[u]
    BY <1>1, <1>2
  <1>4. \A u \in Tasks : saved'[u] # local'[u] => \E j \in jobs' : j.notice.task = u
    BY <1>3 DEF JobInv
  <1>5. \A j, k \in jobs' : j.notice = Nothing /\ k.notice = Nothing /\ j.m = k.m => j = k
    BY DEF JobInv
  <1>6. \A j \in jobs' : \E k \in jobs : k = j
    OBVIOUS
  <1> HIDE DEF JobInv
  <1> QED  BY <1>2, <1>3, <1>4, <1>5, <1>6, JobTasks, JobKeeps

LEMMA JobTender ==
    ASSUME Types, JobInv, NEW t \in Tasks, Tender(t)
    PROVE  JobInv'
  <1> VenueTypes /\ AgentTypes
    BY DEF Types
  <1> DEFINE m == Message(t, "TENDER", 1)
             h == Job(Nothing, "sending", m, 1)
  <1>1. /\ jobs' = (jobs \ {Nothing}) \cup {h}
        /\ local[t] = "none" /\ \A j \in jobs : j.m # m
        /\ UNCHANGED <<local, saved, seen, queue>>
    BY DEF Tender, Send, fileVars
  <1>2. h.notice = Nothing /\ h.m = m /\ m.task = t /\ h.stage = "sending"
    BY DEF Job, Message
  <1>3. \A j \in jobs : j \in jobs'
    <2>1. ASSUME NEW j \in jobs PROVE j # Nothing
      <3>1. j.stage \in {"deciding", "sending"} /\ j = Job(j.notice, j.stage, j.m, j.attempt)
        BY JobFields
      <3> QED  BY <3>1 DEF Job, Nothing
    <2> QED  BY <1>1, <2>1
  <1> HIDE DEF h, m
  <1> QED  BY <1>1, <1>2, <1>3 DEF JobInv, Elements, Distinct

LEMMA JobPush ==
    ASSUME Types, JobInv, NEW i \in DOMAIN outbox, Push(i)
    PROVE  JobInv'
  <1> VenueTypes /\ AgentTypes
    BY DEF Types
  <1> DEFINE n == outbox[i]
  <1>1. /\ n \in Notices /\ seen' = seen \cup {n}
        /\ queue' = (IF n \in seen THEN queue ELSE Append(queue, n))
        /\ UNCHANGED <<local, saved, jobs>>
    BY DEF Push, VenueTypes
  <1> HIDE DEF n
  <1>2. CASE n \in seen
    BY <1>1, <1>2 DEF JobInv, Elements, Distinct
  <1>3. CASE n \notin seen
    <2>1. /\ queue' = Append(queue, n) /\ Elements(queue') = Elements(queue) \cup {n}
          /\ n \notin Elements(queue) /\ Distinct(queue')
      <3>1. queue' = Append(queue, n) /\ n \notin Elements(queue) /\ Distinct(queue)
        BY <1>1, <1>3 DEF JobInv
      <3>2. /\ Elements(queue') = Elements(queue) \cup {n} /\ DOMAIN queue' = 1 .. Len(queue) + 1
            /\ DOMAIN queue = 1 .. Len(queue) /\ queue'[Len(queue) + 1] = n /\ Len(queue) \in Nat
            /\ \A k \in DOMAIN queue : queue'[k] = queue[k]
        BY <1>1, <3>1, Appended, LenProperties DEF AgentTypes
      <3>3. \A k \in DOMAIN queue' : k \in DOMAIN queue \/ k = Len(queue) + 1
        BY <3>2
      <3>4. \A k \in DOMAIN queue : queue[k] # n
        BY <3>1 DEF Elements
      <3>5. Distinct(queue')
        BY <3>1, <3>2, <3>3, <3>4 DEF Distinct
      <3> QED  BY <3>1, <3>2, <3>5
    <2>2. n.type = "TENDER" => local[n.task] = "none"
      <3>1. n.type = "TENDER" =>
               /\ n.task \in Tasks \ Outbound /\ n = Notice(n.task, "TENDER", 1, 0)
        BY <1>1 DEF Notices, Asks, Tells, Outcomes, Notice
      <3> QED  BY <1>3, <3>1 DEF JobInv
    <2> QED  BY <1>1, <2>1, <2>2 DEF JobInv
  <1> QED  BY <1>2, <1>3

LEMMA JobDecide ==
    ASSUME Types, JobInv, NEW j \in jobs, Decide(j)
    PROVE  JobInv'
  <1> VenueTypes /\ AgentTypes
    BY DEF Types
  <1>1. PICK m \in Replies : Send(j, j.notice, m)
    BY Decides
  <1> DEFINE h == Job(j.notice, "sending", m, 1)
  <1>2. /\ UNCHANGED <<local, saved, seen, queue>> /\ j.notice \in Asks
        /\ jobs' = (jobs \ {j}) \cup {h} /\ h.notice = j.notice /\ h.stage = "sending"
    BY <1>1, Decides DEF fileVars, Send, Job
  <1>3. j.notice # Nothing
    BY <1>2, Nothings DEF Notices
  <1> HIDE DEF h
  <1>4. \A k \in jobs' : \E i \in jobs :
             /\ i.notice = k.notice /\ (k.notice = Nothing => k.m = i.m)
             /\ k.stage = "deciding" => i.stage = "deciding"
    BY <1>2, <1>3
  <1>5. \A i, k \in jobs' : i.notice = Nothing /\ k.notice = Nothing /\ i.m = k.m => i = k
    BY <1>2, <1>3 DEF JobInv
  <1>6. \A u \in Tasks : saved'[u] # local'[u] => \E k \in jobs' : k.notice.task = u
    BY <1>2 DEF JobInv
  <1> QED  BY <1>2, <1>4, <1>5, <1>6, JobTasks, JobKeeps DEF JobInv, Elements, Distinct

LEMMA JobConsider ==
    ASSUME Types, JobInv, Consider
    PROVE  JobInv'
  <1> VenueTypes /\ AgentTypes
    BY DEF Types
  <1> DEFINE n == Head(queue)
             h == Job(n, "deciding", Nothing, 0)
             known == n.type = "TENDER" \/ local[n.task] # "none"
  <1>1. /\ queue # <<>> /\ n \in Elements(queue) /\ n \in Asks
        /\ local' = IF n.type = "TENDER" THEN [local EXCEPT ![n.task] = "OPEN"] ELSE local
        /\ jobs' = jobs \cup (IF known THEN {h} ELSE {})
        /\ queue' = Tail(queue) /\ UNCHANGED <<saved, seen>>
    BY Headed, Kinds DEF Consider, AgentTypes, fileVars
  <1>2. /\ Elements(queue') \subseteq Elements(queue) /\ Distinct(queue') /\ n \notin Elements(queue')
    BY <1>1, Headed DEF AgentTypes, JobInv
  <1>3. /\ n.task \in Tasks /\ n # Nothing
        /\ n.type = "TENDER" => n.task \notin Outbound /\ n = Notice(n.task, "TENDER", 1, 0)
    BY <1>1, Nothings DEF Notices, Asks, Notice
  <1>4. h.notice = n /\ h.stage = "deciding" /\ h.m = Nothing
    BY DEF Job
  <1>5. /\ \A u \in Tasks : u # n.task => local'[u] = local[u]
        /\ n.type # "TENDER" => local' = local
        /\ n.type = "TENDER" => local'[n.task] = "OPEN"
        /\ \A u \in Tasks : local[u] # "none" => local'[u] # "none"
    BY <1>1, <1>3 DEF AgentTypes
  <1> HIDE DEF n, h
  <1>6. \A k \in jobs' :
           /\ k.stage = "deciding" => k.notice \in seen' /\ k.notice \notin Elements(queue')
           /\ k.notice # Nothing => local'[k.notice.task] # "none"
           /\ k.notice = Nothing => local'[k.m.task] = "none"
    <2> SUFFICES ASSUME NEW k \in jobs'
                 PROVE  /\ k.stage = "deciding" => k.notice \in seen' /\ k.notice \notin Elements(queue')
                        /\ k.notice # Nothing => local'[k.notice.task] # "none"
                        /\ k.notice = Nothing => local'[k.m.task] = "none"
      OBVIOUS
    <2>1. CASE k \in jobs /\ k.notice = Nothing
      <3>1. k.m.task \in Outbound /\ k.m.task \in Tasks /\ local[k.m.task] = "none" /\ k.stage = "sending"
        BY <2>1, JobTasks DEF Tenders, JobInv
      <3> QED  BY <1>3, <1>5, <2>1, <3>1
    <2>2. CASE k \in jobs /\ k.notice # Nothing
      BY <1>1, <1>2, <1>5, <2>2, JobTasks DEF JobInv
    <2>3. CASE k = h /\ known
      BY <1>1, <1>2, <1>3, <1>4, <1>5, <2>3 DEF JobInv
    <2> QED  BY <1>1, <2>1, <2>2, <2>3
  <1>7. \A j, k \in jobs' : j.notice = Nothing /\ k.notice = Nothing /\ j.m = k.m => j = k
    BY <1>1, <1>3, <1>4 DEF JobInv
  <1>8. \A e \in Elements(queue') : e.type = "TENDER" => local'[e.task] = "none"
    <2> SUFFICES ASSUME NEW e \in Elements(queue'), e.type = "TENDER" PROVE local'[e.task] = "none"
      OBVIOUS
    <2>1. e \in Elements(queue) /\ e # n /\ local[e.task] = "none"
      BY <1>2 DEF JobInv
    <2>2. e.task \in Tasks /\ e = Notice(e.task, "TENDER", 1, 0)
      BY <2>1, JobTasks DEF Notices, Asks, Tells, Outcomes, Notice
    <2> QED  BY <1>3, <1>5, <2>1, <2>2
  <1>9. \A u \in Tasks :
           /\ u \notin Outbound /\ (local'[u] # "none" \/ saved'[u] # "none")
                  => Notice(u, "TENDER", 1, 0) \in seen'
           /\ saved'[u] # local'[u] => \E j \in jobs' : j.notice.task = u
    <2> SUFFICES ASSUME NEW u \in Tasks
                 PROVE  /\ u \notin Outbound /\ (local'[u] # "none" \/ saved'[u] # "none")
                              => Notice(u, "TENDER", 1, 0) \in seen'
                        /\ saved'[u] # local'[u] => \E j \in jobs' : j.notice.task = u
      OBVIOUS
    <2>1. CASE local'[u] = local[u]
      BY <1>1, <2>1 DEF JobInv
    <2>2. CASE local'[u] # local[u]
      <3>1. u = n.task /\ n.type = "TENDER" /\ h \in jobs'
        BY <1>1, <1>5, <2>2
      <3> QED  BY <1>1, <1>3, <1>4, <3>1 DEF JobInv
    <2> QED  BY <2>1, <2>2
  <1> QED  BY <1>1, <1>2, <1>6, <1>7, <1>8, <1>9 DEF JobInv

LEMMA JobDies ==
    ASSUME JobInv, queue' = <<>>, jobs' = {}, local' = saved, UNCHANGED <<saved, seen>>
    PROVE  JobInv'
  BY DEF JobInv, Elements, Distinct
----------------------------------------------------------------------------
(* The book and the tasks                                                  *)

\* What an outcome changes in the book
LEMMA BookIs ==
    ASSUME AgentTypes, NEW n \in Tells
    PROVE  /\ ~Applies(n) \/ n.type = "REFUSED" => BookAfter(n) = book
           /\ Applies(n) /\ n.type = "COMMITTED" =>
                 /\ BookAfter(n).added = book.added \cup {n.task}
                 /\ BookAfter(n).released = book.released
                 /\ BookAfter(n).outstanding =
                       book.outstanding + IF n.task \in book.added THEN 0 ELSE 1
           /\ Applies(n) /\ n.type = "VOIDED" =>
                 IF n.task \in artifacts
                 THEN /\ BookAfter(n).added = book.added
                      /\ BookAfter(n).released = book.released \cup {n.task}
                      /\ BookAfter(n).outstanding =
                            IF n.task \in book.released THEN book.outstanding
                            ELSE IF book.outstanding = 0 THEN 0 ELSE book.outstanding - 1
                 ELSE BookAfter(n) = book
  <1>1. /\ book.added \subseteq Tasks /\ book.released \subseteq Tasks
        /\ book.outstanding \in Nat /\ book \in Books /\ n.task \in Tasks
    BY Nothings DEF AgentTypes, Books, Notices
  <1>2. n.type \in {"COMMITTED", "VOIDED", "REFUSED"}
    BY DEF Tells, Outcomes
  <1>3. CASE ~Applies(n) \/ n.type = "REFUSED"
    BY <1>3 DEF BookAfter
  <1>4. CASE Applies(n) /\ n.type = "COMMITTED"
    <2>1. BookAfter(n) = Add(book, n.task)
      BY <1>4 DEF BookAfter
    <2> QED  BY <1>1, <1>4, <2>1 DEF Add, Books
  <1>5. CASE Applies(n) /\ n.type = "VOIDED"
    <2>1. BookAfter(n) = IF n.task \in artifacts THEN Release(book, n.task) ELSE book
      BY <1>5 DEF BookAfter
    <2> QED  BY <1>1, <1>5, <2>1 DEF Release, Books
  <1> QED  BY <1>2, <1>3, <1>4, <1>5

LEMMA Counted ==
    ASSUME NEW S \in SUBSET Tasks, NEW t \in Tasks
    PROVE  /\ Cardinality(S) \in Nat /\ IsFiniteSet(S)
           /\ t \notin S => Cardinality(S \cup {t}) = Cardinality(S) + 1
           /\ t \in S => Cardinality(S \ {t}) = Cardinality(S) - 1 /\ Cardinality(S) # 0
  <1>1. IsFiniteSet(S)
    BY AgentAssumption, FS_Subset
  <1>2. Cardinality(S) \in Nat
    BY <1>1, FS_CardinalityType
  <1>3. t \notin S => Cardinality(S \cup {t}) = Cardinality(S) + 1
    BY <1>1, FS_AddElement
  <1>4. t \in S => Cardinality(S \ {t}) = Cardinality(S) - 1
    BY <1>1, FS_RemoveElement
  <1>5. t \in S => Cardinality(S) # 0
    BY <1>1, FS_EmptySet
  <1> QED  BY <1>1, <1>2, <1>3, <1>4, <1>5

\* A step that is not about u
LEMMA ActedSame ==
    ASSUME NEW u \in Tasks, Acted(u),
           \A e \in Tells : e.task = u =>
               (e \in seen' <=> e \in seen) /\ (e \in Elements(queue') <=> e \in Elements(queue)),
           u \in book'.added <=> u \in book.added, u \in book'.released <=> u \in book.released,
           u \in artifacts => u \in artifacts',
           local'[u] = local[u] \/ (local[u] = "none" /\ local'[u] # "COMMITTED")
    PROVE  Acted(u)'
  <1>1. /\ C(u) \in seen' <=> C(u) \in seen
        /\ V(u) \in seen' <=> V(u) \in seen
        /\ C(u) \in Elements(queue') <=> C(u) \in Elements(queue)
        /\ V(u) \in Elements(queue') <=> V(u) \in Elements(queue)
    BY Outcomeses
  <1>2. \A c \in {0, 1} :
           LET n == Notice(u, "REFUSED", 0, c)
           IN  (n \in seen' <=> n \in seen) /\ (n \in Elements(queue') <=> n \in Elements(queue))
    BY Outcomeses, Fields
  <1>3. CASE local'[u] = local[u]
    BY <1>1, <1>2, <1>3 DEF Acted
  <1>4. CASE local[u] = "none" /\ local'[u] # "COMMITTED"
    BY <1>1, <1>2, <1>4 DEF Acted
  <1> QED  BY <1>3, <1>4

\* The agent hears an outcome of t, from its queue or on the spot
LEMMA Hearing ==
    ASSUME AgentTypes, NEW t \in Tasks, Acted(t), Booked(t), Elements(queue) \subseteq seen,
           \A e \in Tells : e \in seen => Says(e),
           V(t) \in seen => C(t) \in seen,
           NEW n \in Tells, n.task = t, Says(n), Applies(n), Record(n), seen' = seen \cup {n},
           n \notin Elements(queue'), Elements(queue') \subseteq Elements(queue),
           Elements(queue) \subseteq Elements(queue') \cup {n},
           \/ n \notin seen /\ n.type # "VOIDED"
           \/ n \in Elements(queue) /\ (n.type = "VOIDED" => C(t) \notin Elements(queue)),
           \/ local'[t] = IF n.type = "REFUSED" THEN "CANCELED" ELSE n.type
           \/ n.type = "REFUSED" /\ local'[t] = "REJECTED"
    PROVE  /\ Acted(t)' /\ Booked(t)'
           /\ book.outstanding = Cardinality(book.added \ book.released) =>
                 book'.outstanding = Cardinality(book'.added \ book'.released)
  <1> DEFINE Rc(c) == Notice(t, "REFUSED", 0, c)
  <1>1. /\ C(t) \in Tells /\ V(t) \in Tells /\ \A c \in {0, 1} : Rc(c) \in Tells
        /\ C(t).type = "COMMITTED" /\ V(t).type = "VOIDED" /\ \A c \in {0, 1} : Rc(c).type = "REFUSED"
        /\ C(t).task = t /\ V(t).task = t /\ \A c \in {0, 1} : Rc(c).task = t
    BY Outcomeses, Fields
  <1>2. /\ n.type = "COMMITTED" => n = C(t)
        /\ n.type = "VOIDED" => n = V(t)
        /\ n.type \in {"COMMITTED", "VOIDED", "REFUSED"}
    BY Outcomeses DEF Says, Tells, Outcomes
  <1>3. /\ book.added \subseteq Tasks /\ book.released \subseteq Tasks /\ book.outstanding \in Nat
        /\ book' = BookAfter(n)
        /\ artifacts' = artifacts \cup (IF n.type = "COMMITTED" THEN {t} ELSE {})
    BY DEF AgentTypes, Books, Record
  <1>4. CASE n.type = "COMMITTED"
    <2>1. t \notin book.added /\ t \notin book.released
      BY <1>2, <1>4 DEF Acted, Booked
    <2>2. /\ book'.added = book.added \cup {t} /\ book'.released = book.released
          /\ book'.outstanding = book.outstanding + 1
      BY <1>3, <1>4, <2>1, BookIs
    <2>3. \A c \in {0, 1} : Rc(c) \notin seen'
      BY <1>1, <1>2, <1>4 DEF Says
    <2>4. V(t) \in seen' => V(t) \in Elements(queue')
      BY <1>1, <1>2, <1>4, <2>1 DEF Acted
    <2>5. Acted(t)'
      BY <1>2, <1>3, <1>4, <2>1, <2>2, <2>3, <2>4 DEF Acted
    <2>6. Booked(t)'
      BY <1>2, <1>4, <2>1, <2>2 DEF Booked
    <2>7. book'.added \ book'.released = (book.added \ book.released) \cup {t}
      BY <2>1, <2>2
    <2>8. Cardinality(book'.added \ book'.released) = Cardinality(book.added \ book.released) + 1
      BY <1>3, <2>1, <2>7, Counted
    <2> QED  BY <2>2, <2>5, <2>6, <2>8
  <1>5. CASE n.type = "VOIDED"
    <2>1. n = V(t) /\ V(t) \in Elements(queue) /\ C(t) \in seen /\ C(t) \notin Elements(queue)
      BY <1>2, <1>5
    <2>2. t \in book.added /\ t \notin book.released /\ t \in artifacts
      BY <2>1 DEF Acted
    <2>3. /\ book'.added = book.added /\ book'.released = book.released \cup {t}
          /\ book'.outstanding = IF book.outstanding = 0 THEN 0 ELSE book.outstanding - 1
      BY <1>3, <1>5, <2>2, BookIs
    <2>4. \A c \in {0, 1} : Rc(c) \notin seen'
      BY <1>1, <1>2, <1>5 DEF Says
    <2>5. Acted(t)'
      BY <1>3, <1>5, <2>1, <2>2, <2>3, <2>4 DEF Acted
    <2>6. Booked(t)'
      BY <2>1, <2>2, <2>3 DEF Booked
    <2>7. book'.added \ book'.released = (book.added \ book.released) \ {t}
      BY <2>3
    <2>8. /\ Cardinality(book'.added \ book'.released) = Cardinality(book.added \ book.released) - 1
          /\ Cardinality(book.added \ book.released) # 0
      BY <1>3, <2>2, <2>7, Counted
    <2> QED  BY <2>3, <2>5, <2>6, <2>8
  <1>6. CASE n.type = "REFUSED"
    <2>1. book' = book /\ artifacts' = artifacts
      BY <1>3, <1>6, BookIs
    <2>2. C(t) \notin seen' /\ V(t) \notin seen'
      BY <1>1, <1>6 DEF Says
    <2>3. t \notin book.added /\ t \notin book.released
      BY <2>2 DEF Booked
    <2>4. local'[t] \in {"CANCELED", "REJECTED"}
      BY <1>6
    <2>5. Acted(t)'
      BY <2>1, <2>2, <2>3, <2>4 DEF Acted
    <2> QED  BY <2>1, <2>3, <2>5 DEF Booked
  <1> QED  BY <1>2, <1>4, <1>5, <1>6
----------------------------------------------------------------------------
(* The order of the notices of a task                                      *)

LEMMA OrderedQueue ==
    ASSUME Types, Ordered, outbox' = outbox, seen \subseteq seen',
           \A t \in Tasks : V(t) \in seen' => V(t) \in seen,
           queue' \in {queue, <<>>} \/ (queue # <<>> /\ queue' = Tail(queue))
    PROVE  Ordered'
  <1> AgentTypes
    BY DEF Types
  <1> SUFFICES ASSUME NEW t \in Tasks
               PROVE  /\ V(t) \in seen' => C(t) \in seen'
                      /\ \A i \in DOMAIN outbox' : outbox'[i] = V(t) =>
                            C(t) \in seen' \/ \E k \in DOMAIN outbox' : k < i /\ outbox'[k] = C(t)
                      /\ \A i, k \in DOMAIN queue' : queue'[i] = V(t) /\ queue'[k] = C(t) => k < i
    BY DEF Ordered, C, V, Notice
  <1>1. V(t) \in seen' => C(t) \in seen'
    BY DEF Ordered
  <1>2. \A i \in DOMAIN outbox' : outbox'[i] = V(t) =>
            C(t) \in seen' \/ \E k \in DOMAIN outbox' : k < i /\ outbox'[k] = C(t)
    BY DEF Ordered
  <1>3. ASSUME NEW i \in DOMAIN queue', NEW k \in DOMAIN queue', queue'[i] = V(t), queue'[k] = C(t)
        PROVE  k < i
    <2>1. CASE queue' = queue
      BY <1>3, <2>1 DEF Ordered
    <2>2. CASE queue' = <<>>
      BY <1>3, <2>2
    <2>3. CASE queue # <<>> /\ queue' = Tail(queue)
      <3>1. /\ i \in Nat /\ k \in Nat /\ i + 1 \in DOMAIN queue /\ k + 1 \in DOMAIN queue
            /\ queue[i + 1] = V(t) /\ queue[k + 1] = C(t)
        <4>1. /\ DOMAIN queue' = 1 .. Len(queue) - 1 /\ Len(queue) \in Nat
              /\ \A e \in DOMAIN queue' : queue'[e] = queue[e + 1] /\ e + 1 \in DOMAIN queue
          BY <2>3, Headed, LenProperties DEF AgentTypes
        <4> QED  BY <1>3, <4>1
      <3>2. k + 1 < i + 1
        BY <3>1 DEF Ordered
      <3> QED  BY <3>1, <3>2
    <2> QED  BY <2>1, <2>2, <2>3
  <1> QED  BY <1>1, <1>2, <1>3

\* The venue pushes a VOIDED after the COMMITTED
LEMMA OrderedVenue ==
    ASSUME Types, TellInv, Ordered, NEW t \in Tasks, Owes(t), UNCHANGED <<queue, seen>>
    PROVE  Ordered'
  <1> VenueTypes /\ AgentTypes
    BY DEF Types
  <1> SUFFICES ASSUME NEW u \in Tasks, NEW i \in DOMAIN outbox', outbox'[i] = V(u), C(u) \notin seen
               PROVE  \E k \in DOMAIN outbox' : k < i /\ outbox'[k] = C(u)
    BY DEF Ordered, C, V, Notice
  <1>1. CASE outbox' = outbox
    BY <1>1 DEF Ordered
  <1>2. ASSUME NEW n \in Notices, outbox' = Append(outbox, n),
               n.type = "VOIDED" => n = V(t) /\ Voided(t)
        PROVE  \E k \in DOMAIN outbox' : k < i /\ outbox'[k] = C(u)
    <2>1. /\ Len(outbox) \in Nat /\ DOMAIN outbox = 1 .. Len(outbox)
          /\ DOMAIN outbox' = 1 .. Len(outbox) + 1 /\ outbox'[Len(outbox) + 1] = n
          /\ \A k \in DOMAIN outbox : outbox'[k] = outbox[k]
      BY <1>2, Appended, LenProperties DEF VenueTypes
    <2>2. CASE i \in DOMAIN outbox
      <3>1. PICK k \in DOMAIN outbox : k < i /\ outbox[k] = C(u)
        BY <2>1, <2>2 DEF Ordered
      <3> QED  BY <2>1, <3>1
    <2>3. CASE i = Len(outbox) + 1
      <3>1. n = V(u) /\ n = V(t) /\ Voided(t)
        BY <1>2, <2>1, <2>3, Outcomeses
      <3>2. u = t
        <4>1. V(u).task = u /\ V(t).task = t
          BY Outcomeses
        <4> QED  BY <3>1, <4>1
      <3>3. C(u) \in Elements(outbox)
        BY <3>1, <3>2 DEF TellInv, Voided
      <3>4. PICK k \in DOMAIN outbox : outbox[k] = C(u)
        BY <3>3 DEF Elements
      <3> QED  BY <2>1, <2>3, <3>4
    <2> QED  BY <2>1, <2>2, <2>3
  <1>3. outbox' = outbox \/ \E n \in Notices : outbox' = Append(outbox, n) /\
                               (n.type = "VOIDED" => n = V(t) /\ Voided(t))
    <2>1. \A n \in Asks : n.type # "VOIDED" /\ n \in Notices
      BY DEF Asks, Notices
    <2>2. \A n \in Tells : n \in Notices
      BY DEF Notices
    <2>3. C(t).type # "VOIDED"
      BY Outcomeses
    <2> QED  BY <2>1, <2>2, <2>3 DEF Owes
  <1> QED  BY <1>1, <1>2, <1>3

\* The notices are taken in the order of the outbox
LEMMA OrderedPush ==
    ASSUME Types, JobInv, Ordered, NEW i \in DOMAIN outbox, Push(i), ~overtaken'
    PROVE  Ordered'
  <1> VenueTypes /\ AgentTypes
    BY DEF Types
  <1> DEFINE n == outbox[i]
             rest == Without(outbox, i)
  <1>1. i = 1 /\ outbox' \in {rest, outbox} /\ seen' = seen \cup {n}
        /\ queue' = (IF n \in seen THEN queue ELSE Append(queue, n))
    BY DEF Push, Without
  <1>2. /\ Len(outbox) \in Nat /\ DOMAIN rest = 1 .. Len(outbox) - 1 /\ DOMAIN outbox = 1 .. Len(outbox)
        /\ \A k \in DOMAIN rest : rest[k] = outbox[k + 1] /\ k + 1 \in DOMAIN outbox /\ k \in Nat
    <2>1. outbox \in Seq(Notices) /\ Len(outbox) \in Nat
      BY LenProperties DEF VenueTypes
    <2>2. PICK r : r = rest
      OBVIOUS
    <2> HIDE DEF rest
    <2>3. r = Without(outbox, i)
      BY <2>2 DEF rest
    <2>4. /\ DOMAIN r = 1 .. Len(outbox) - 1 /\ DOMAIN outbox = 1 .. Len(outbox)
          /\ \A k \in DOMAIN r : ~(k < i) => r[k] = outbox[k + 1]
      BY <2>1, <2>3, Removed
    <2>5. \A k \in DOMAIN r : ~(k < 1) /\ k \in Nat /\ k + 1 \in DOMAIN outbox
      BY <2>1, <2>4
    <2> QED  BY <1>1, <2>1, <2>2, <2>4, <2>5
  <1>3. n \in Notices /\ n = outbox[1]
    BY <1>1 DEF VenueTypes
  <1> HIDE DEF n, rest
  <1>4. ASSUME NEW t \in Tasks
        PROVE  V(t) \in seen' => C(t) \in seen'
    <2>1. CASE V(t) \in seen
      BY <1>1, <2>1 DEF Ordered
    <2>2. CASE n = V(t)
      <3>1. C(t) \in seen \/ \E k \in DOMAIN outbox : k < 1 /\ outbox[k] = C(t)
        BY <1>1, <1>3, <2>2 DEF Ordered
      <3> QED  BY <1>1, <1>2, <3>1
    <2> QED  BY <1>1, <2>1, <2>2
  <1>5. ASSUME NEW t \in Tasks, NEW e \in DOMAIN outbox', outbox'[e] = V(t), C(t) \notin seen'
        PROVE  \E k \in DOMAIN outbox' : k < e /\ outbox'[k] = C(t)
    <2>1. CASE outbox' = outbox
      BY <1>1, <1>5, <2>1 DEF Ordered
    <2>2. CASE outbox' = rest
      <3>1. e \in Nat /\ e + 1 \in DOMAIN outbox /\ outbox[e + 1] = V(t)
        BY <1>2, <1>5, <2>2
      <3>2. PICK k \in DOMAIN outbox : k < e + 1 /\ outbox[k] = C(t)
        BY <1>1, <1>5, <3>1 DEF Ordered
      <3>3. k # 1
        BY <1>1, <1>3, <1>5, <3>2
      <3>4. k - 1 \in DOMAIN rest /\ k - 1 < e /\ (k - 1) + 1 = k
        BY <1>2, <3>1, <3>2, <3>3
      <3>5. rest[k - 1] = C(t)
        BY <1>2, <3>2, <3>4
      <3> QED  BY <2>2, <3>4, <3>5
    <2> QED  BY <1>1, <2>1, <2>2
  <1>6. ASSUME NEW t \in Tasks, NEW e \in DOMAIN queue', NEW k \in DOMAIN queue',
               queue'[e] = V(t), queue'[k] = C(t)
        PROVE  k < e
    <2>1. CASE n \in seen
      BY <1>1, <1>6, <2>1 DEF Ordered
    <2>2. CASE n \notin seen
      <3>1. /\ DOMAIN queue' = 1 .. Len(queue) + 1 /\ DOMAIN queue = 1 .. Len(queue)
            /\ Len(queue) \in Nat /\ queue'[Len(queue) + 1] = n
            /\ \A x \in DOMAIN queue : queue'[x] = queue[x]
        BY <1>1, <1>3, <2>2, Appended, LenProperties DEF AgentTypes
      <3>2. CASE e \in DOMAIN queue /\ k \in DOMAIN queue
        BY <1>6, <3>1, <3>2 DEF Ordered
      <3>3. CASE e \notin DOMAIN queue /\ k \in DOMAIN queue
        BY <3>1, <3>3
      <3>4. CASE k \notin DOMAIN queue
        <4>1. n = C(t) /\ k = Len(queue) + 1 /\ e \in DOMAIN queue
          <5>1. V(t) # C(t)
            BY Outcomeses
          <5>2. k = Len(queue) + 1
            BY <3>1, <3>4
          <5> QED  BY <1>6, <3>1, <5>1, <5>2
        <4>2. V(t) \in Elements(queue)
          BY <1>6, <3>1, <4>1 DEF Elements
        <4>3. C(t) \in seen
          BY <4>2 DEF JobInv, Ordered
        <4> QED  BY <2>2, <4>1, <4>3
      <3> QED  BY <3>2, <3>3, <3>4
    <2> QED  BY <2>1, <2>2
  <1> QED  BY <1>4, <1>5, <1>6 DEF Ordered, C, V, Notice
----------------------------------------------------------------------------
(* The book follows                                                        *)

LEMMA FollowVenue ==
    ASSUME Types, TellInv, FollowInv, NEW t \in Tasks, Owes(t),
           UNCHANGED <<local, fileVars, agentVars, history>>
    PROVE  FollowInv'
  <1> SUFFICES ASSUME ~overtaken
               PROVE  /\ Ordered' /\ \A u \in Tasks : Booked(u)'
                      /\ \A u \in Tasks \ torn : Acted(u)'
                      /\ torn = {} => book'.outstanding = Cardinality(book'.added \ book'.released)
    BY DEF FollowInv, history
  <1>1. UNCHANGED <<local, seen, artifacts, book, queue>>
    BY DEF fileVars, agentVars
  <1>2. Ordered'
    BY <1>1, OrderedVenue DEF FollowInv
  <1> QED  BY <1>1, <1>2 DEF FollowInv, Booked, Acted, Elements, C, V

LEMMA FollowFrame ==
    ASSUME FollowInv, UNCHANGED <<outbox, local, seen, artifacts, book, queue, torn, overtaken>>
    PROVE  FollowInv'
  BY DEF FollowInv, Ordered, Booked, Acted, Elements, C, V

LEMMA FollowPush ==
    ASSUME Types, TellInv, JobInv, FollowInv, NEW i \in DOMAIN outbox, Push(i)
    PROVE  FollowInv'
  <1> VenueTypes /\ AgentTypes
    BY DEF Types
  <1> DEFINE n == outbox[i]
  <1>1. /\ n \in Notices /\ seen' = seen \cup {n}
        /\ queue' = (IF n \in seen THEN queue ELSE Append(queue, n))
        /\ UNCHANGED <<local, artifacts, book, torn>>
        /\ overtaken => overtaken'
    <2>1. n \in Notices
      BY DEF VenueTypes
    <2>2. overtaken => overtaken'
      BY DEF Push
    <2>3. /\ seen' = seen \cup {n}
          /\ queue' = (IF n \in seen THEN queue ELSE Append(queue, n))
          /\ UNCHANGED <<local, artifacts, book, torn>>
      BY DEF Push
    <2> QED  BY <2>1, <2>2, <2>3
  <1>2. n \notin seen => Elements(queue') = Elements(queue) \cup {n}
    BY <1>1, Appended DEF AgentTypes
  <1> HIDE DEF n
  <1> SUFFICES ASSUME ~overtaken'
               PROVE  /\ Ordered' /\ \A u \in Tasks : Booked(u)'
                      /\ \A u \in Tasks \ torn : Acted(u)'
                      /\ torn = {} => book.outstanding = Cardinality(book.added \ book.released)
    BY <1>1 DEF FollowInv
  <1>3. ~overtaken
    BY <1>1
  <1>4. Ordered'
    BY <1>3, OrderedPush DEF FollowInv
  <1>5. \A u \in Tasks : Booked(u)'
    BY <1>1, <1>3 DEF FollowInv, Booked, C, V, Notice
  <1>6. ASSUME NEW u \in Tasks \ torn PROVE Acted(u)'
    <2>1. Acted(u) /\ Booked(u)
      BY <1>3 DEF FollowInv
    <2>2. CASE n \in seen
      <3>1. UNCHANGED <<local, artifacts, book, seen, queue>>
        BY <1>1, <2>2
      <3> QED  BY <2>1, <3>1 DEF Acted, Elements, C, V
    <2>3. CASE n \notin seen
      BY <1>1, <1>2, <2>1, <2>3 DEF Acted, Booked, C, V
    <2> QED  BY <2>2, <2>3
  <1> QED  BY <1>3, <1>4, <1>5, <1>6 DEF FollowInv

\* A local task is made, and nothing else
LEMMA FollowOpens ==
    ASSUME Types, FollowInv, UNCHANGED <<outbox, seen, artifacts, book, torn, overtaken>>,
           \A u \in Tasks : local'[u] = local[u] \/ (local[u] = "none" /\ local'[u] # "COMMITTED"),
           queue' = queue \/ (queue # <<>> /\ queue' = Tail(queue) /\ Head(queue) \notin Tells)
    PROVE  FollowInv'
  <1> AgentTypes
    BY DEF Types
  <1> SUFFICES ASSUME ~overtaken
               PROVE  /\ Ordered' /\ \A u \in Tasks : Booked(u)'
                      /\ \A u \in Tasks \ torn : Acted(u)'
                      /\ torn = {} => book.outstanding = Cardinality(book.added \ book.released)
    BY DEF FollowInv
  <1>1. Ordered'
    BY OrderedQueue DEF FollowInv
  <1>2. \A e \in Tells : e \in Elements(queue') <=> e \in Elements(queue)
    <2>1. CASE queue' = queue
      BY <2>1 DEF Elements
    <2>2. CASE queue # <<>> /\ queue' = Tail(queue) /\ Head(queue) \notin Tells
      <3>1. Elements(queue) = Elements(Tail(queue)) \cup {Head(queue)}
        BY <2>2, Headed DEF AgentTypes
      <3> QED  BY <2>2, <3>1
    <2> QED  BY <2>1, <2>2
  <1>3. \A u \in Tasks : Booked(u)'
    BY DEF FollowInv, Booked, C, V
  <1>4. ASSUME NEW u \in Tasks \ torn PROVE Acted(u)'
    <2>1. Acted(u)
      BY DEF FollowInv
    <2> QED  BY <1>2, <2>1, ActedSame
  <1> QED  BY <1>1, <1>3, <1>4 DEF FollowInv

\* An outcome of t is heard
LEMMA FollowHears ==
    ASSUME Types, TellInv, JobInv, FollowInv, ~overtaken, overtaken' = overtaken,
           NEW t \in Tasks, NEW n \in Tells, n.task = t, Says(n), Applies(n), Record(n),
           seen' = seen \cup {n}, UNCHANGED <<outbox, torn>>,
           \/ n \notin seen /\ n \in {C(t), R(t)} /\ queue' = queue
           \/ queue # <<>> /\ n = Head(queue) /\ queue' = Tail(queue),
           \A u \in Tasks : u # t => local'[u] = local[u],
           \/ local'[t] = IF n.type = "REFUSED" THEN "CANCELED" ELSE n.type
           \/ n.type = "REFUSED" /\ local'[t] = "REJECTED"
    PROVE  FollowInv'
  <1> AgentTypes
    BY DEF Types
  <1>1. /\ n \notin Elements(queue') /\ Elements(queue') \subseteq Elements(queue)
        /\ Elements(queue) \subseteq Elements(queue') \cup {n}
        /\ \/ n \notin seen /\ n.type # "VOIDED"
           \/ n \in Elements(queue) /\ (n.type = "VOIDED" => C(t) \notin Elements(queue))
    <2>1. CASE n \notin seen /\ n \in {C(t), R(t)} /\ queue' = queue
      <3>1. n.type # "VOIDED" /\ n \notin Elements(queue)
        BY <2>1, Outcomeses, SMTT(60) DEF JobInv
      <3> QED  BY <2>1, <3>1
    <2>2. CASE queue # <<>> /\ n = Head(queue) /\ queue' = Tail(queue)
      <3>1. /\ Elements(queue) = Elements(Tail(queue)) \cup {n} /\ n = queue[1]
            /\ n \notin Elements(Tail(queue)) /\ DOMAIN queue = 1 .. Len(queue) /\ Len(queue) \in Nat
        BY <2>2, Headed, LenProperties DEF AgentTypes, JobInv
      <3>2. ASSUME n.type = "VOIDED", NEW k \in DOMAIN queue, queue[k] = C(t) PROVE FALSE
        <4>1. n = V(t)
          BY <3>2, Outcomeses DEF Says
        <4>2. 1 \in DOMAIN queue
          BY <3>1, <3>2
        <4>3. k < 1
          BY <3>1, <3>2, <4>1, <4>2 DEF FollowInv, Ordered
        <4> QED  BY <3>1, <4>3
      <3>3. n.type = "VOIDED" => C(t) \notin Elements(queue)
        BY <3>2 DEF Elements
      <3> QED  BY <2>2, <3>1, <3>3
    <2> QED  BY <2>1, <2>2
  <1>2. Elements(queue) \subseteq seen
    BY DEF JobInv
  <1>3. Ordered'
    <2>1. \A u \in Tasks : V(u) \in seen' => V(u) \in seen
      <3>1. n \notin seen => n.type # "VOIDED"
        BY <1>1, <1>2
      <3>2. \A u \in Tasks : V(u).type = "VOIDED"
        BY Outcomeses
      <3> QED  BY <3>1, <3>2
    <2> QED  BY <2>1, OrderedQueue DEF FollowInv
  <1>4. ASSUME NEW u \in Tasks, u # t
        PROVE  Booked(u)' /\ (u \notin torn => Acted(u)')
    <2>1. /\ u \in book'.added <=> u \in book.added
          /\ u \in book'.released <=> u \in book.released
          /\ u \in artifacts => u \in artifacts'
      BY <1>4, BookIs DEF Record, Tells, Outcomes
    <2>2. \A e \in Tells : e.task = u =>
             (e \in seen' <=> e \in seen) /\ (e \in Elements(queue') <=> e \in Elements(queue))
      BY <1>1, <1>4
    <2>3. Booked(u)'
      BY <2>1 DEF FollowInv, Booked, C, V
    <2>4. u \notin torn => Acted(u)
      BY DEF FollowInv
    <2> QED  BY <1>4, <2>1, <2>2, <2>3, <2>4, ActedSame
  <1>5. V(t) \in seen => C(t) \in seen
    BY DEF FollowInv, Ordered
  <1>6. CASE t \notin torn
    <2>1. /\ Acted(t)' /\ Booked(t)'
          /\ book.outstanding = Cardinality(book.added \ book.released) =>
                book'.outstanding = Cardinality(book'.added \ book'.released)
      <3>1. Acted(t) /\ Booked(t) /\ \A e \in Tells : e \in seen => Says(e)
        BY <1>6 DEF FollowInv, TellInv
      <3> QED  BY <1>1, <1>2, <1>5, <3>1, Hearing
    <2> QED  BY <1>3, <1>4, <2>1 DEF FollowInv
  <1>7. CASE t \in torn
    <2>1. Booked(t)'
      <3>1. /\ t \in book'.added => t \in book.added \/ n = C(t)
            /\ t \in book'.released => t \in book.released \/ n = V(t)
        BY BookIs, Outcomeses DEF Record, Tells, Outcomes, Says
      <3>2. Booked(t)
        BY DEF FollowInv
      <3> QED  BY <3>1, <3>2 DEF Booked, C, V
    <2> QED  BY <1>3, <1>4, <1>7, <2>1 DEF FollowInv
  <1> QED  BY <1>6, <1>7
LEMMA FollowLearn ==
    ASSUME Types, TellInv, JobInv, FollowInv, Learn
    PROVE  FollowInv'
  <1> VenueTypes /\ AgentTypes
    BY DEF Types
  <1> DEFINE n == Head(queue)
  <1>1. /\ queue # <<>> /\ n \in Tells /\ n \in Elements(queue) /\ n.task \in Tasks
        /\ Elements(queue) = Elements(Tail(queue)) \cup {n}
    BY Headed, Kinds, Nothings DEF Learn, AgentTypes, Notices
  <1>2. /\ local' = Heard(n) /\ Record(n) /\ queue' = Tail(queue)
        /\ torn' = (IF Applies(n) THEN torn ELSE torn \cup {n.task})
        /\ UNCHANGED <<outbox, seen, overtaken>>
    BY DEF Learn, Process, venueVars
  <1>3. Says(n) /\ n \in seen
    BY <1>1 DEF TellInv, JobInv
  <1> HIDE DEF n
  <1> SUFFICES ASSUME ~overtaken PROVE FollowInv'
    BY <1>2 DEF FollowInv
  <1>4. CASE Applies(n)
    <2>1. /\ \A u \in Tasks : u # n.task => local'[u] = local[u]
          /\ local'[n.task] = IF n.type = "REFUSED" THEN "CANCELED" ELSE n.type
      BY <1>1, <1>2, <1>4, HeardIs
    <2>2. seen' = seen \cup {n} /\ n = Head(queue)
      BY <1>2, <1>3 DEF n
    <2> QED  BY <1>1, <1>2, <1>3, <1>4, <2>1, <2>2, FollowHears
  <1>5. CASE ~Applies(n)
    <2>1. local' = local /\ book' = book /\ artifacts' = artifacts /\ torn' = torn \cup {n.task}
      BY <1>1, <1>2, <1>5, HeardIs, BookIs DEF Record
    <2>2. Ordered'
      BY <1>1, <1>2, OrderedQueue DEF FollowInv
    <2>3. \A u \in Tasks : Booked(u)'
      BY <1>2, <2>1 DEF FollowInv, Booked, C, V
    <2>4. ASSUME NEW u \in Tasks \ torn' PROVE Acted(u)'
      <3>1. u # n.task /\ Acted(u)
        BY <2>1 DEF FollowInv
      <3>2. \A e \in Tells : e.task = u => (e \in Elements(queue') <=> e \in Elements(queue))
        BY <1>1, <1>2, <3>1
      <3> QED  BY <1>2, <2>1, <3>1, <3>2, ActedSame
    <2> QED  BY <2>1, <2>2, <2>3, <2>4 DEF FollowInv
  <1> QED  BY <1>4, <1>5

LEMMA FollowReconcile ==
    ASSUME Types, TellInv, JobInv, FollowInv, NEW t \in Tasks, Reconcile(t)
    PROVE  FollowInv'
  <1> VenueTypes /\ AgentTypes
    BY DEF Types
  <1> DEFINE n == StatusMessage(t)
  <1>1. /\ local[t] = "OPEN" /\ Terminal(t) /\ n \notin seen /\ seen' = seen \cup {n}
        /\ local' = Heard(n) /\ Record(n)
        /\ UNCHANGED <<outbox, queue, torn, overtaken>>
    BY DEF Reconcile, Process, venueVars, agentVars, history
  <1>2. n \in Tells /\ n.task = t /\ Says(n) /\ n \in {C(t), R(t)}
    BY <1>1, StatusIs, StatusSays
  <1> HIDE DEF n
  <1>3. Applies(n)
    <2>1. n # Nothing
      BY <1>2, Nothings DEF Notices
    <2> QED  BY <1>1, <1>2, <2>1 DEF Applies
  <1>4. /\ \A u \in Tasks : u # t => local'[u] = local[u]
        /\ local'[t] = IF n.type = "REFUSED" THEN "CANCELED" ELSE n.type
    BY <1>1, <1>2, <1>3, HeardIs
  <1> SUFFICES ASSUME ~overtaken PROVE FollowInv'
    BY <1>1 DEF FollowInv
  <1> QED  BY <1>1, <1>2, <1>3, <1>4, FollowHears

\* A rejection that is answered is of a task the venue has not completed
LEMMA FollowOver ==
    ASSUME Types, \A t \in Tasks : TurnInv(t), TellInv, JobInv, FollowInv, NEW j \in jobs,
           Dropped(j) \/ \E a \in answers : Answered(j, a)
    PROVE  FollowInv'
  <1> VenueTypes /\ AgentTypes /\ AnswersTrue
    BY DEF Types, TellInv, AnswersTrue
  <1>1. /\ UNCHANGED <<outbox, queue, torn, overtaken>> /\ j.stage = "sending"
        /\ (Retries(j) \/ TenderOver(j) \/ ReplyOver(j))
    <2>1. Unmoved /\ j.stage = "sending" /\ (Retries(j) \/ TenderOver(j) \/ ReplyOver(j))
      BY JobMoves
    <2> QED  BY <2>1 DEF Unmoved, venueVars, history
  <1>2. CASE Retries(j)
    BY <1>1, <1>2, FollowFrame DEF Retries, fileVars
  <1>3. CASE TenderOver(j)
    <2>1. j.m \in Tenders /\ j.m.task \in Tasks /\ local[j.m.task] = "none"
      <3>1. j.m \in Tenders /\ j.m.type = "TENDER"
        BY <1>3 DEF TenderOver, Tenders
      <3>2. j.notice = Nothing
        BY <1>1, <3>1, JobFields
      <3> QED  BY <3>1, <3>2, JobTasks DEF JobInv
    <2>2. \A u \in Tasks : local'[u] = local[u] \/ (local[u] = "none" /\ local'[u] # "COMMITTED")
      <3>1. CASE local' = local
        BY <3>1
      <3>2. CASE \E s \in {"OPEN", "REFUSED"} : local' = [local EXCEPT ![j.m.task] = s]
        BY <2>1, <3>2 DEF AgentTypes
      <3> QED  BY <1>3, <3>1, <3>2 DEF TenderOver
    <2>3. UNCHANGED <<seen, artifacts, book>>
      BY <1>3 DEF TenderOver
    <2> QED  BY <1>1, <2>2, <2>3, FollowOpens
  <1>4. CASE ReplyOver(j)
    <2> DEFINE t == j.m.task
    <2>1. PICK outcome \in {StatusMessage(t), Nothing} : Ends(j, outcome)
      BY <1>4 DEF ReplyOver
    <2>2. t \in Tasks /\ local[t] # "none" /\ j.m \in Replies
      <3>1. j.m \in Replies /\ j.m.type # "TENDER"
        BY <1>4 DEF ReplyOver, Replies
      <3>2. j.m.task = j.notice.task /\ j.notice \in Asks
        BY <1>1, <3>1, JobFields
      <3>3. j.notice # Nothing /\ j.notice.task \in Tasks
        BY <3>2, Nothings DEF Notices
      <3> QED  BY <3>1, <3>2, <3>3 DEF JobInv
    <2>3. j.m.type = "REJECT" => venue[t].state # "completed"
      <3>1. j.m.type = "REJECT" => j.m \in Moves(t)
        BY <1>1, <2>2 DEF Moves
      <3> QED  BY <2>2, <3>1 DEF TurnInv
    <2> HIDE DEF t
    <2> DEFINE n == IF outcome \in seen THEN Nothing ELSE outcome
    <2>4. /\ seen' = seen \cup ({outcome} \ {Nothing}) /\ Record(n)
          /\ local' = IF j.m.type = "REJECT" THEN [Heard(n) EXCEPT ![t] = "REJECTED"]
                      ELSE Heard(n)
      BY <2>1 DEF Ends, t
    <2>5. outcome # Nothing => outcome \in Tells /\ outcome.task = t /\ Says(outcome)
                               /\ outcome \in {C(t), R(t)}
      BY <2>2, StatusIs, StatusSays
    <2> SUFFICES ASSUME ~overtaken PROVE FollowInv'
      BY <1>1 DEF FollowInv
    <2>6. CASE n # Nothing
      <3>1. n = outcome /\ n \notin seen /\ seen' = seen \cup {n}
        BY <2>4, <2>6
      <3>2. n \in Tells /\ n.task = t /\ Says(n) /\ n \in {C(t), R(t)}
        BY <2>5, <2>6, <3>1
      <3> HIDE DEF n
      <3>3. Applies(n)
        BY <2>2, <2>6, <3>2 DEF Applies
      <3>4. /\ Heard(n) \in [Tasks -> Statuses] /\ \A u \in Tasks : u # t => Heard(n)[u] = local[u]
            /\ Heard(n)[t] = IF n.type = "REFUSED" THEN "CANCELED" ELSE n.type
        BY <3>2, <3>3, HeardIs
      <3>5. j.m.type = "REJECT" => n.type = "REFUSED"
        BY <2>2, <2>3, <3>2 DEF Says
      <3>6. /\ \A u \in Tasks : u # t => local'[u] = local[u]
            /\ \/ local'[t] = IF n.type = "REFUSED" THEN "CANCELED" ELSE n.type
               \/ n.type = "REFUSED" /\ local'[t] = "REJECTED"
        BY <2>2, <2>4, <3>4, <3>5
      <3> QED  BY <1>1, <2>2, <2>4, <3>1, <3>2, <3>3, <3>6, FollowHears
    <2>7. CASE n = Nothing
      <3>1. Heard(n) = local /\ book' = book /\ artifacts' = artifacts /\ seen' = seen
        <4>1. ~Applies(n)
          BY <2>7 DEF Applies
        <4> QED  BY <2>4, <2>7, <4>1 DEF Heard, Record, BookAfter
      <3> HIDE DEF n
      <3>2. CASE j.m.type # "REJECT"
        BY <1>1, <2>4, <3>1, <3>2, FollowFrame
      <3>3. CASE j.m.type = "REJECT"
        <4>1. local' = [local EXCEPT ![t] = "REJECTED"]
          BY <2>4, <3>1, <3>3
        <4>2. /\ local'[t] = "REJECTED" /\ \A u \in Tasks : u # t => local'[u] = local[u]
          BY <2>2, <4>1 DEF AgentTypes
        <4>3. Ordered'
          BY <1>1, <3>1, OrderedQueue DEF FollowInv
        <4>4. \A u \in Tasks : Booked(u) /\ Booked(u)'
          BY <3>1 DEF FollowInv, Booked, C, V
        <4>5. ASSUME NEW u \in Tasks \ torn PROVE Acted(u)'
          <5>0. Acted(u)
            BY DEF FollowInv
          <5>1. CASE u # t
            BY <1>1, <3>1, <4>2, <5>0, <5>1, ActedSame DEF Elements
          <5>2. CASE u = t
            <6>1. C(t) \notin seen /\ V(t) \notin seen
              <7>1. /\ C(t) \in Tells /\ V(t) \in Tells /\ C(t).task = t /\ V(t).task = t
                    /\ C(t).type # "REFUSED" /\ V(t).type # "REFUSED"
                BY <2>2, Outcomeses
              <7> QED  BY <2>3, <3>3, <7>1 DEF TellInv, Says
            <6>2. t \notin book.added /\ t \notin book.released
              BY <2>2, <4>4, <6>1 DEF Booked
            <6> QED  BY <1>1, <3>1, <4>2, <5>2, <6>1, <6>2 DEF Acted, Elements, C, V
          <5> QED  BY <5>1, <5>2
        <4> QED  BY <1>1, <3>1, <4>3, <4>4, <4>5 DEF FollowInv
      <3> QED  BY <3>2, <3>3
    <2> QED  BY <2>6, <2>7
  <1> QED  BY <1>1, <1>2, <1>3, <1>4
LEMMA FollowConsider ==
    ASSUME Types, JobInv, FollowInv, Consider
    PROVE  FollowInv'
  <1> VenueTypes /\ AgentTypes
    BY DEF Types
  <1> DEFINE n == Head(queue)
  <1>1. /\ queue # <<>> /\ n \in Elements(queue) /\ n \in Asks /\ n \notin Tells
        /\ local' = IF n.type = "TENDER" THEN [local EXCEPT ![n.task] = "OPEN"] ELSE local
        /\ queue' = Tail(queue) /\ UNCHANGED <<outbox, seen, artifacts, book, torn, overtaken>>
    <2>1. queue # <<>> /\ n.type \in Requests
      BY DEF Consider
    <2>2. n \in Elements(queue) /\ n \in Notices
      BY <2>1, Headed DEF AgentTypes
    <2>3. n \in Asks /\ n \notin Tells
      BY <2>1, <2>2, Kinds
    <2> QED  BY <2>1, <2>2, <2>3 DEF Consider, venueVars, fileVars, history
  <1>2. n.type = "TENDER" => local[n.task] = "none"
    BY <1>1 DEF JobInv
  <1> HIDE DEF n
  <1>3. \A u \in Tasks : local'[u] = local[u] \/ (local[u] = "none" /\ local'[u] # "COMMITTED")
    BY <1>1, <1>2 DEF AgentTypes
  <1>4. Head(queue) \notin Tells
    BY <1>1 DEF n
  <1> QED  BY <1>1, <1>3, <1>4, FollowOpens

\* What is torn of the tasks under way does not count; the others stay as they are
LEMMA FollowDies ==
    ASSUME Types, JobInv, FollowInv, queue' = <<>>, local' = saved,
           torn' = torn \cup UnderWay, UNCHANGED <<outbox, seen, overtaken>>,
           \/ UNCHANGED <<artifacts, book>>
           \/ \E t \in Tasks :
                 /\ t \in UnderWay /\ C(t) \in seen /\ artifacts' = artifacts \cup {t}
                 /\ \/ book' = book
                    \/ book'.added = book.added \cup {t} /\ book'.released = book.released
    PROVE  FollowInv'
  <1> SUFFICES ASSUME ~overtaken PROVE FollowInv'
    BY DEF FollowInv
  <1>1. Ordered'
    BY OrderedQueue DEF FollowInv
  <1>2. \A u \in Tasks : Booked(u)'
    BY DEF FollowInv, Booked, C, V
  <1>3. ASSUME NEW u \in Tasks \ torn' PROVE Acted(u)'
    <2>1. u \notin UnderWay /\ Acted(u)
      BY DEF FollowInv
    <2>2. \A e \in Elements(queue) : e.task # u
      BY <2>1 DEF UnderWay, Elements
    <2>3. local'[u] = local[u]
      BY <2>1 DEF UnderWay, JobInv
    <2>4. Elements(queue') = {}
      BY DEF Elements
    <2>5. /\ u \in book'.added <=> u \in book.added
          /\ u \in book'.released <=> u \in book.released
          /\ u \in artifacts => u \in artifacts'
      BY <2>1
    <2> QED  BY <2>1, <2>2, <2>3, <2>4, <2>5, ActedSame
  <1>4. torn' = {} => torn = {} /\ book' = book
    OBVIOUS
  <1> QED  BY <1>1, <1>2, <1>3, <1>4 DEF FollowInv

LEMMA FollowDiesWithin ==
    ASSUME Types, TellInv, JobInv, FollowInv, DiesWithin
    PROVE  FollowInv'
  <1> VenueTypes /\ AgentTypes
    BY DEF Types
  <1> DEFINE n == Head(queue)
  <1>1. queue # <<>> /\ n.type = "COMMITTED" /\ Applies(n)
    BY DEF DiesWithin
  <1>2. n \in Elements(queue) /\ n \in Tells /\ n.task \in Tasks
    <2>1. n \in Elements(queue) /\ n \in Notices
      BY <1>1, Headed DEF AgentTypes
    <2> QED  BY <1>1, <2>1, Kinds, Nothings DEF Outcomes
  <1>3. n \in seen /\ Says(n)
    BY <1>2 DEF JobInv, TellInv
  <1>4. n = C(n.task)
    BY <1>1, <1>2, <1>3, Outcomeses DEF Says
  <1>5. /\ queue' = <<>> /\ local' = saved /\ torn' = torn \cup UnderWay
        /\ artifacts' = artifacts \cup {n.task} /\ book' \in {book, BookAfter(n)}
        /\ UNCHANGED <<outbox, seen, overtaken>>
    BY DEF DiesWithin, venueVars
  <1>6. n.task \in UnderWay
    <2>1. PICK i \in DOMAIN queue : queue[i] = n
      BY <1>2 DEF Elements
    <2> QED  BY <2>1 DEF UnderWay
  <1> HIDE DEF n
  <1>7. /\ BookAfter(n).added = book.added \cup {n.task}
        /\ BookAfter(n).released = book.released
    BY <1>1, <1>2, BookIs
  <1>8. C(n.task) \in seen
    BY <1>3, <1>4
  <1> QED  BY <1>2, <1>5, <1>6, <1>7, <1>8, FollowDies

----------------------------------------------------------------------------
(* The limit                                                               *)

\* What is held and what may yet come
Claimed == (book.added \ book.released) \cup Unresolved

LEMMA LimitLess ==
    ASSUME Types, LimitInv, torn \subseteq torn', overtaken => overtaken', racing => racing',
           torn' = {} /\ ~overtaken' /\ ~racing' => Claimed' \subseteq Claimed
    PROVE  LimitInv'
  <1> SUFFICES ASSUME torn' = {}, ~overtaken', ~racing'
               PROVE  Cardinality(Claimed') <= Limit
    BY DEF LimitInv, Claimed
  <1>1. torn = {} /\ ~overtaken /\ ~racing
    OBVIOUS
  <1>2. Claimed' \subseteq Claimed
    OBVIOUS
  <1>3. Claimed \subseteq Tasks
    BY DEF Claimed, Unresolved, Types, AgentTypes, Books
  <1>4. Cardinality(Claimed) <= Limit
    BY <1>1 DEF LimitInv, Claimed
  <1> HIDE DEF Claimed
  <1>5. IsFiniteSet(Claimed)
    BY <1>3, AgentAssumption, FS_Subset
  <1>6. IsFiniteSet(Claimed') /\ Cardinality(Claimed') <= Cardinality(Claimed)
    BY <1>2, <1>5, FS_Subset
  <1>7. Cardinality(Claimed) \in Nat /\ Cardinality(Claimed') \in Nat /\ Limit \in Nat
    BY <1>5, <1>6, FS_CardinalityType, AgentAssumption
  <1> QED  BY <1>4, <1>6, <1>7

LEMMA ClaimedQuiet ==
    ASSUME Types, TellInv, Quieter,
           book'.added \subseteq Tasks,
           book.added \subseteq book'.added, book.released \subseteq book'.released,
           \A t \in Tasks : t \in book'.added \ book.added => venue[t].state = "completed"
    PROVE  Claimed' \subseteq Claimed
  <1>1. ASSUME NEW t \in Unresolved' PROVE t \in Unresolved
    <2>1. t \in Tasks /\ venue' = venue /\ book.added \subseteq book'.added
      BY <1>1 DEF Unresolved, Quieter
    <2>2. ASSUME NEW x \in jobs' \cup wire' \cup parked', x.m = Message(t, "ACCEPT", venue[t].round)
          PROVE  \E y \in jobs \cup wire \cup parked : y.m = Message(t, "ACCEPT", venue[t].round)
      <3>1. x.m # Nothing /\ x.m \notin Tenders
        <4>1. x.m.type = "ACCEPT" /\ x.m.task \in Tasks
          BY <2>1, <2>2, Fields
        <4>2. Nothing.task \notin Tasks
          BY AgentAssumption DEF Nothing
        <4> QED  BY <4>1, <4>2 DEF Tenders
      <3> QED  BY <2>2, <3>1 DEF Quieter
    <2> QED  BY <1>1, <2>1, <2>2 DEF Unresolved
  <1>2. ASSUME NEW t \in book'.added \ book'.released, t \in Tasks PROVE t \in Claimed
    <2>1. CASE t \in book.added
      BY <2>1 DEF Claimed
    <2>2. CASE t \notin book.added
      <3>1. venue[t].state = "completed" /\ "me" \in venue[t].accepted
        BY <1>2, <2>2 DEF TellInv
      <3> QED  BY <1>2, <2>2, <3>1 DEF Claimed, Unresolved
    <2> QED  BY <2>1, <2>2
  <1> QED  BY <1>1, <1>2 DEF Claimed
\* Only a commitment the venue has made comes into the book
Grows ==
    /\ book.added \subseteq book'.added /\ book.released \subseteq book'.released
    /\ \A t \in Tasks : t \in book'.added \ book.added => venue[t].state = "completed"

LEMMA RecordGrows ==
    ASSUME AgentTypes, NEW n \in Tells \cup {Nothing}, n # Nothing => Says(n),
           book' = book \/ book' = BookAfter(n)
    PROVE  Grows
  <1>1. CASE n = Nothing \/ book' = book
    <2>1. n = Nothing => BookAfter(n) = book
      BY DEF BookAfter, Applies
    <2> QED  BY <1>1, <2>1 DEF Grows
  <1>2. CASE n # Nothing /\ book' = BookAfter(n)
    <2>1. n \in Tells /\ n.type \in {"COMMITTED", "VOIDED", "REFUSED"}
      BY <1>2 DEF Tells, Outcomes
    <2>2. /\ book.added \subseteq book'.added /\ book.released \subseteq book'.released
          /\ book'.added \subseteq book.added \cup (IF n.type = "COMMITTED" THEN {n.task} ELSE {})
      BY <1>2, <2>1, BookIs
    <2> QED  BY <1>2, <2>2 DEF Grows, Says
  <1> QED  BY <1>1, <1>2

LEMMA LimitOver ==
    ASSUME Types, Types', TellInv, LimitInv, NEW j \in jobs,
           Dropped(j) \/ \E a \in answers : Answered(j, a)
    PROVE  LimitInv'
  <1> VenueTypes /\ AgentTypes /\ AnswersTrue
    BY DEF Types, TellInv, AnswersTrue
  <1>1. /\ Quieter /\ UNCHANGED history /\ j.stage = "sending"
        /\ (Retries(j) \/ TenderOver(j) \/ ReplyOver(j))
    BY QuietJobs, JobMoves DEF Unmoved
  <1>2. Grows
    <2>1. CASE Retries(j) \/ TenderOver(j)
      BY <2>1 DEF Retries, TenderOver, fileVars, Grows
    <2>2. CASE ReplyOver(j)
      <3>1. PICK outcome \in {StatusMessage(j.m.task), Nothing} : Ends(j, outcome)
        BY <2>2 DEF ReplyOver
      <3>2. PICK n \in {StatusMessage(j.m.task), Nothing} : Record(n)
        BY <3>1 DEF Ends
      <3>3. j.m.task \in Tasks
        BY <1>1, JobFields, Nothings
      <3>4. n \in Tells \cup {Nothing} /\ (n # Nothing => Says(n))
        BY <3>2, <3>3, StatusIs, StatusSays
      <3> QED  BY <3>2, <3>4, RecordGrows DEF Record
    <2> QED  BY <1>1, <2>1, <2>2
  <1>3. book'.added \subseteq Tasks
    BY DEF Types, AgentTypes, Books
  <1> QED  BY <1>1, <1>2, <1>3, ClaimedQuiet, LimitLess DEF Grows, history

LEMMA LimitSteps ==
    ASSUME Types, Types', TellInv, JobInv, LimitInv,
           \/ \E t \in Tasks : Tender(t) \/ Reconcile(t)
           \/ \E a \in wire : Arrive(a)
           \/ \E i \in DOMAIN outbox : Push(i)
           \/ Learn \/ Consider \/ VenueDies \/ Dies \/ DiesWithin
    PROVE  LimitInv'
  <1> VenueTypes /\ AgentTypes
    BY DEF Types
  <1>1. Quieter
    BY QuietSteps
  <1>2. torn \subseteq torn' /\ (overtaken => overtaken') /\ (racing => racing')
    <2>1. CASE \E t \in Tasks : Tender(t) \/ Reconcile(t)
      BY <2>1 DEF Tender, Reconcile, history
    <2>2. CASE \E a \in wire : Arrive(a)
      BY <2>2 DEF Arrive, history
    <2>3. ASSUME NEW i \in DOMAIN outbox, Push(i)
          PROVE  torn' = torn /\ (overtaken => overtaken') /\ racing' = racing
      BY <2>3 DEF Push
    <2>4. CASE Learn \/ Consider \/ VenueDies
      BY <2>4 DEF Learn, Consider, VenueDies, history
    <2>5. CASE Dies \/ DiesWithin
      BY <2>5 DEF Dies, DiesWithin
    <2> QED  BY <2>1, <2>2, <2>3, <2>4, <2>5
  <1>3. Grows
    <2>1. ASSUME NEW t \in Tasks, Reconcile(t) PROVE Grows
      <3>1. Record(StatusMessage(t)) /\ Terminal(t)
        BY <2>1 DEF Reconcile, Process
      <3> QED  BY <3>1, StatusSays, RecordGrows DEF Record
    <2>2. CASE Learn \/ DiesWithin
      <3>1. queue # <<>> /\ Head(queue).type \in Outcomes /\ book' \in {book, BookAfter(Head(queue))}
        BY <2>2 DEF Learn, DiesWithin, Process, Record, Outcomes
      <3>2. Head(queue) \in Tells /\ Head(queue) \in Elements(queue)
        BY <3>1, Headed, Kinds DEF AgentTypes
      <3>3. Says(Head(queue))
        BY <3>2 DEF JobInv, TellInv
      <3> QED  BY <3>1, <3>2, <3>3, RecordGrows
    <2>3. CASE (\E t \in Tasks : Tender(t)) \/ (\E a \in wire : Arrive(a))
      BY <2>3 DEF Tender, Arrive, fileVars, Grows
    <2>4. CASE Consider \/ VenueDies \/ Dies
      BY <2>4 DEF Consider, VenueDies, Dies, fileVars, Grows
    <2>5. ASSUME NEW i \in DOMAIN outbox, Push(i) PROVE Grows
      BY <2>5 DEF Push, Grows
    <2> QED  BY <2>1, <2>2, <2>3, <2>4, <2>5
  <1>4. book'.added \subseteq Tasks
    BY DEF Types, AgentTypes, Books
  <1> QED  BY <1>1, <1>2, <1>3, <1>4, ClaimedQuiet, LimitLess DEF Grows

\* The guard lets an acceptance through when the loads held leave room, and when
\* no other acceptance is unresolved
LEMMA LimitDecide ==
    ASSUME Types, FollowInv, LimitInv, NEW j \in jobs, Decide(j)
    PROVE  LimitInv'
  <1> VenueTypes /\ AgentTypes
    BY DEF Types
  <1>1. PICK m \in Replies :
           /\ m.task = j.notice.task /\ Send(j, j.notice, m)
           /\ m.type # "ACCEPT" => racing' = racing
           /\ m.type = "ACCEPT" => /\ m.round = j.notice.round /\ Guard
                                   /\ racing' = (racing \/ Unresolved \ {m.task} # {})
    BY Decides
  <1>2. /\ UNCHANGED <<venue, parked, book, torn, overtaken>> /\ j.m = Nothing
        /\ jobs' = (jobs \ {j}) \cup {Job(j.notice, "sending", m, 1)}
        /\ wire' = wire \cup {[m |-> m, attempt |-> 1]}
    BY <1>1, Decides DEF venueVars, fileVars, Send
  <1>3. \A x \in jobs' \cup wire' \cup parked' : x.m = m \/ \E y \in jobs \cup wire \cup parked : y.m = x.m
    BY <1>2 DEF Job
  <1>4. ASSUME NEW t \in Unresolved', t \notin Unresolved PROVE m.type = "ACCEPT" /\ t = m.task
    <2>1. t \in Tasks /\ m = Message(t, "ACCEPT", venue[t].round)
      BY <1>2, <1>3, <1>4 DEF Unresolved
    <2> QED  BY <2>1, Fields
  <1>5. CASE m.type # "ACCEPT"
    <2>1. Claimed' \subseteq Claimed
      BY <1>2, <1>4, <1>5 DEF Claimed
    <2> QED  BY <1>1, <1>2, <1>5, <2>1, LimitLess
  <1>6. CASE m.type = "ACCEPT"
    <2> SUFFICES ASSUME torn = {}, ~overtaken, ~racing'
                 PROVE  Cardinality(Claimed') <= Limit
      BY <1>2 DEF LimitInv, Claimed
    <2> DEFINE H == book.added \ book.released
    <2>1. Unresolved \subseteq {m.task} /\ book.outstanding + 1 <= Limit
      BY <1>1, <1>6 DEF Guard
    <2>2. book.outstanding = Cardinality(H)
      BY DEF FollowInv
    <2>3. m.task \in Tasks /\ H \in SUBSET Tasks
      BY DEF Replies, AgentTypes, Books
    <2>4. Claimed' \subseteq H \cup {m.task}
      BY <1>2, <1>4, <2>1 DEF Claimed
    <2> HIDE DEF H, Claimed
    <2>5. /\ IsFiniteSet(H \cup {m.task}) /\ Cardinality(H) \in Nat
          /\ Cardinality(H \cup {m.task}) \in {Cardinality(H), Cardinality(H) + 1}
      <3>1. IsFiniteSet(H) /\ Cardinality(H) \in Nat
        BY <2>3, Counted
      <3> QED  BY <3>1, FS_AddElement
    <2>6. /\ Cardinality(Claimed') <= Cardinality(H \cup {m.task})
          /\ Cardinality(Claimed') \in Nat
      <3>1. IsFiniteSet(Claimed') /\ Cardinality(Claimed') <= Cardinality(H \cup {m.task})
        BY <2>4, <2>5, FS_Subset
      <3> QED  BY <3>1, FS_CardinalityType
    <2>7. Limit \in Nat
      BY AgentAssumption
    <2> QED  BY <2>1, <2>2, <2>5, <2>6, <2>7
  <1> QED  BY <1>5, <1>6

\* The venue accepts for the agent only what the agent has sent
LEMMA LimitVenue ==
    ASSUME Types, \A u \in Tasks : TurnInv(u), RoundInv, LimitInv,
           NEW t \in Tasks, NEW m, VenueMoves(t, m), Owes(t), Others(t)
    PROVE  LimitInv'
  <1> VenueTypes /\ AgentTypes
    BY DEF Types
  <1>1. UNCHANGED <<wire, jobs, book, torn, overtaken, racing>> /\ parked' \subseteq parked
    BY DEF VenueMoves, fileVars, agentVars, history
  <1>2. ASSUME NEW u \in Unresolved' PROVE u \in Unresolved
    <2>1. u \in Tasks
      BY <1>2 DEF Unresolved
    <2>2. CASE venue'[u] = venue[u]
      BY <1>1, <1>2, <2>1, <2>2 DEF Unresolved
    <2>3. CASE venue'[u] # venue[u]
      <3>1. u = t /\ ~Stays
        BY <2>1, <2>3 DEF Others, Stays
      <3>2. ASSUME NEW x \in jobs' \cup wire' \cup parked', x.m = Message(t, "ACCEPT", venue'[t].round)
            PROVE  u \in Unresolved
        <4>1. x \in jobs \cup wire \cup parked
          BY <1>1
        <4>2. x.m.round <= venue[t].round /\ x.m.round = venue'[t].round
          <5>1. x.m.type = "ACCEPT" /\ x.m.task = t /\ x.m.round = venue'[t].round
            BY <3>2, Fields
          <5>2. x.m # Nothing
            BY <5>1, AgentAssumption DEF Nothing
          <5> QED  BY <4>1, <5>1, <5>2 DEF RoundInv
        <4>3. venue[t].round <= venue'[t].round /\ venue[t].round \in Nat /\ venue'[t].round \in Nat
          <5>1. venue'[t] \in Kept
            BY DEF Others
          <5> QED  BY <5>1, Forward, KeptFields DEF Kept
        <4>4. venue'[t].round = venue[t].round
          BY <4>2, <4>3
        <4> QED  BY <3>1, <3>2, <4>1, <4>4 DEF Unresolved
      <3>3. ASSUME venue'[t].state # "canceled", "me" \in venue'[t].accepted, t \notin book.added
            PROVE  u \in Unresolved
        <4>1. CASE "me" \in venue[t].accepted /\ venue[t].state # "canceled"
          BY <3>1, <3>3, <4>1 DEF Unresolved
        <4>2. CASE Sent(t, m) /\ m.type = "ACCEPT" /\ venue[t].turn = "me" /\ venue[t].state = "open"
          <5>1. m \in Replies /\ m \in Moves(t) /\ \E a \in parked : a.m = m
            <6>1. m \in Replies /\ m.task = t /\ \E a \in parked : a.m = m
              BY <4>2, Kinds DEF VenueMoves, Sent
            <6> QED  BY <6>1 DEF Moves
          <5>2. m.round = venue[t].round /\ m.task = t
            BY <4>2, <5>1 DEF TurnInv, VenueMoves, Sent
          <5>3. m = Message(t, "ACCEPT", venue[t].round)
            BY <4>2, <5>1, <5>2 DEF Replies, Message
          <5> QED  BY <3>1, <5>1, <5>3 DEF Unresolved
        <4>3. CASE Admitted(t) \/ Opened(t) \/ Voided(t)
          <5>1. venue'[t].accepted = venue[t].accepted /\ venue[t].state # "canceled"
            BY <4>3, KeptFields DEF Admitted, Opened, Voided, Kept
          <5> QED  BY <3>3, <4>1, <5>1
        <4>4. CASE Asked(t)
          BY <3>3, <4>4 DEF Asked, Turned
        <4>5. CASE Canceled(t)
          BY <3>3, <4>5 DEF Canceled
        <4>6. CASE Completed(t) /\ venue[t].turn = "other"
          BY <4>1, <4>6 DEF Completed
        <4>7. CASE Sent(t, m) /\ Replied(t) /\ (venue'[t].accepted # {} => m.type = "ACCEPT")
          BY <3>3, <4>2, <4>7 DEF Replied, Turned
        <4>8. CASE Sent(t, m) /\ Completed(t) /\ m.type = "ACCEPT" /\ venue[t].turn = "me"
          BY <4>2, <4>8 DEF Completed
        <4> QED
          BY <3>1, <4>3, <4>4, <4>5, <4>6, <4>7, <4>8 DEF VenueMoves, ByOther, Sent, ByAgent
      <3> QED  BY <1>1, <1>2, <3>1, <3>2, <3>3 DEF Unresolved
    <2> QED  BY <2>2, <2>3
  <1>3. Claimed' \subseteq Claimed
    BY <1>1, <1>2 DEF Claimed
  <1> QED  BY <1>1, <1>3, LimitLess
----------------------------------------------------------------------------
(* Theorems                                                                *)

LEMMA IntakeInit == Init => Intake
  BY DEF Init, Intake

\* The nonce is on disk before the message is parked
LEMMA ArriveKeeps ==
    ASSUME Intake, NEW a \in wire, Arrive(a)
    PROVE  Intake'
  <1>1. CASE a.m \in nonces
    BY <1>1 DEF Intake, Arrive
  <1>2. CASE a.m \notin nonces
    <2>1. nonces' = nonces \cup {a.m} /\ parked' = parked \cup {a} /\ done' = done
      BY <1>2 DEF Arrive
    <2>2. a.m \notin done /\ \A b \in parked : b.m # a.m
      BY <1>2 DEF Intake
    <2> QED  BY <2>1, <2>2 DEF Intake
  <1> QED  BY <1>1, <1>2

LEMMA HandleKeeps ==
    ASSUME Intake, NEW a \in parked, Handle(a)
    PROVE  Intake'
  <1>1. parked' = parked \ {a} /\ done' = done \cup {a.m} /\ nonces' = nonces
    BY DEF Handle
  <1>2. \A b \in parked' : b.m # a.m
    BY <1>1 DEF Intake
  <1> QED  BY <1>1, <1>2, SMTT(60) DEF Intake

LEMMA IntakeNext == Intake /\ [Next]_vars => Intake'
  <1> SUFFICES ASSUME Intake, [Next]_vars PROVE Intake'
    OBVIOUS
  <1>1. ASSUME NEW t \in Tasks, OtherActs(t) \/ Timeout(t) \/ Tender(t) \/ Reconcile(t)
        PROVE  UNCHANGED <<nonces, parked, done>>
    BY <1>1 DEF OtherActs, Timeout, Tender, Reconcile, venueVars
  <1>2. ASSUME NEW i \in DOMAIN outbox, Push(i)
        PROVE  UNCHANGED <<nonces, parked, done>>
    BY <1>2 DEF Push
  <1>3. ASSUME NEW j \in jobs, Decide(j) \/ Dropped(j) \/ \E a \in answers : Answered(j, a)
        PROVE  UNCHANGED <<nonces, parked, done>>
    BY <1>3 DEF Decide, Dropped, Answered, venueVars
  <1>4. CASE Learn \/ Consider \/ Dies \/ DiesWithin
    BY <1>4 DEF Learn, Consider, Dies, DiesWithin, venueVars, Intake
  <1>5. CASE VenueDies
    BY <1>5 DEF VenueDies, Intake
  <1>6. CASE UNCHANGED vars
    BY <1>6 DEF vars, venueVars, Intake
  <1>7. UNCHANGED <<nonces, parked, done>> => Intake'
    BY DEF Intake
  <1> QED  BY <1>1, <1>2, <1>3, <1>4, <1>5, <1>6, <1>7, ArriveKeeps, HandleKeeps DEF Next

LEMMA IInvInit == Init => IInv
  <1> SUFFICES ASSUME Init PROVE IInv
    OBVIOUS
  <1>1. Types /\ Intake
    BY TypesInit, IntakeInit
  <1>2. Elements(outbox) = {} /\ Elements(queue) = {}
    BY DEF Init, Elements
  <1>3. \A t \in Tasks : venue[t] = Untouched /\ local[t] = "none" /\ saved[t] = "none"
    BY DEF Init, Untouched
  <1>4. \A t \in Tasks : Waiting(t) = {} /\ Moves(t) = {}
    BY <1>2 DEF Init, Waiting, Moves
  <1>5. \A t \in Tasks : TurnInv(t)
    BY <1>3, <1>4 DEF TurnInv, Untouched
  <1>6. RoundInv
    BY <1>2 DEF Init, RoundInv
  <1>7. TellInv
    BY <1>2, <1>3 DEF Init, TellInv, FirstHeard, Untouched
  <1>8. JobInv
    BY <1>2, <1>3 DEF Init, JobInv, Distinct
  <1>9. FollowInv
    <2>1. Cardinality(book.added \ book.released) = 0 /\ book.outstanding = 0
      BY FS_EmptySet DEF Init
    <2> QED  BY <1>2, <1>3, <2>1 DEF Init, FollowInv, Ordered, Booked, Acted
  <1>10. LimitInv
    <2>1. Unresolved = {}
      BY <1>3 DEF Init, Unresolved, Untouched
    <2>2. Cardinality((book.added \ book.released) \cup Unresolved) = 0
      BY <2>1, FS_EmptySet DEF Init
    <2> QED  BY <2>2, AgentAssumption DEF LimitInv
  <1> QED  BY <1>1, <1>5, <1>6, <1>7, <1>8, <1>9, <1>10 DEF IInv

\* The venue decides
LEMMA IInvVenue ==
    ASSUME IInv, Intake', Types', NEW t \in Tasks, NEW m, VenueMoves(t, m),
           \A b \in answers' : b \in answers \/ (b.m.task = t /\ b.notice = StatusMessage(t)')
    PROVE  IInv'
  <1> /\ Types /\ Intake /\ (\A u \in Tasks : TurnInv(u)) /\ RoundInv /\ TellInv /\ JobInv
      /\ FollowInv /\ LimitInv /\ VenueTypes
    BY DEF IInv, Types
  <1>1. Owes(t) /\ Others(t)
    BY OwesIt DEF TurnInv, VenueMoves, Sent, ByOther, ByAgent
  <1>2. UNCHANGED <<queue, seen, jobs, local, saved>>
        /\ UNCHANGED <<local, fileVars, agentVars, history>>
    BY DEF VenueMoves, fileVars, agentVars
  <1>3. \A u \in Tasks : TurnInv(u)'
    BY TurnVenue
  <1>4. RoundInv' /\ LimitInv'
    BY <1>1, RoundVenue, LimitVenue
  <1>5. TellInv'
    BY <1>1, TellVenue
  <1>6. JobInv'
    BY <1>2, JobFrame
  <1>7. FollowInv'
    BY <1>1, <1>2, FollowVenue
  <1> QED  BY <1>3, <1>4, <1>5, <1>6, <1>7 DEF IInv

\* The agent does, but for its decisions, or what lies between the two
LEMMA JobSteps ==
    ASSUME IInv,
           \/ \E t \in Tasks : Tender(t) \/ Reconcile(t)
           \/ \E a \in wire : Arrive(a)
           \/ \E i \in DOMAIN outbox : Push(i)
           \/ Learn \/ Consider \/ VenueDies \/ Dies \/ DiesWithin
    PROVE  JobInv' /\ FollowInv'
  <1> /\ Types /\ (\A u \in Tasks : TurnInv(u)) /\ TellInv /\ JobInv /\ FollowInv
      /\ VenueTypes /\ AgentTypes
    BY DEF IInv, Types
  <1>1. ASSUME NEW t \in Tasks, Tender(t) PROVE JobInv' /\ FollowInv'
    <2>1. UNCHANGED <<outbox, local, seen, artifacts, book, queue, torn, overtaken>>
      BY <1>1 DEF Tender, venueVars, fileVars, history
    <2> QED  BY <1>1, <2>1, JobTender, FollowFrame
  <1>2. ASSUME NEW t \in Tasks, Reconcile(t) PROVE JobInv' /\ FollowInv'
    <2>1. /\ Process(StatusMessage(t)) /\ seen \subseteq seen' /\ UNCHANGED <<queue, jobs>>
          /\ StatusMessage(t) \in Tells
      BY <1>2, StatusIs DEF Reconcile, agentVars
    <2>2. Elements(queue') \subseteq Elements(queue) /\ Distinct(queue')
      BY <2>1 DEF JobInv, Elements, Distinct
    <2> QED  BY <1>2, <2>1, <2>2, JobHears, FollowReconcile
  <1>3. CASE VenueDies \/ \E a \in wire : Arrive(a)
    <2>1. UNCHANGED <<outbox, local, saved, seen, artifacts, book, queue, jobs, torn, overtaken>>
      BY <1>3 DEF VenueDies, Arrive, fileVars, agentVars, history
    <2> QED  BY <2>1, JobFrame, FollowFrame
  <1>4. ASSUME NEW i \in DOMAIN outbox, Push(i) PROVE JobInv' /\ FollowInv'
    BY <1>4, JobPush, FollowPush
  <1>5. CASE Learn
    <2>1. /\ queue # <<>> /\ Process(Head(queue)) /\ UNCHANGED <<seen, jobs>> /\ queue' = Tail(queue)
          /\ Head(queue) \in Tells
      BY <1>5, Headed, Kinds DEF Learn, AgentTypes
    <2>2. Elements(queue') \subseteq Elements(queue) /\ Distinct(queue')
      BY <2>1, Headed DEF JobInv, AgentTypes
    <2> QED  BY <1>5, <2>1, <2>2, JobHears, FollowLearn
  <1>6. CASE Consider
    BY <1>6, JobConsider, FollowConsider
  <1>7. CASE Dies
    <2>1. /\ queue' = <<>> /\ jobs' = {} /\ local' = saved /\ torn' = torn \cup UnderWay
          /\ UNCHANGED <<outbox, saved, seen, artifacts, book, overtaken>>
      BY <1>7 DEF Dies, venueVars
    <2> QED  BY <2>1, JobDies, FollowDies
  <1>8. CASE DiesWithin
    <2>1. queue' = <<>> /\ jobs' = {} /\ local' = saved /\ UNCHANGED <<saved, seen>>
      BY <1>8 DEF DiesWithin
    <2> QED  BY <1>8, <2>1, JobDies, FollowDiesWithin
  <1> QED  BY <1>1, <1>2, <1>3, <1>4, <1>5, <1>6, <1>7, <1>8

LEMMA IInvNext == IInv /\ [Next]_vars => IInv'
  <1> SUFFICES ASSUME IInv, [Next]_vars PROVE IInv'
    OBVIOUS
  <1> /\ Types /\ Intake /\ (\A t \in Tasks : TurnInv(t)) /\ RoundInv /\ TellInv /\ JobInv
      /\ FollowInv /\ LimitInv /\ VenueTypes /\ AgentTypes /\ AnswersTrue /\ FirstHeard
    BY DEF IInv, Types, TellInv, AnswersTrue
  <1>0. Intake'
    BY IntakeNext
  <1>1. ASSUME NEW t \in Tasks, OtherActs(t) \/ Timeout(t) PROVE IInv'
    <2>1. /\ ByOther(t)
          /\ UNCHANGED <<nonces, parked, done, netVars, local, fileVars, agentVars, faults, history>>
      BY <1>1, OtherDoes
    <2>2. VenueMoves(t, Nothing) /\ answers' = answers
      BY <2>1 DEF VenueMoves, netVars
    <2>3. Types'
      BY <1>1, VenueTypesOther
    <2> QED  BY <1>0, <2>2, <2>3, IInvVenue
  <1>2. ASSUME NEW a \in parked, Handle(a) PROVE IInv'
    <2>1. /\ a.m \in Messages /\ a.m.task \in Tasks /\ ByAgent(a.m.task, a.m)
          /\ parked' = parked \ {a} /\ done' = done \cup {a.m}
          /\ \A b \in answers' : b \in answers \/
                \E k \in {"task", "refused"} :
                   b = [m |-> a.m, attempt |-> a.attempt, kind |-> k,
                        notice |-> StatusMessage(a.m.task)']
          /\ UNCHANGED <<nonces, wire, local, fileVars, agentVars, faults, history>>
      BY <1>2, HandleDoes
    <2>2. VenueMoves(a.m.task, a.m)
      BY <2>1 DEF VenueMoves, Sent, Intake
    <2>3. \A b \in answers' : b \in answers \/
             (b.m.task = a.m.task /\ b.notice = StatusMessage(a.m.task)')
      BY <2>1
    <2>4. Types'
      BY <1>2, VenueTypesHandle
    <2> QED  BY <1>0, <2>1, <2>2, <2>3, <2>4, IInvVenue
  <1>3. ASSUME NEW j \in jobs, Decide(j) PROVE IInv'
    <2>1. UNCHANGED <<outbox, local, seen, artifacts, book, queue, torn, overtaken>>
      BY <1>3, Decides DEF venueVars, fileVars
    <2>2. Types'
      BY <1>3, TypesAgent
    <2>3. FollowInv'
      BY <2>1, FollowFrame
    <2> QED
      BY <1>0, <1>3, <2>2, <2>3, TurnDecide, RoundDecide, HearsDecide, TellHears, JobDecide, LimitDecide
         DEF IInv
  <1>4. ASSUME NEW j \in jobs, Dropped(j) \/ \E a \in answers : Answered(j, a) PROVE IInv'
    <2>1. Types' /\ Quieter /\ Hears
      BY <1>4, TypesAgent, QuietJobs
    <2>2. (\A t \in Tasks : TurnInv(t)') /\ RoundInv' /\ TellInv'
      BY <2>1, TurnQuiet, RoundQuiet, TellHears
    <2>3. JobInv' /\ FollowInv' /\ LimitInv'
      BY <1>4, <2>1, JobOver, FollowOver, LimitOver
    <2> QED  BY <1>0, <2>1, <2>2, <2>3 DEF IInv
  <1>5. CASE \/ \E t \in Tasks : Tender(t) \/ Reconcile(t)
             \/ \E a \in wire : Arrive(a)
             \/ \E i \in DOMAIN outbox : Push(i)
             \/ Learn \/ Consider \/ VenueDies \/ Dies \/ DiesWithin
    <2>1. Types' /\ Quieter /\ Hears
      BY <1>5, TypesAgent, QuietSteps
    <2>2. (\A t \in Tasks : TurnInv(t)') /\ RoundInv' /\ TellInv'
      BY <2>1, TurnQuiet, RoundQuiet, TellHears
    <2>3. JobInv' /\ FollowInv' /\ LimitInv'
      BY <1>5, <2>1, JobSteps, LimitSteps
    <2> QED  BY <1>0, <2>1, <2>2, <2>3 DEF IInv
  <1>6. CASE UNCHANGED vars
    <2>1. UNCHANGED <<venue, nonces, parked, done, outbox, wire, answers, local, saved, seen,
                      artifacts, book, queue, jobs, torn, overtaken, racing>>
      BY <1>6 DEF vars, venueVars, netVars, fileVars, agentVars, history
    <2>2. Quieter /\ Hears
      BY <2>1 DEF Quieter, Hears
    <2>3. Types'
      BY <2>1 DEF Types, VenueTypes, AgentTypes
    <2>4. (\A t \in Tasks : TurnInv(t)') /\ RoundInv' /\ TellInv'
      BY <2>2, TurnQuiet, RoundQuiet, TellHears
    <2>5. JobInv' /\ FollowInv'
      BY <2>1, JobFrame, FollowFrame
    <2>6. LimitInv'
      BY <2>1 DEF LimitInv, Unresolved
    <2> QED  BY <1>0, <2>3, <2>4, <2>5, <2>6 DEF IInv
  <1> QED  BY <1>1, <1>2, <1>3, <1>4, <1>5, <1>6 DEF Next

\* The variables hold what the code keeps: notices, messages, handlers and statuses of
\* the tasks there are, and a handler of a reply is of the task it replies about
\* (handleRpc, sendRaw, process, ExposureBook)
THEOREM TypeCorrect == Spec => []Types
  <1>1. IInv => Types
    BY DEF IInv
  <1> QED  BY <1>1, IInvInit, IInvNext, PTL DEF Spec

\* However often a message is sent, and whatever the venue does while the first copy
\* is being handled, dying included, the venue acts on it once (sendRaw, ingest)
THEOREM ActedOnOnce == Spec => []HandledOnce
  <1>1. Intake => HandledOnce
    BY DEF Intake, HandledOnce
  <1> QED  BY <1>1, IntakeInit, IntakeNext, PTL DEF Spec

\* While notices come in order, the exposure book counts the loads the agent holds
\* to be committed, each once, but for those with a notice seen and lost; and what
\* the agent takes for open and the venue has ended it can still learn, by a pull or
\* from its queue (noteStatus, handleRpc, reconcile, ExposureBook)
THEOREM BookIsRight == Spec => []BookIsTrue
  <1>1. IInv => BookFollowsStatus
    <2> SUFFICES ASSUME IInv, ~overtaken PROVE BookFollowsStatus
      BY DEF BookFollowsStatus
    <2>1. \A t \in Tasks \ torn : local[t] = "COMMITTED" <=> t \in book.added \ book.released
      BY DEF IInv, FollowInv, Acted
    <2>2. book.added \subseteq Tasks
      BY DEF IInv, Types, AgentTypes, Books
    <2>3. torn = {} => book.outstanding = Cardinality(book.added \ book.released)
      BY DEF IInv, FollowInv
    <2>4. {t \in Tasks \ torn : local[t] = "COMMITTED"} = (book.added \ book.released) \ torn
      BY <2>1, <2>2
    <2> QED  BY <2>3, <2>4 DEF BookFollowsStatus
  <1>2. IInv => StillToLearn
    <2> SUFFICES ASSUME IInv, NEW t \in Tasks \ torn, local[t] = "OPEN", Terminal(t), ~overtaken,
                        StatusMessage(t) \in seen
                 PROVE  \E i \in DOMAIN queue : queue[i].task = t /\ queue[i].type \in Outcomes
      BY DEF StillToLearn
    <2>1. VenueTypes /\ Acted(t)
      BY DEF IInv, Types, FollowInv
    <2>2. StatusMessage(t) \in Tells /\ StatusMessage(t).task = t
          /\ StatusMessage(t) \in {C(t), R(t)}
      BY <2>1, StatusIs, StatusSays
    <2>3. StatusMessage(t) \in Elements(queue)
      <3>1. CASE StatusMessage(t) = C(t)
        BY <2>1, <3>1 DEF Acted
      <3>2. CASE StatusMessage(t) = R(t)
        BY <2>1, <3>2 DEF Acted, R
      <3> QED  BY <2>2, <3>1, <3>2
    <2> QED  BY <2>2, <2>3 DEF Elements, Tells
  <1> QED  BY <1>1, <1>2, IInvInit, IInvNext, PTL DEF Spec, BookIsTrue

\* The loads committed at the venue and not voided are within the mandate's limit, for
\* any limit, when notices come in order, none is lost and the agent has one
\* acceptance unresolved at a time (guard, accept, ExposureBook)
THEOREM LimitHolds == Spec => []CommittedWithinLimit
  <1>1. IInv => CommittedWithinLimit
    <2> SUFFICES ASSUME IInv, torn = {}, ~overtaken, ~racing
                 PROVE  Cardinality({t \in Tasks : venue[t].state = "completed" /\ ~venue[t].voided})
                           <= Limit
      BY DEF CommittedWithinLimit
    <2> DEFINE S == {t \in Tasks : venue[t].state = "completed" /\ ~venue[t].voided}
    <2>1. ASSUME NEW t \in S PROVE t \in Claimed
      <3>1. "me" \in venue[t].accepted
        BY DEF IInv, TellInv
      <3>2. t \in book.released => venue[t].voided
        BY Outcomeses DEF IInv, FollowInv, Booked, TellInv, Says
      <3> QED  BY <3>1, <3>2 DEF Claimed, Unresolved
    <2>2. S \subseteq Claimed /\ Claimed \subseteq Tasks /\ Cardinality(Claimed) <= Limit
      BY <2>1 DEF IInv, LimitInv, Claimed, Types, AgentTypes, Books, Unresolved
    <2> HIDE DEF S, Claimed
    <2>3. IsFiniteSet(Claimed)
      BY <2>2, AgentAssumption, FS_Subset
    <2>4. Cardinality(S) <= Cardinality(Claimed) /\ IsFiniteSet(S)
      BY <2>2, <2>3, FS_Subset
    <2>5. Cardinality(S) \in Nat /\ Cardinality(Claimed) \in Nat /\ Limit \in Nat
      BY <2>3, <2>4, FS_CardinalityType, AgentAssumption
    <2> QED  BY <2>2, <2>4, <2>5 DEF S
  <1> QED  BY <1>1, IInvInit, IInvNext, PTL DEF Spec

----------------------------------------------------------------------------
(* An agent's own key                                                      *)

OfKind(S, what) == {c \in S : c.what = what}
Calls == [what : {"onboard"}, n : {1, 2}, key : Nat \ {0}]
           \cup [what : {"rotate"}, n : Nat \ {0}, key : Nat \ {0}]
AgentFiles == [key : Nat \ {0}, next : Nat, cred : Nat]

OwnTypes ==
    /\ credential \in Nat /\ spent \in BOOLEAN /\ replayed \in BOOLEAN /\ again \in BOOLEAN
    /\ disk \in AgentFiles /\ mem \in AgentFiles
    /\ waiting \subseteq Calls /\ calls \subseteq Calls
    /\ replies \subseteq [call : Calls, cred : Nat]
    /\ generated \in Nat \ {0} /\ keyFaults \in Nat

\* The files are the memory, but for a next key that was not read back
FilesKept == disk.key = mem.key /\ disk.cred = mem.cred /\ mem.next \in {0, disk.next}

\* Until the proof is spent the agent has its first key and nothing else
BeforeProof ==
    ~spent => /\ credential = 0 /\ mem = Own!Files(1, 0, 0) /\ disk = mem
              /\ OfKind(waiting \cup calls, "rotate") = {}
              /\ \A c \in calls : c.key = 1
              /\ \A r \in replies : r.cred = 0

\* While nothing is lost there is one onboarding at a time, and it is spared once it
\* has led to a credential
OneAttempt ==
    keyFaults = 0 =>
        /\ OfKind(calls, "onboard") \subseteq waiting
        /\ \A v, w \in OfKind(waiting, "onboard") : v = w
        /\ \A r \in replies : r.call.what = "onboard" => r.call \in waiting \ calls
        /\ \A r, q \in replies : r.call.what = "onboard" /\ q.call.what = "onboard" => r = q
        /\ credential # 0 =>
              /\ OfKind(calls, "onboard") = {}
              /\ \/ mem.cred # 0
                 \/ \E r \in replies : r.call.what = "onboard" /\ r.cred # 0
        /\ replayed => spent /\ credential = 0

\* A key that was sent to the venue is in the files, and is the next one until it is
\* the agent's own
SentInHand ==
    /\ \A r \in replies : r.call.what = "rotate" => r.call.key <= generated
    /\ \A c \in OfKind(calls, "rotate") : c.key <= generated
    /\ mem.next <= generated
    /\ ~again =>
        /\ credential # 0 => credential \in {disk.key, disk.next}
        /\ \A c \in OfKind(calls, "rotate") : c.key \in {disk.key, disk.next}
        /\ \A c \in OfKind(waiting \cup calls, "rotate") : mem.next \in {0, c.key}
        /\ mem.next # 0 => \A r \in replies :
              r.call.what = "rotate" /\ r.cred # 0 /\ r.call.key = mem.next => credential = mem.next

OwnInv == OwnTypes /\ FilesKept /\ BeforeProof /\ OneAttempt /\ SentInHand

LEMMA CallFields ==
    ASSUME NEW c \in Calls
    PROVE  c.what \in {"onboard", "rotate"} /\ c.n \in Nat \ {0} /\ c.key \in Nat \ {0}
  BY DEF Calls

LEMMA OwnStarts == Own!Init => OwnInv
  <1> SUFFICES ASSUME Own!Init PROVE OwnInv
    OBVIOUS
  <1> USE DEF Own!Init, Own!Files
  <1>1. OwnTypes
    <2>1. /\ disk = [key |-> 1, next |-> 0, cred |-> 0] /\ mem = disk
          /\ credential = 0 /\ waiting = {} /\ calls = {} /\ replies = {}
          /\ generated = 1 /\ keyFaults = 0
      OBVIOUS
    <2>2. spent \in BOOLEAN /\ replayed \in BOOLEAN /\ again \in BOOLEAN
      OBVIOUS
    <2> HIDE DEF Own!Init, Own!Files
    <2> QED  BY <2>1, <2>2 DEF OwnTypes, AgentFiles
  <1>2. \A what \in {"onboard", "rotate"} :
            OfKind(calls, what) = {} /\ OfKind(waiting, what) = {} /\ OfKind(waiting \cup calls, what) = {}
    BY DEF OfKind
  <1>3. FilesKept /\ BeforeProof
    BY <1>2 DEF FilesKept, BeforeProof
  <1>4. OneAttempt /\ SentInHand
    BY <1>2 DEF OneAttempt, SentInHand
  <1> QED  BY <1>1, <1>3, <1>4 DEF OwnInv

LEMMA OnboardKeepsOwn ==
    ASSUME OwnInv, NEW n \in {1, 2}, Own!Onboard(n)
    PROVE  OwnInv'
  <1> DEFINE call == [what |-> "onboard", n |-> n, key |-> mem.key]
  <1>1. /\ Own!MayOnboard(n) /\ call \notin waiting
        /\ waiting' = waiting \cup {call} /\ calls' = calls \cup {call}
        /\ UNCHANGED <<credential, spent, disk, mem, replies, generated, keyFaults, replayed, again>>
    BY DEF Own!Onboard, Own!venueVars
  <1>2. call \in Calls /\ call.what = "onboard" /\ call.key = mem.key
    BY DEF OwnInv, OwnTypes, AgentFiles, Calls
  <1>3. /\ OfKind(calls', "rotate") = OfKind(calls, "rotate")
        /\ OfKind(waiting' \cup calls', "rotate") = OfKind(waiting \cup calls, "rotate")
    BY <1>1, <1>2 DEF OfKind
  <1> HIDE DEF call
  <1>4. OwnTypes' /\ FilesKept'
    BY <1>1, <1>2 DEF OwnInv, OwnTypes, FilesKept
  <1>5. BeforeProof'
    BY <1>1, <1>2, <1>3 DEF OwnInv, BeforeProof, Own!Files
  <1>6. SentInHand'
    BY <1>1, <1>3 DEF OwnInv, SentInHand
  <1>7. OneAttempt'
    <2>1. SUFFICES ASSUME keyFaults = 0 PROVE OneAttempt'
      BY <1>1 DEF OneAttempt
    <2>2. mem.cred = 0 /\ OfKind(waiting, "onboard") = {}
      BY <1>1 DEF Own!MayOnboard, OfKind
    <2>3. \A r \in replies : r.call.what # "onboard"
      BY <2>1, <2>2 DEF OwnInv, OneAttempt, OfKind
    <2>4. credential = 0
      BY <2>1, <2>2, <2>3 DEF OwnInv, OneAttempt
    <2> QED
      BY <1>1, <1>2, <2>1, <2>2, <2>3, <2>4 DEF OwnInv, OneAttempt, OfKind
  <1> QED  BY <1>4, <1>5, <1>6, <1>7 DEF OwnInv

LEMMA VenueOnboardsKeepsOwn ==
    ASSUME OwnInv, NEW c \in calls, Own!VenueOnboards(c)
    PROVE  OwnInv'
  <1>1. /\ c.what = "onboard" /\ calls' = calls \ {c}
        /\ \/ /\ ~spent /\ spent' = TRUE /\ credential' = c.key
              /\ replies' = replies \cup {[call |-> c, cred |-> c.key]}
              /\ replayed' = replayed
           \/ /\ ~spent /\ spent' = TRUE
              /\ replies' = replies \cup {[call |-> c, cred |-> 0]}
              /\ credential' = credential /\ replayed' = replayed
           \/ /\ replies' = replies \cup {[call |-> c, cred |-> 0]}
              /\ replayed' = (replayed \/ spent)
              /\ credential' = credential /\ spent' = spent
        /\ UNCHANGED <<disk, mem, waiting, generated, keyFaults, again>>
    BY DEF Own!VenueOnboards, Own!venueVars
  <1>2. c \in Calls /\ c.key \in Nat \ {0}
    BY CallFields DEF OwnInv, OwnTypes
  <1>3. PICK got \in Nat : /\ got \in {0, c.key}
                           /\ replies' = replies \cup {[call |-> c, cred |-> got]}
                           /\ \/ credential' = credential
                              \/ ~spent /\ spent' /\ credential' = c.key /\ got = c.key
                           /\ ~spent' => got = 0 /\ credential' = credential
    <2>1. CASE credential' = c.key /\ ~spent /\ replies' = replies \cup {[call |-> c, cred |-> c.key]}
      BY <1>1, <1>2, <2>1
    <2>2. CASE replies' = replies \cup {[call |-> c, cred |-> 0]} /\ credential' = credential
      BY <1>1, <1>2, <2>2
    <2> QED  BY <1>1, <2>1, <2>2
  <1> DEFINE r0 == [call |-> c, cred |-> got]
  <1>4. r0 \in [call : Calls, cred : Nat] /\ r0.call = c /\ r0.cred = got
    BY <1>2
  <1>5. replies' = replies \cup {r0}
    BY <1>3
  <1> HIDE DEF r0
  <1>6. /\ OfKind(calls', "rotate") = OfKind(calls, "rotate")
        /\ OfKind(waiting' \cup calls', "rotate") = OfKind(waiting \cup calls, "rotate")
        /\ OfKind(calls', "onboard") = OfKind(calls, "onboard") \ {c}
    BY <1>1 DEF OfKind
  <1>7. OwnTypes' /\ FilesKept'
    <2>1. spent' \in BOOLEAN /\ replayed' \in BOOLEAN
      BY <1>1 DEF OwnInv, OwnTypes
    <2>2. credential' \in Nat
      BY <1>1, <1>2 DEF OwnInv, OwnTypes
    <2> QED  BY <1>1, <1>2, <1>4, <1>5, <2>1, <2>2 DEF OwnInv, OwnTypes, FilesKept
  <1>8. BeforeProof'
    <2>1. SUFFICES ASSUME ~spent' PROVE BeforeProof'
      BY DEF BeforeProof
    <2>2. ~spent /\ got = 0 /\ credential' = credential
      BY <1>1, <1>3, <2>1
    <2> QED  BY <1>1, <1>4, <1>5, <1>6, <2>2 DEF OwnInv, BeforeProof, Own!Files
  <1>9. SentInHand'
    <2>1. credential' # credential => mem.next = 0 /\ credential' = disk.key
      BY <1>3 DEF OwnInv, BeforeProof, Own!Files
    <2>2. \A r \in replies' : r.call.what = "rotate" => r \in replies
      BY <1>1, <1>4, <1>5
    <2> QED  BY <1>1, <1>6, <2>1, <2>2 DEF OwnInv, SentInHand
  <1>10. OneAttempt'
    <2>1. SUFFICES ASSUME keyFaults = 0 PROVE OneAttempt'
      BY <1>1 DEF OneAttempt
    <2>2. c \in waiting /\ \A d \in OfKind(calls, "onboard") : d = c
      BY <1>1, <2>1 DEF OwnInv, OneAttempt, OfKind
    <2>3. \A r \in replies : r.call.what # "onboard"
      BY <1>1, <2>1, <2>2 DEF OwnInv, OneAttempt, OfKind
    <2>4. credential = 0
      BY <1>1, <2>1, <2>3 DEF OwnInv, OneAttempt, OfKind
    <2>5. OfKind(calls', "onboard") = {}
      BY <1>6, <2>2
    <2>6. r0 \in replies' /\ \A r \in replies' : r.call.what = "onboard" => r = r0
      BY <1>5, <2>3
    <2>7. credential' # 0 => got = c.key
      BY <1>3, <2>4
    <2>8. replayed' => spent' /\ credential' = 0
      BY <1>1, <1>3, <2>1, <2>4 DEF OwnInv, OneAttempt
    <2>9. r0.call \in waiting' \ calls'
      BY <1>1, <1>4, <2>2
    <2>10. credential' # 0 => \E r \in replies' : r.call.what = "onboard" /\ r.cred # 0
      BY <1>1, <1>2, <1>4, <2>6, <2>7
    <2>11. /\ \A v, w \in OfKind(waiting', "onboard") : v = w
           /\ OfKind(calls', "onboard") \subseteq waiting'
      BY <1>1, <2>1, <2>5 DEF OwnInv, OneAttempt
    <2> QED  BY <2>5, <2>6, <2>8, <2>9, <2>10, <2>11 DEF OneAttempt
  <1> QED  BY <1>7, <1>8, <1>9, <1>10 DEF OwnInv

LEMMA OnboardedKeepsOwn ==
    ASSUME OwnInv, NEW r \in replies, Own!Onboarded(r)
    PROVE  OwnInv'
  <1>1. /\ r.call \in waiting /\ r.call.what = "onboard"
        /\ waiting' = waiting \ {r.call} /\ replies' = replies \ {r}
        /\ UNCHANGED <<credential, spent, calls, generated, keyFaults, replayed, again>>
        /\ IF r.cred = 0 THEN mem' = mem /\ disk' = disk
           ELSE mem' = [mem EXCEPT !.cred = r.cred] /\ disk' = [disk EXCEPT !.cred = r.cred]
    BY DEF Own!Onboarded, Own!Took, Own!venueVars
  <1>2. r.cred \in Nat /\ disk \in AgentFiles /\ mem \in AgentFiles
    BY DEF OwnInv, OwnTypes
  <1>3. /\ disk' \in AgentFiles /\ mem' \in AgentFiles
        /\ mem'.key = mem.key /\ mem'.next = mem.next
        /\ disk'.key = disk.key /\ disk'.next = disk.next
        /\ r.cred = 0 => mem' = mem /\ disk' = disk
        /\ r.cred # 0 => mem'.cred = r.cred /\ disk'.cred = r.cred
    BY <1>1, <1>2 DEF AgentFiles
  <1>4. /\ OfKind(waiting' \cup calls', "rotate") = OfKind(waiting \cup calls, "rotate")
        /\ OfKind(waiting', "onboard") = OfKind(waiting, "onboard") \ {r.call}
        /\ OfKind(calls', "rotate") = OfKind(calls, "rotate")
    BY <1>1 DEF OfKind
  <1>5. OwnTypes' /\ FilesKept'
    <2>1. OwnTypes'
      BY <1>1, <1>3 DEF OwnInv, OwnTypes
    <2>2. FilesKept'
      BY <1>1, <1>3 DEF OwnInv, FilesKept
    <2> QED  BY <2>1, <2>2
  <1>6. BeforeProof'
    BY <1>1, <1>3, <1>4 DEF OwnInv, BeforeProof
  <1>7. SentInHand'
    BY <1>1, <1>3, <1>4 DEF OwnInv, SentInHand
  <1>8. OneAttempt'
    <2>1. SUFFICES ASSUME keyFaults = 0 PROVE OneAttempt'
      BY <1>1 DEF OneAttempt
    <2>2. \A q \in replies : q.call.what = "onboard" => q = r
      BY <1>1, <2>1 DEF OwnInv, OneAttempt
    <2>3. r.call \notin calls
      BY <1>1, <2>1 DEF OwnInv, OneAttempt
    <2>4. OfKind(calls', "onboard") \subseteq waiting'
      BY <1>1, <2>1, <2>3 DEF OwnInv, OneAttempt, OfKind
    <2>5. credential' # 0 => OfKind(calls', "onboard") = {} /\ mem'.cred # 0
      <3>1. credential # 0 => OfKind(calls, "onboard") = {} /\ (mem.cred # 0 \/ r.cred # 0)
        BY <2>1, <2>2 DEF OwnInv, OneAttempt
      <3> QED  BY <1>1, <1>3, <3>1
    <2>6. replayed' => spent' /\ credential' = 0
      BY <1>1, <2>1 DEF OwnInv, OneAttempt
    <2>7. \A q \in replies' : q.call.what # "onboard"
      BY <1>1, <2>2
    <2>8. \A v, w \in OfKind(waiting', "onboard") : v = w
      BY <1>4, <2>1 DEF OwnInv, OneAttempt
    <2> QED  BY <2>4, <2>5, <2>6, <2>7, <2>8 DEF OneAttempt
  <1> QED  BY <1>5, <1>6, <1>7, <1>8 DEF OwnInv

LEMMA PrepareKeepsOwn ==
    ASSUME OwnInv, Own!Prepare
    PROVE  OwnInv'
  <1>1. /\ mem.cred # 0 /\ generated' = generated + 1
        /\ mem' = [mem EXCEPT !.next = generated'] /\ disk' = [disk EXCEPT !.next = generated']
        /\ again' = (again \/ credential # mem.key \/ \E c \in waiting \cup calls : c.what = "rotate")
        /\ UNCHANGED <<credential, spent, waiting, calls, replies, keyFaults, replayed>>
    BY DEF Own!Prepare, Own!venueVars
  <1>2. disk \in AgentFiles /\ mem \in AgentFiles /\ generated \in Nat \ {0}
    BY DEF OwnInv, OwnTypes
  <1>3. /\ disk' \in AgentFiles /\ mem' \in AgentFiles
        /\ mem'.key = mem.key /\ mem'.cred = mem.cred /\ mem'.next = generated + 1
        /\ disk'.key = disk.key /\ disk'.cred = disk.cred /\ disk'.next = generated + 1
    BY <1>1, <1>2 DEF AgentFiles
  <1>4. again' \in BOOLEAN
    BY <1>1 DEF OwnInv, OwnTypes
  <1>5. OwnTypes' /\ FilesKept'
    BY <1>1, <1>2, <1>3, <1>4 DEF OwnInv, OwnTypes, FilesKept
  <1>6. BeforeProof' /\ OneAttempt'
    <2>1. spent
      BY <1>1 DEF OwnInv, BeforeProof, Own!Files
    <2>2. BeforeProof'
      BY <1>1, <2>1 DEF BeforeProof
    <2>3. OneAttempt'
      BY <1>1, <1>3 DEF OwnInv, OneAttempt
    <2> QED  BY <2>2, <2>3
  <1>7. SentInHand'
    <2>1. \A q \in replies : q.call.what = "rotate" => q.call.key <= generated /\ q.call.key \in Nat
      BY CallFields DEF OwnInv, OwnTypes, SentInHand
    <2>2. \A c \in OfKind(calls, "rotate") : c.key <= generated /\ c.key \in Nat
      BY CallFields DEF OwnInv, OwnTypes, SentInHand, OfKind
    <2>3. ~again' => /\ credential = mem.key /\ mem.key = disk.key
                     /\ OfKind(calls, "rotate") = {} /\ OfKind(waiting \cup calls, "rotate") = {}
      BY <1>1 DEF OwnInv, OfKind, FilesKept
    <2>4. \A q \in replies' : q.call.what = "rotate" => q.call.key <= generated' /\ q.call.key # mem'.next
      BY <1>1, <1>2, <1>3, <2>1
    <2>5. \A c \in OfKind(calls', "rotate") : c.key <= generated'
      BY <1>1, <1>2, <2>2
    <2>6. mem'.next <= generated'
      BY <1>1, <1>2, <1>3
    <2>7. ~again' => credential' \in {disk'.key, disk'.next}
      BY <1>1, <1>3, <2>3
    <2> QED  BY <1>1, <2>3, <2>4, <2>5, <2>6, <2>7 DEF SentInHand
  <1> QED  BY <1>5, <1>6, <1>7 DEF OwnInv

LEMMA SubmitKeepsOwn ==
    ASSUME OwnInv, Own!Submit
    PROVE  OwnInv'
  <1> DEFINE call == [what |-> "rotate", n |-> mem.cred, key |-> mem.next]
  <1>1. /\ mem.cred # 0 /\ mem.next # 0
        /\ waiting' = waiting \cup {call} /\ calls' = calls \cup {call}
        /\ UNCHANGED <<credential, spent, disk, mem, replies, generated, keyFaults, replayed, again>>
    BY DEF Own!Submit, Own!venueVars
  <1>2. call \in Calls /\ call.what = "rotate" /\ call.key = mem.next
    BY <1>1 DEF OwnInv, OwnTypes, AgentFiles, Calls
  <1> HIDE DEF call
  <1>3. /\ OfKind(calls', "rotate") = OfKind(calls, "rotate") \cup {call}
        /\ OfKind(waiting' \cup calls', "rotate") = OfKind(waiting \cup calls, "rotate") \cup {call}
        /\ OfKind(calls', "onboard") = OfKind(calls, "onboard")
        /\ OfKind(waiting', "onboard") = OfKind(waiting, "onboard")
    BY <1>1, <1>2 DEF OfKind
  <1>4. OwnTypes' /\ FilesKept'
    BY <1>1, <1>2 DEF OwnInv, OwnTypes, FilesKept
  <1>5. BeforeProof' /\ OneAttempt'
    <2>1. spent
      BY <1>1 DEF OwnInv, BeforeProof, Own!Files
    <2>2. BeforeProof'
      BY <1>1, <2>1 DEF BeforeProof
    <2>3. OneAttempt'
      <3>1. SUFFICES ASSUME keyFaults = 0 PROVE OneAttempt'
        BY <1>1 DEF OneAttempt
      <3>2. \A r \in replies' : r.call.what = "onboard" => r.call \in waiting' \ calls'
        BY <1>1, <1>2, <3>1 DEF OwnInv, OneAttempt
      <3> QED  BY <1>1, <1>3, <3>1, <3>2 DEF OwnInv, OneAttempt
    <2> QED  BY <2>2, <2>3
  <1>6. SentInHand'
    <2>1. mem.next \in {0, disk.next} /\ mem.next <= generated
      BY DEF OwnInv, FilesKept, SentInHand
    <2> QED  BY <1>1, <1>2, <1>3, <2>1 DEF OwnInv, SentInHand
  <1> QED  BY <1>4, <1>5, <1>6 DEF OwnInv

LEMMA VenueRotatesKeepsOwn ==
    ASSUME OwnInv, NEW c \in calls, Own!VenueRotates(c)
    PROVE  OwnInv'
  <1>1. /\ c.what = "rotate" /\ calls' = calls \ {c}
        /\ \/ /\ c.n = credential /\ credential' = c.key
              /\ replies' = replies \cup {[call |-> c, cred |-> c.key]}
           \/ /\ replies' = replies \cup {[call |-> c, cred |-> 0]}
              /\ credential' = credential
        /\ UNCHANGED <<spent, disk, mem, waiting, generated, keyFaults, replayed, again>>
    BY DEF Own!VenueRotates
  <1>2. c \in Calls /\ c.key \in Nat \ {0} /\ c.n \in Nat \ {0}
    BY CallFields DEF OwnInv, OwnTypes
  <1>3. PICK got \in Nat : /\ got \in {0, c.key}
                           /\ replies' = replies \cup {[call |-> c, cred |-> got]}
                           /\ \/ credential' = credential /\ got = 0
                              \/ c.n = credential /\ credential' = c.key
    BY <1>1, <1>2
  <1> DEFINE r0 == [call |-> c, cred |-> got]
  <1>4. r0 \in [call : Calls, cred : Nat] /\ r0.call = c /\ r0.cred = got
    BY <1>2
  <1>5. replies' = replies \cup {r0}
    BY <1>3
  <1> HIDE DEF r0
  <1>6. /\ OfKind(calls', "rotate") \subseteq OfKind(calls, "rotate")
        /\ OfKind(waiting' \cup calls', "rotate") \subseteq OfKind(waiting \cup calls, "rotate")
        /\ OfKind(calls', "onboard") = OfKind(calls, "onboard")
        /\ c \in OfKind(calls, "rotate") /\ c \in OfKind(waiting \cup calls, "rotate")
    BY <1>1 DEF OfKind
  <1>7. OwnTypes' /\ FilesKept'
    <2>1. credential' \in Nat
      BY <1>2, <1>3 DEF OwnInv, OwnTypes
    <2> QED  BY <1>1, <1>4, <1>5, <2>1 DEF OwnInv, OwnTypes, FilesKept
  <1>8. BeforeProof' /\ OneAttempt'
    <2>1. spent
      BY <1>6 DEF OwnInv, BeforeProof
    <2>2. BeforeProof'
      BY <1>1, <2>1 DEF BeforeProof
    <2>3. OneAttempt'
      <3>1. SUFFICES ASSUME keyFaults = 0 PROVE OneAttempt'
        BY <1>1 DEF OneAttempt
      <3>2. \A r \in replies' : r.call.what = "onboard" => r \in replies
        BY <1>1, <1>4, <1>5
      <3>3. credential' # 0 => credential # 0
        BY <1>2, <1>3
      <3>4. credential = 0 => credential' = 0
        BY <1>2, <1>3
      <3>5. \A r \in replies' : r.call.what = "onboard" => r.call \in waiting' \ calls'
        BY <1>1, <3>1, <3>2 DEF OwnInv, OneAttempt
      <3>6. \A r, q \in replies' : r.call.what = "onboard" /\ q.call.what = "onboard" => r = q
        BY <3>1, <3>2 DEF OwnInv, OneAttempt
      <3>7. credential' # 0 => /\ OfKind(calls', "onboard") = {}
                               /\ \/ mem'.cred # 0
                                  \/ \E r \in replies' : r.call.what = "onboard" /\ r.cred # 0
        BY <1>1, <1>5, <1>6, <3>1, <3>3 DEF OwnInv, OneAttempt
      <3> QED  BY <1>1, <1>6, <3>1, <3>4, <3>5, <3>6, <3>7 DEF OwnInv, OneAttempt
    <2> QED  BY <2>2, <2>3
  <1>9. SentInHand'
    <2>1. c.key <= generated /\ \A r \in replies' : r.call.what = "rotate" => r.call.key <= generated
      BY <1>4, <1>5, <1>6 DEF OwnInv, SentInHand
    <2>2. ~again /\ credential' # 0 => credential' \in {disk.key, disk.next}
      BY <1>3, <1>6 DEF OwnInv, SentInHand
    <2>3. ~again /\ mem.next # 0 => mem.next = c.key
      BY <1>6 DEF OwnInv, SentInHand
    <2>4. ~again /\ mem.next # 0 => \A r \in replies' :
              r.call.what = "rotate" /\ r.cred # 0 /\ r.call.key = mem.next => credential' = mem.next
      BY <1>3, <1>4, <1>5, <2>3 DEF OwnInv, SentInHand
    <2> QED  BY <1>1, <1>6, <2>1, <2>2, <2>4 DEF OwnInv, SentInHand
  <1> QED  BY <1>7, <1>8, <1>9 DEF OwnInv

\* The next key is the one the answer is about, and the agent's at the venue
LEMMA AnswerIsOfNext ==
    ASSUME OwnInv, NEW r \in replies, r.call \in waiting, r.call.what = "rotate",
           r.cred # 0, mem.next # 0, ~again
    PROVE  credential = mem.next
  <1>1. r.call \in OfKind(waiting \cup calls, "rotate")
    BY DEF OfKind
  <1>2. mem.next = r.call.key
    BY <1>1 DEF OwnInv, SentInHand
  <1> QED  BY <1>2 DEF OwnInv, SentInHand

LEMMA RotatedKeepsOwn ==
    ASSUME OwnInv, NEW r \in replies, Own!Rotated(r)
    PROVE  OwnInv'
  <1>1. /\ r.call \in waiting /\ r.call.what = "rotate"
        /\ waiting' = waiting \ {r.call} /\ replies' = replies \ {r}
        /\ UNCHANGED <<credential, spent, calls, generated, keyFaults, replayed, again>>
        /\ IF r.cred = 0 \/ mem.next = 0 THEN mem' = mem /\ disk' = disk
           ELSE mem' = Own!Files(mem.next, 0, r.cred) /\ disk' = mem'
    BY DEF Own!Rotated, Own!Took, Own!venueVars
  <1>2. r.cred \in Nat /\ disk \in AgentFiles /\ mem \in AgentFiles /\ generated \in Nat \ {0}
    BY DEF OwnInv, OwnTypes
  <1>3. /\ disk' \in AgentFiles /\ mem' \in AgentFiles
        /\ mem'.next \in {0, mem.next}
        /\ mem.cred # 0 => mem'.cred # 0
        /\ \/ mem' = mem /\ disk' = disk
           \/ /\ r.cred # 0 /\ mem.next # 0 /\ disk' = mem'
              /\ mem'.next = 0 /\ disk'.key = mem.next
    BY <1>1, <1>2 DEF AgentFiles, Own!Files
  <1>4. /\ OfKind(waiting' \cup calls', "rotate") \subseteq OfKind(waiting \cup calls, "rotate")
        /\ OfKind(waiting', "onboard") = OfKind(waiting, "onboard")
        /\ r.call \in OfKind(waiting \cup calls, "rotate")
    BY <1>1 DEF OfKind
  <1>5. OwnTypes' /\ FilesKept'
    <2>1. OwnTypes'
      BY <1>1, <1>3 DEF OwnInv, OwnTypes
    <2>2. FilesKept'
      BY <1>1, <1>3 DEF OwnInv, FilesKept
    <2> QED  BY <2>1, <2>2
  <1>6. BeforeProof' /\ OneAttempt'
    <2>1. spent
      BY <1>4 DEF OwnInv, BeforeProof
    <2>2. BeforeProof'
      BY <1>1, <2>1 DEF BeforeProof
    <2>3. OneAttempt'
      <3>1. SUFFICES ASSUME keyFaults = 0 PROVE OneAttempt'
        BY <1>1 DEF OneAttempt
      <3>2. \A q \in replies : q.call.what = "onboard" => q \in replies'
        BY <1>1
      <3>3. \A q \in replies' : q.call.what = "onboard" => q.call \in waiting' \ calls'
        BY <1>1, <3>1 DEF OwnInv, OneAttempt
      <3>4. OfKind(calls', "onboard") \subseteq waiting'
        BY <1>1, <3>1 DEF OwnInv, OneAttempt, OfKind
      <3>5. credential' # 0 => /\ OfKind(calls', "onboard") = {}
                               /\ \/ mem'.cred # 0
                                  \/ \E q \in replies' : q.call.what = "onboard" /\ q.cred # 0
        BY <1>1, <1>3, <3>1, <3>2 DEF OwnInv, OneAttempt
      <3>6. \A q, p \in replies' : q.call.what = "onboard" /\ p.call.what = "onboard" => q = p
        BY <1>1, <3>1 DEF OwnInv, OneAttempt
      <3> QED  BY <1>1, <1>4, <3>1, <3>3, <3>4, <3>5, <3>6 DEF OwnInv, OneAttempt
    <2> QED  BY <2>2, <2>3
  <1>7. SentInHand'
    <2>1. CASE mem' = mem /\ disk' = disk
      BY <1>1, <1>4, <2>1 DEF OwnInv, SentInHand
    <2>2. CASE r.cred # 0 /\ mem.next # 0 /\ mem'.next = 0 /\ disk'.key = mem.next
      <3>1. ~again => credential = mem.next
        BY <1>1, <2>2, AnswerIsOfNext
      <3>2. ~again => \A c \in OfKind(calls, "rotate") : c.key = mem.next
        BY <2>2 DEF OwnInv, SentInHand, OfKind
      <3>3. 0 <= generated
        BY <1>2
      <3> QED  BY <1>1, <1>4, <2>2, <3>1, <3>2, <3>3 DEF OwnInv, SentInHand
    <2> QED  BY <1>3, <2>1, <2>2
  <1> QED  BY <1>5, <1>6, <1>7 DEF OwnInv

LEMMA DropsKeepsOwn ==
    ASSUME OwnInv, NEW w \in waiting, Own!Drops(w)
    PROVE  OwnInv'
  <1>1. /\ waiting' = waiting \ {w} /\ replies' \subseteq replies
        /\ calls' \subseteq calls /\ keyFaults' = keyFaults + 1
        /\ UNCHANGED <<credential, spent, disk, mem, generated, replayed, again>>
    BY DEF Own!Drops, Own!Fault, Own!venueVars
  <1>2. keyFaults' \in Nat /\ keyFaults' # 0
    BY <1>1 DEF OwnInv, OwnTypes
  <1>3. /\ OfKind(waiting' \cup calls', "rotate") \subseteq OfKind(waiting \cup calls, "rotate")
        /\ OfKind(calls', "rotate") \subseteq OfKind(calls, "rotate")
    BY <1>1 DEF OfKind
  <1>4. OwnTypes' /\ FilesKept'
    BY <1>1, <1>2 DEF OwnInv, OwnTypes, FilesKept
  <1>5. BeforeProof' /\ OneAttempt'
    BY <1>1, <1>2, <1>3 DEF OwnInv, BeforeProof, OneAttempt
  <1>6. SentInHand'
    BY <1>1, <1>3 DEF OwnInv, SentInHand
  <1> QED  BY <1>4, <1>5, <1>6 DEF OwnInv

LEMMA UnheardKeepsOwn ==
    ASSUME OwnInv, NEW r \in replies, Own!Unheard(r)
    PROVE  OwnInv'
  <1>1. /\ r.call \notin waiting /\ replies' = replies \ {r}
        /\ UNCHANGED <<credential, spent, disk, mem, waiting, calls, generated, keyFaults, replayed, again>>
    BY DEF Own!Unheard, Own!venueVars
  <1>2. OwnTypes' /\ FilesKept' /\ BeforeProof'
    BY <1>1 DEF OwnInv, OwnTypes, FilesKept, BeforeProof
  <1>3. OneAttempt'
    <2>1. SUFFICES ASSUME keyFaults = 0 PROVE OneAttempt'
      BY <1>1 DEF OneAttempt
    <2>2. \A q \in replies : q.call.what = "onboard" => q \in replies'
      BY <1>1, <2>1 DEF OwnInv, OneAttempt
    <2> QED  BY <1>1, <2>1, <2>2 DEF OwnInv, OneAttempt
  <1>4. SentInHand'
    BY <1>1 DEF OwnInv, SentInHand
  <1> QED  BY <1>2, <1>3, <1>4 DEF OwnInv

LEMMA DiesKeepsOwn ==
    ASSUME OwnInv, Own!Dies
    PROVE  OwnInv'
  <1>1. PICK files :
          /\ Own!Restart(files)
          /\ \/ files = disk
             \/ \E r \in replies :
                   /\ r.call \in waiting /\ r.call.what = "rotate" /\ r.cred # 0 /\ mem.next # 0
                   /\ files \in Own!CutShort(r.cred)
    BY DEF Own!Dies
  <1>2. /\ disk' = files /\ mem' = [files EXCEPT !.next = 0] /\ waiting' = {}
        /\ keyFaults' = keyFaults + 1
        /\ UNCHANGED <<credential, spent, calls, replies, generated, replayed, again>>
    BY <1>1 DEF Own!Restart, Own!Fault, Own!venueVars
  <1>3. disk \in AgentFiles /\ mem \in AgentFiles /\ generated \in Nat \ {0}
    BY DEF OwnInv, OwnTypes
  <1>4. /\ files \in AgentFiles
        /\ \/ files = disk
           \/ /\ mem.next # 0 /\ files.key = mem.next
              /\ ~again => credential = mem.next
              /\ spent
    <2>1. CASE files = disk
      BY <1>3, <2>1
    <2>2. CASE \E r \in replies :
                  /\ r.call \in waiting /\ r.call.what = "rotate" /\ r.cred # 0 /\ mem.next # 0
                  /\ files \in Own!CutShort(r.cred)
      <3>1. PICK r \in replies :
                  /\ r.call \in waiting /\ r.call.what = "rotate" /\ r.cred # 0 /\ mem.next # 0
                  /\ files \in Own!CutShort(r.cred)
        BY <2>2
      <3>2. ~again => credential = mem.next
        BY <3>1, AnswerIsOfNext
      <3>3. r.cred \in Nat /\ mem.cred \in Nat /\ mem.next \in Nat \ {0} /\ disk.next \in Nat
        BY <1>3, <3>1 DEF OwnInv, OwnTypes, AgentFiles
      <3>4. files \in AgentFiles /\ files.key = mem.next
        BY <3>1, <3>3 DEF Own!CutShort, Own!Files, AgentFiles
      <3>5. r.call \in OfKind(waiting \cup calls, "rotate")
        BY <3>1 DEF OfKind
      <3>6. spent
        BY <3>5 DEF OwnInv, BeforeProof
      <3> QED  BY <3>1, <3>2, <3>4, <3>6
    <2> QED  BY <1>1, <2>1, <2>2
  <1>5. mem' \in AgentFiles /\ mem'.key = files.key /\ mem'.cred = files.cred /\ mem'.next = 0
    BY <1>2, <1>4 DEF AgentFiles
  <1>6. keyFaults' \in Nat /\ keyFaults' # 0
    BY <1>2 DEF OwnInv, OwnTypes
  <1>7. /\ OfKind(waiting' \cup calls', "rotate") \subseteq OfKind(waiting \cup calls, "rotate")
        /\ OfKind(calls', "rotate") = OfKind(calls, "rotate")
    BY <1>2 DEF OfKind
  <1>8. OwnTypes' /\ FilesKept'
    BY <1>2, <1>4, <1>5, <1>6 DEF OwnInv, OwnTypes, FilesKept
  <1>9. OneAttempt'
    BY <1>6 DEF OneAttempt
  <1>10. BeforeProof'
    <2>1. SUFFICES ASSUME ~spent PROVE BeforeProof'
      BY <1>2 DEF BeforeProof
    <2>2. files = disk /\ disk = Own!Files(1, 0, 0)
      BY <1>4, <2>1 DEF OwnInv, BeforeProof
    <2>3. mem' = Own!Files(1, 0, 0) /\ disk' = mem'
      BY <1>2, <2>2 DEF Own!Files
    <2> QED  BY <1>2, <1>7, <2>1, <2>3 DEF OwnInv, BeforeProof
  <1>11. SentInHand'
    <2>1. \A c \in OfKind(calls, "rotate") : ~again /\ mem.next # 0 => c.key = mem.next
      BY DEF OwnInv, SentInHand, OfKind
    <2>2. 0 <= generated
      BY <1>3
    <2>3. ~again /\ credential # 0 => credential \in {disk'.key, disk'.next}
      BY <1>2, <1>4 DEF OwnInv, SentInHand
    <2>4. ~again => \A c \in OfKind(calls, "rotate") : c.key \in {disk'.key, disk'.next}
      BY <1>2, <1>4, <2>1 DEF OwnInv, SentInHand
    <2> QED  BY <1>2, <1>5, <1>7, <2>2, <2>3, <2>4 DEF OwnInv, SentInHand
  <1> QED  BY <1>8, <1>9, <1>10, <1>11 DEF OwnInv

LEMMA OwnStep ==
    ASSUME OwnInv, [Own!Next]_own
    PROVE  OwnInv'
  <1>1. CASE Own!Next
    BY <1>1, OnboardKeepsOwn, VenueOnboardsKeepsOwn, OnboardedKeepsOwn, PrepareKeepsOwn,
       SubmitKeepsOwn, VenueRotatesKeepsOwn, RotatedKeepsOwn, DropsKeepsOwn,
       UnheardKeepsOwn, DiesKeepsOwn DEF Own!Next
  <1>2. CASE UNCHANGED own
    BY <1>2 DEF own, OwnInv, OwnTypes, FilesKept, BeforeProof, OneAttempt, SentInHand
  <1> QED  BY <1>1, <1>2

LEMMA OwnKept == OwnInv => Own!KeepsItsIdentity
  BY DEF OwnInv, OneAttempt, SentInHand, Own!KeepsItsIdentity, Own!ProofNotWasted, Own!KeyInHand

----------------------------------------------------------------------------
(* An agent that follows the venue's keys                                  *)

Certified == [key : Nat, by : Nat, at : Nat]
Revoked == [key : Nat, by : Nat, at : Nat, since : Nat]
Histories == [log : Seq(Nat), certs : SUBSET Certified, revs : SUBSET Revoked]
Resolvers == [root : Nat, log : Seq(Nat), certs : SUBSET Certified, revs : SUBSET Revoked]

\* A later history has what an earlier one has
Below(h, g) ==
    /\ Len(h.log) <= Len(g.log) /\ \A i \in 1 .. Len(h.log) : h.log[i] = g.log[i]
    /\ h.certs \subseteq g.certs /\ h.revs \subseteq g.revs

\* A root of the log made each statement; the key in use is the last one and has no
\* revocation, another one has at most one
HistoryFits(h) ==
    /\ h \in Histories
    /\ Len(h.log) >= 1 /\ \A i \in 1 .. Len(h.log) : h.log[i] <= Pin!Never
    /\ \A s \in h.certs : s.by \in 1 .. Len(h.log)
    /\ \A s \in h.revs : s.by \in 1 .. Len(h.log)
    /\ \E c \in h.certs : /\ \A d \in h.certs : d.key <= c.key
                          /\ \A v \in h.revs : v.key < c.key
    /\ \A v, w \in h.revs : v.key = w.key => v = w

PublishedFits ==
    /\ published \in Seq(Histories) /\ Len(published) >= 1
    /\ \A n \in 1 .. Len(published) : HistoryFits(published[n])
    /\ \A n, m \in 1 .. Len(published) : n <= m => Below(published[n], published[m])

\* What the agent knows is what was published, up to the last answer it took in
KnowsHeard ==
    /\ keys \in Resolvers
    /\ keys.root \in 1 .. Len(keys.log) /\ pinned = Len(keys.log)
    /\ \E n \in 1 .. Len(published) : keys.log = published[n].log
    /\ heard = {} => \A n \in asked : Len(keys.log) <= Len(published[n].log)
    /\ heard # {} => /\ \E n \in heard : Len(published[n].log) = Len(keys.log)
                     /\ \E n \in heard : \A m \in heard : m <= n
    /\ \A n \in heard :
          /\ Len(published[n].log) <= Len(keys.log)
          /\ published[n].certs \subseteq keys.certs
          /\ \A v \in published[n].revs : Pin!Trusted(v, keys.log) => v \in keys.revs

PinInv ==
    /\ PublishedFits
    /\ pinned \in 0 .. Len(Pin!Latest.log)
    /\ asked \subseteq 1 .. Len(published) /\ heard \subseteq 1 .. Len(published)
    /\ keys = Pin!None => asked = {} /\ heard = {}
    /\ keys # Pin!None => KnowsHeard

\* A root that is trusted as the log goes on was trusted before
LEMMA TrustFades ==
    ASSUME NEW s, s.by \in Nat, s.at \in Nat,
           NEW log \in Seq(Nat), NEW more \in Seq(Nat), Len(log) <= Len(more),
           \A i \in 1 .. Len(log) : log[i] = more[i],
           \A i \in 1 .. Len(more) : more[i] <= Pin!Never,
           Pin!Trusted(s, more)
    PROVE  Pin!Trusted(s, log)
  <1>1. Pin!Never \in Nat
    BY EventsAssumption DEF Pin!Never
  <1>2. CASE s.by < Len(log)
    <2>1. s.by + 1 \in 1 .. Len(log) /\ s.by < Len(more)
      BY <1>2, SMTT(60)
    <2> QED  BY <1>2, <2>1 DEF Pin!Trusted, Pin!UntrustedFrom
  <1>3. CASE ~(s.by < Len(log)) /\ s.by < Len(more)
    <2>1. s.by + 1 \in 1 .. Len(more)
      BY <1>3
    <2>2. more[s.by + 1] <= Pin!Never /\ more[s.by + 1] \in Nat
      BY <2>1, SMTT(60)
    <2>3. s.at < more[s.by + 1]
      BY <1>3 DEF Pin!Trusted, Pin!UntrustedFrom
    <2>4. s.at < Pin!Never
      BY <1>1, <2>2, <2>3, SMTT(60)
    <2> QED  BY <1>3, <2>4 DEF Pin!Trusted, Pin!UntrustedFrom
  <1>4. CASE ~(s.by < Len(log)) /\ ~(s.by < Len(more))
    BY <1>4 DEF Pin!Trusted, Pin!UntrustedFrom
  <1> QED  BY <1>2, <1>3, <1>4

LEMMA ActiveIsTop ==
    ASSUME NEW h, HistoryFits(h)
    PROVE  /\ Pin!ActiveKey(h) \in Nat
           /\ \A d \in h.certs : d.key <= Pin!ActiveKey(h)
           /\ \A v \in h.revs : v.key < Pin!ActiveKey(h)
  <1>1. PICK c \in h.certs : /\ \A d \in h.certs : d.key <= c.key
                             /\ \A v \in h.revs : v.key < c.key
    BY DEF HistoryFits
  <1>2. \A d \in h.certs : d.key \in Nat
    BY DEF HistoryFits, Histories, Certified
  <1>3. \E k \in {d.key : d \in h.certs} : \A d \in h.certs : d.key <= k
    BY <1>1
  <1>4. /\ Pin!ActiveKey(h) \in {d.key : d \in h.certs}
        /\ \A d \in h.certs : d.key <= Pin!ActiveKey(h)
    BY <1>3 DEF Pin!ActiveKey
  <1>5. Pin!ActiveKey(h) = c.key
    <2>1. Pin!ActiveKey(h) \in Nat /\ c.key \in Nat
      BY <1>2, <1>4
    <2>2. Pin!ActiveKey(h) <= c.key /\ c.key <= Pin!ActiveKey(h)
      BY <1>1, <1>4
    <2> QED  BY <2>1, <2>2
  <1> QED  BY <1>1, <1>2, <1>5

LEMMA PublishKeeps ==
    ASSUME PublishedFits, NEW h, HistoryFits(h), Below(Pin!Latest, h),
           published' = Append(published, h)
    PROVE  /\ PublishedFits'
           /\ Len(published') = Len(published) + 1 /\ Pin!Latest' = h
           /\ \A n \in 1 .. Len(published) : published'[n] = published[n]
  <1>1. published \in Seq(Histories) /\ Len(published) \in Nat \ {0} /\ h \in Histories
    BY DEF PublishedFits, HistoryFits
  <1>2. /\ published' \in Seq(Histories) /\ Len(published') = Len(published) + 1
        /\ \A n \in 1 .. Len(published) : published'[n] = published[n]
        /\ published'[Len(published) + 1] = h
    BY <1>1, AppendProperties
  <1>3. \A n \in 1 .. Len(published') : HistoryFits(published'[n])
    BY <1>1, <1>2 DEF PublishedFits
  <1>4. ASSUME NEW n \in 1 .. Len(published'), NEW m \in 1 .. Len(published'), n <= m
        PROVE  Below(published'[n], published'[m])
    <2>1. CASE m \in 1 .. Len(published)
      BY <1>1, <1>2, <1>4, <2>1 DEF PublishedFits
    <2>2. CASE n = Len(published) + 1
      <3>1. published'[n] = h /\ published'[m] = h
        BY <1>1, <1>2, <1>4, <2>2
      <3>2. h.log \in Seq(Nat)
        BY <1>1 DEF Histories
      <3> QED  BY <3>1, <3>2 DEF Below
    <2>3. CASE m = Len(published) + 1 /\ n \in 1 .. Len(published)
      <3>1. Below(published[n], published[Len(published)])
        BY <1>1, <2>3 DEF PublishedFits
      <3>2. Below(published[Len(published)], h)
        BY DEF Pin!Latest
      <3>3. published[n] \in Histories /\ published[Len(published)] \in Histories
        BY <1>1, <2>3
      <3>4. Below(published[n], h)
        BY <1>1, <3>1, <3>2, <3>3, SMTT(60) DEF Below, Histories
      <3> QED  BY <1>2, <2>3, <3>4
    <2> QED  BY <1>1, <1>2, <2>1, <2>2, <2>3
  <1>5. Pin!Latest' = h
    BY <1>2 DEF Pin!Latest
  <1> QED  BY <1>1, <1>2, <1>3, <1>4, <1>5 DEF PublishedFits

LEMMA LatestFits ==
    ASSUME PublishedFits
    PROVE  /\ Pin!Latest = published[Len(published)] /\ HistoryFits(Pin!Latest)
           /\ Len(published) \in 1 .. Len(published)
           /\ \A n \in 1 .. Len(published) : Below(published[n], Pin!Latest)
  <1>1. Len(published) \in Nat \ {0}
    BY DEF PublishedFits
  <1> QED  BY <1>1 DEF PublishedFits, Pin!Latest

LEMMA RotateKeyFits ==
    ASSUME PublishedFits, NEW since \in Nat, Pin!RotateKey(since)
    PROVE  \E h : HistoryFits(h) /\ Below(Pin!Latest, h) /\ published' = Append(published, h)
  <1>1. PICK g : g = Pin!Latest
    OBVIOUS
  <1>2. HistoryFits(g) /\ g \in Histories
    BY <1>1, LatestFits DEF HistoryFits
  <1>3. PICK k : k = Pin!ActiveKey(g)
    OBVIOUS
  <1>4. /\ k \in Nat /\ \A d \in g.certs : d.key <= k /\ d.key \in Nat
        /\ \A v \in g.revs : v.key < k /\ v.key \in Nat
    BY <1>2, <1>3, ActiveIsTop DEF Histories, Certified, Revoked
  <1>5. PICK now \in Nat : now = Len(published) + 1
    BY DEF PublishedFits
  <1>6. PICK root : root = Len(g.log)
    OBVIOUS
  <1>7. root \in Nat /\ root \in 1 .. Len(g.log)
    BY <1>2, <1>6 DEF HistoryFits, Histories
  <1>8. PICK c : c = [key |-> k + 1, by |-> root, at |-> now]
    OBVIOUS
  <1>9. PICK v : v = [key |-> k, by |-> root, at |-> now, since |-> since]
    OBVIOUS
  <1>10. PICK h : h = [g EXCEPT !.certs = @ \cup {c}, !.revs = @ \cup {v}]
    OBVIOUS
  <1>11. published' = Append(published, h)
    BY <1>1, <1>3, <1>5, <1>6, <1>8, <1>9, <1>10 DEF Pin!RotateKey, Pin!Publish
  <1>12. c \in Certified /\ v \in Revoked /\ c.key = k + 1 /\ v.key = k /\ c.by = root /\ v.by = root
    BY <1>4, <1>5, <1>7, <1>8, <1>9 DEF Certified, Revoked
  <1>13. /\ h \in Histories /\ h.log = g.log /\ h.certs = g.certs \cup {c} /\ h.revs = g.revs \cup {v}
    BY <1>2, <1>10, <1>12 DEF Histories
  <1>14. /\ \A d \in h.certs : d.key <= c.key
         /\ \A w \in h.revs : w.key < c.key
    BY <1>4, <1>12, <1>13
  <1>15. \A w, x \in h.revs : w.key = x.key => w = x
    BY <1>2, <1>4, <1>12, <1>13 DEF HistoryFits
  <1>16. HistoryFits(h)
    BY <1>2, <1>7, <1>12, <1>13, <1>14, <1>15 DEF HistoryFits
  <1>17. Below(g, h)
    BY <1>2, <1>13 DEF Below, Histories
  <1> QED  BY <1>1, <1>11, <1>16, <1>17

LEMMA RotateRootFits ==
    ASSUME PublishedFits, NEW since \in Nat, since <= Pin!Never, Pin!RotateRoot(since)
    PROVE  \E h : HistoryFits(h) /\ Below(Pin!Latest, h) /\ published' = Append(published, h)
  <1>1. PICK g : g = Pin!Latest
    OBVIOUS
  <1>2. HistoryFits(g) /\ g \in Histories /\ g.log \in Seq(Nat)
    BY <1>1, LatestFits DEF HistoryFits, Histories
  <1>3. PICK k : k = Pin!ActiveKey(g)
    OBVIOUS
  <1>4. k \in Nat /\ (\A d \in g.certs : d.key <= k) /\ \A v \in g.revs : v.key < k
    BY <1>2, <1>3, ActiveIsTop
  <1>5. PICK now \in Nat : now = Len(published) + 1
    BY DEF PublishedFits
  <1>6. PICK root : root = Len(g.log) + 1
    OBVIOUS
  <1>7. root \in Nat /\ root >= 1
    BY <1>2, <1>6
  <1>8. PICK c : c = [key |-> k, by |-> root, at |-> now]
    OBVIOUS
  <1>9. PICK new : new = IF since = Pin!Never THEN {} ELSE {c}
    OBVIOUS
  <1>10. PICK h : h = [g EXCEPT !.log = Append(@, since), !.certs = @ \cup new]
    OBVIOUS
  <1>11. published' = Append(published, h)
    BY <1>1, <1>3, <1>5, <1>6, <1>8, <1>9, <1>10 DEF Pin!RotateRoot, Pin!Publish
  <1>12. c \in Certified /\ c.key = k /\ c.by = root /\ new \subseteq {c}
    BY <1>4, <1>5, <1>7, <1>8, <1>9 DEF Certified
  <1>13. /\ Append(g.log, since) \in Seq(Nat) /\ Len(Append(g.log, since)) = root
         /\ \A i \in 1 .. Len(g.log) : Append(g.log, since)[i] = g.log[i]
         /\ Append(g.log, since)[root] = since
    BY <1>2, <1>6, AppendProperties
  <1>14. /\ h \in Histories /\ h.log = Append(g.log, since)
         /\ h.certs = g.certs \cup new /\ h.revs = g.revs
    BY <1>2, <1>10, <1>12, <1>13 DEF Histories
  <1>15. \A i \in 1 .. Len(h.log) : h.log[i] <= Pin!Never
    BY <1>2, <1>6, <1>13, <1>14 DEF HistoryFits
  <1>16. /\ \A s \in h.certs : s.by \in 1 .. Len(h.log)
         /\ \A s \in h.revs : s.by \in 1 .. Len(h.log)
    <2>1. \A i \in 1 .. Len(g.log) : i \in 1 .. Len(h.log)
      BY <1>2, <1>6, <1>13, <1>14
    <2> QED  BY <1>2, <1>7, <1>12, <1>13, <1>14, <2>1 DEF HistoryFits
  <1>17. \E d \in h.certs : /\ \A e \in h.certs : e.key <= d.key
                            /\ \A v \in h.revs : v.key < d.key
    <2>1. PICK d \in g.certs : /\ \A e \in g.certs : e.key <= d.key
                               /\ \A v \in g.revs : v.key < d.key
      BY <1>2 DEF HistoryFits
    <2>2. d.key = k
      <3>1. d.key \in Nat /\ d.key <= k
        BY <1>2, <1>4 DEF Histories, Certified
      <3>2. k \in {e.key : e \in g.certs}
        BY <1>3, <2>1 DEF Pin!ActiveKey
      <3> QED  BY <1>4, <2>1, <3>1, <3>2
    <2> QED  BY <1>4, <1>12, <1>14, <2>1, <2>2
  <1>18. HistoryFits(h)
    BY <1>2, <1>7, <1>13, <1>14, <1>15, <1>16, <1>17 DEF HistoryFits
  <1>19. Below(g, h)
    BY <1>2, <1>6, <1>13, <1>14 DEF Below
  <1> QED  BY <1>1, <1>11, <1>18, <1>19

LEMMA PinStarts == Pin!Init => PinInv
  <1> SUFFICES ASSUME Pin!Init PROVE PinInv
    OBVIOUS
  <1>1. PICK c : c = [key |-> 1, by |-> 1, at |-> 1]
    OBVIOUS
  <1>2. PICK h : h = [log |-> <<Pin!Never>>, certs |-> {c}, revs |-> {}]
    OBVIOUS
  <1>3. published = <<h>> /\ pinned = 0 /\ keys = Pin!None /\ asked = {} /\ heard = {}
    BY <1>1, <1>2 DEF Pin!Init
  <1>4. Pin!Never \in Nat
    BY EventsAssumption DEF Pin!Never
  <1>5. c \in Certified /\ c.by = 1 /\ c.key = 1
    BY <1>1 DEF Certified
  <1>6. PICK log : log = <<Pin!Never>>
    OBVIOUS
  <1>7. log \in Seq(Nat) /\ Len(log) = 1 /\ \A i \in 1 .. Len(log) : log[i] = Pin!Never
    BY <1>4, <1>6
  <1>8. h \in Histories /\ h.log = log /\ h.certs = {c} /\ h.revs = {}
    BY <1>2, <1>5, <1>6, <1>7 DEF Histories
  <1>9. HistoryFits(h)
    <2>1. /\ h \in Histories /\ Len(h.log) >= 1
          /\ \A i \in 1 .. Len(h.log) : h.log[i] <= Pin!Never
          /\ \A s \in h.certs : s.by \in 1 .. Len(h.log)
          /\ \A s \in h.revs : s.by \in 1 .. Len(h.log)
      <3>1. /\ h \in Histories /\ Len(h.log) = 1 /\ \A s \in h.certs : s.by = 1
            /\ \A s \in h.revs : FALSE
        BY <1>5, <1>7, <1>8
      <3>2. \A i \in 1 .. Len(h.log) : h.log[i] <= Pin!Never
        <4>1. Pin!Never <= Pin!Never
          BY <1>4
        <4>2. \A i \in 1 .. Len(log) : log[i] <= Pin!Never
          BY <1>7, <4>1
        <4> QED  BY <1>8, <4>2
      <3> QED  BY <3>1, <3>2
    <2>2. \E d \in h.certs : /\ \A e \in h.certs : e.key <= d.key
                             /\ \A v \in h.revs : v.key < d.key
      <3>1. c \in h.certs /\ c.key <= c.key /\ \A e \in h.certs : e = c
        BY <1>5, <1>8
      <3>2. \A v \in h.revs : FALSE
        BY <1>8
      <3> QED  BY <3>1, <3>2
    <2>3. \A v, w \in h.revs : v.key = w.key => v = w
      BY <1>8
    <2> QED  BY <2>1, <2>2, <2>3 DEF HistoryFits
  <1>10. /\ published \in Seq(Histories) /\ Len(published) = 1
         /\ \A n \in 1 .. Len(published) : published[n] = h
    BY <1>3, <1>8
  <1>11. Below(h, h)
    BY <1>7, <1>8 DEF Below
  <1>12. PublishedFits
    BY <1>9, <1>10, <1>11 DEF PublishedFits
  <1>13. pinned \in 0 .. Len(Pin!Latest.log)
    BY <1>3, <1>7, <1>8, <1>10 DEF Pin!Latest
  <1> QED  BY <1>3, <1>12, <1>13 DEF PinInv

LEMMA RotateKeepsPin ==
    ASSUME PinInv, Pin!Rotate
    PROVE  PinInv'
  <1>1. PublishedFits /\ Pin!Never \in Nat /\ Len(published) <= MaxEvents /\ Len(published) \in Nat
    BY EventsAssumption DEF PinInv, Pin!Never, Pin!Rotate, PublishedFits
  <1>2. \E h : HistoryFits(h) /\ Below(Pin!Latest, h) /\ published' = Append(published, h)
    <2>1. PICK since \in 1 .. Len(published) \cup {Pin!Never} :
              Pin!RotateKey(since) \/ Pin!RotateRoot(since)
      BY DEF Pin!Rotate
    <2>2. since \in Nat /\ since <= Pin!Never
      BY <1>1, <2>1, EventsAssumption DEF Pin!Never
    <2> QED  BY <1>1, <2>1, <2>2, RotateKeyFits, RotateRootFits
  <1>3. PICK h : HistoryFits(h) /\ Below(Pin!Latest, h) /\ published' = Append(published, h)
    BY <1>2
  <1>4. /\ PublishedFits' /\ Len(published') = Len(published) + 1 /\ Pin!Latest' = h
        /\ \A n \in 1 .. Len(published) : published'[n] = published[n]
    BY <1>1, <1>3, PublishKeeps
  <1>5. UNCHANGED <<pinned, keys, asked, heard, starts>>
    BY DEF Pin!Rotate
  <1>6. Pin!Latest \in Histories
    BY <1>1, LatestFits DEF HistoryFits
  <1>7. pinned' \in 0 .. Len(Pin!Latest'.log)
    BY <1>3, <1>4, <1>5, <1>6 DEF PinInv, Below, Histories, HistoryFits
  <1>8. \A n \in 1 .. Len(published) : n \in 1 .. Len(published')
    BY <1>1, <1>4
  <1>9. KnowsHeard => KnowsHeard'
    <2> SUFFICES ASSUME KnowsHeard PROVE KnowsHeard'
      OBVIOUS
    <2>1. \A n \in asked \cup heard : n \in 1 .. Len(published) /\ published'[n] = published[n]
      BY <1>4 DEF PinInv
    <2>2. \E n \in 1 .. Len(published') : keys.log = published'[n].log
      BY <1>4, <1>8 DEF KnowsHeard
    <2> QED  BY <1>5, <2>1, <2>2 DEF KnowsHeard
  <1> QED  BY <1>4, <1>5, <1>7, <1>8, <1>9 DEF PinInv

\* The agent's log is the venue's of one time, and reaches every root in it
LEMMA AgentsLog ==
    ASSUME PinInv, KnowsHeard
    PROVE  /\ keys.log \in Seq(Nat) /\ keys \in Resolvers
           /\ \A i \in 1 .. Len(keys.log) : keys.log[i] <= Pin!Never
           /\ Len(keys.log) <= Len(Pin!Latest.log)
           /\ \A n \in 1 .. Len(published) :
                /\ published[n].log \in Seq(Nat)
                /\ \A i \in 1 .. Len(published[n].log) : published[n].log[i] <= Pin!Never
                /\ \A i \in 1 .. Len(keys.log) :
                     i <= Len(published[n].log) => keys.log[i] = published[n].log[i]
                /\ Len(published[n].log) <= Len(Pin!Latest.log)
  <1>1. PICK k \in 1 .. Len(published) : keys.log = published[k].log
    BY DEF KnowsHeard
  <1>2. \A n \in 1 .. Len(published) : HistoryFits(published[n]) /\ published[n].log \in Seq(Nat)
    BY DEF PinInv, PublishedFits, HistoryFits, Histories
  <1>3. ASSUME NEW n \in 1 .. Len(published)
        PROVE  \A i \in 1 .. Len(keys.log) :
                   i <= Len(published[n].log) => keys.log[i] = published[n].log[i]
    <2>1. Below(published[n], published[k]) \/ Below(published[k], published[n])
      BY <1>3 DEF PinInv, PublishedFits
    <2> QED  BY <1>1, <1>2, <2>1 DEF Below
  <1>4. \A n \in 1 .. Len(published) : Len(published[n].log) <= Len(Pin!Latest.log)
    BY LatestFits DEF PinInv, Below
  <1> QED  BY <1>1, <1>2, <1>3, <1>4 DEF KnowsHeard, HistoryFits

LEMMA StartKeepsPin ==
    ASSUME PinInv, Pin!Start
    PROVE  PinInv'
  <1>1. PICK h : h = Pin!Latest
    OBVIOUS
  <1>2. PICK root : root = IF pinned = 0 THEN Len(h.log) ELSE pinned
    OBVIOUS
  <1>3. PublishedFits /\ HistoryFits(h) /\ h \in Histories /\ h.log \in Seq(Nat)
    BY <1>1, LatestFits DEF PinInv, HistoryFits, Histories
  <1>4. root \in 1 .. Len(h.log)
    BY <1>1, <1>2, <1>3 DEF PinInv, HistoryFits
  <1>5. PICK met : met = [root |-> root, log |-> h.log, certs |-> {}, revs |-> {}]
    OBVIOUS
  <1>6. PICK some : some = Pin!Reached(met, {c \in h.certs : c.key = Pin!ActiveKey(h)})
    OBVIOUS
  <1>7. /\ keys = Pin!None /\ pinned' = Pin!Current(met)
        /\ keys' = [met EXCEPT !.certs = @ \cup some]
        /\ asked' = {Len(published)} /\ UNCHANGED <<published, heard>>
    BY <1>1, <1>2, <1>5, <1>6 DEF Pin!Start, Pin!AddCerts
  <1>8. some \subseteq Certified
    BY <1>3, <1>6 DEF Pin!Reached, Histories
  <1>9. met \in Resolvers /\ met.root = root /\ met.log = h.log
    BY <1>3, <1>4, <1>5 DEF Resolvers
  <1>10. keys' \in Resolvers /\ keys'.root = root /\ keys'.log = h.log
    BY <1>7, <1>8, <1>9 DEF Resolvers
  <1>11. pinned' = Len(h.log)
    BY <1>3, <1>4, <1>7, <1>9 DEF Pin!Current
  <1>12. heard' = {}
    BY <1>7 DEF PinInv
  <1>13. /\ h = published[Len(published)] /\ Len(published) \in 1 .. Len(published)
    BY <1>1, <1>3, LatestFits
  <1>14. KnowsHeard'
    BY <1>4, <1>7, <1>10, <1>11, <1>12, <1>13 DEF KnowsHeard
  <1>15. keys' # Pin!None
    BY <1>4, <1>10 DEF Pin!None
  <1>16. pinned' \in 0 .. Len(Pin!Latest'.log)
    BY <1>1, <1>3, <1>7, <1>11 DEF Pin!Latest
  <1>17. PublishedFits'
    BY <1>3, <1>7 DEF PublishedFits
  <1> QED  BY <1>7, <1>12, <1>13, <1>14, <1>15, <1>16, <1>17 DEF PinInv

LEMMA AskKeepsPin ==
    ASSUME PinInv, Pin!Ask
    PROVE  PinInv'
  <1>1. /\ keys # Pin!None /\ asked' = asked \cup {Len(published)}
        /\ UNCHANGED <<published, pinned, keys, heard, starts>>
    BY DEF Pin!Ask
  <1>2. KnowsHeard /\ PublishedFits
    BY <1>1 DEF PinInv
  <1>3. /\ Pin!Latest = published[Len(published)] /\ Len(published) \in 1 .. Len(published)
        /\ Len(keys.log) <= Len(Pin!Latest.log)
    BY <1>2, LatestFits, AgentsLog
  <1>4. KnowsHeard'
    BY <1>1, <1>2, <1>3 DEF KnowsHeard
  <1>5. PublishedFits' /\ Pin!Latest' = Pin!Latest
    BY <1>1, <1>2 DEF PublishedFits, Pin!Latest
  <1> QED  BY <1>1, <1>3, <1>4, <1>5 DEF PinInv

LEMMA LoseKeepsPin ==
    ASSUME PinInv, NEW n \in asked, Pin!Lose(n)
    PROVE  PinInv'
  <1>1. asked' \subseteq asked /\ UNCHANGED <<published, pinned, keys, heard, starts>>
    BY DEF Pin!Lose
  <1> QED  BY <1>1 DEF PinInv, KnowsHeard, PublishedFits, Pin!Latest

LEMMA DiesKeepsPin ==
    ASSUME PinInv, Pin!Dies
    PROVE  PinInv'
  <1>1. keys' = Pin!None /\ asked' = {} /\ heard' = {} /\ UNCHANGED <<published, pinned, starts>>
    BY DEF Pin!Dies
  <1> QED  BY <1>1 DEF PinInv, PublishedFits, Pin!Latest

LEMMA TakeKeepsPin ==
    ASSUME PinInv, NEW n \in asked, Pin!Take(n)
    PROVE  PinInv'
  <1>1. PICK h : h = published[n]
    OBVIOUS
  <1>2. PICK long : long = Pin!ExtendRoots(keys, h.log)
    OBVIOUS
  <1>3. PICK more : more = [long EXCEPT !.certs = @ \cup Pin!Reached(long, h.certs)]
    OBVIOUS
  <1>4. /\ asked' = asked \ {n} /\ heard' = heard \cup {n}
        /\ keys' = [more EXCEPT !.revs = Pin!Revoke(more, h.revs)]
        /\ pinned' = IF Pin!Current(more) # Pin!Current(keys) THEN Pin!Current(more) ELSE pinned
        /\ UNCHANGED <<published, starts>>
    BY <1>1, <1>2, <1>3 DEF Pin!Take, Pin!AddCerts
  <1>5. keys # Pin!None /\ KnowsHeard /\ PublishedFits /\ n \in 1 .. Len(published)
    BY DEF PinInv
  <1>6. HistoryFits(h) /\ h \in Histories
    BY <1>1, <1>5 DEF PublishedFits, HistoryFits
  <1>7. PICK log : log = IF Len(h.log) > Len(keys.log) THEN h.log ELSE keys.log
    OBVIOUS
  <1>8. /\ keys \in Resolvers /\ keys.log \in Seq(Nat) /\ h.log \in Seq(Nat)
        /\ keys.root \in 1 .. Len(keys.log) /\ pinned = Len(keys.log)
    BY <1>5, <1>6, AgentsLog DEF KnowsHeard, Histories
  <1>9. /\ log \in Seq(Nat) /\ Len(h.log) <= Len(log) /\ Len(keys.log) <= Len(log)
        /\ Len(log) \in {Len(h.log), Len(keys.log)}
        /\ \A i \in 1 .. Len(log) : log[i] <= Pin!Never
        /\ \A i \in 1 .. Len(keys.log) : keys.log[i] = log[i]
        /\ Len(log) <= Len(Pin!Latest.log)
        /\ \E m \in 1 .. Len(published) : log = published[m].log
    <2>1. /\ \A i \in 1 .. Len(keys.log) : keys.log[i] <= Pin!Never
          /\ Len(keys.log) <= Len(Pin!Latest.log)
          /\ \A i \in 1 .. Len(h.log) : h.log[i] <= Pin!Never
          /\ \A i \in 1 .. Len(keys.log) : i <= Len(h.log) => keys.log[i] = h.log[i]
          /\ Len(h.log) <= Len(Pin!Latest.log)
      BY <1>1, <1>5, AgentsLog
    <2>2. \E m \in 1 .. Len(published) : keys.log = published[m].log
      BY <1>5 DEF KnowsHeard
    <2>3. h = published[n] /\ n \in 1 .. Len(published)
      BY <1>1, <1>5
    <2>4. CASE Len(h.log) > Len(keys.log)
      <3>1. log = h.log
        BY <1>7, <2>4
      <3>2. \E m \in 1 .. Len(published) : log = published[m].log
        BY <2>3, <3>1, Zenon
      <3>3. ASSUME NEW i \in 1 .. Len(keys.log)
            PROVE  keys.log[i] = log[i]
        <4>1. i <= Len(h.log)
          BY <1>8, <2>4
        <4> QED  BY <2>1, <3>1, <4>1, Zenon
      <3>4. /\ log \in Seq(Nat) /\ Len(h.log) <= Len(log) /\ Len(keys.log) <= Len(log)
            /\ Len(log) \in {Len(h.log), Len(keys.log)}
        BY <1>8, <2>4, <3>1
      <3>5. /\ \A i \in 1 .. Len(log) : log[i] <= Pin!Never
            /\ Len(log) <= Len(Pin!Latest.log)
        BY <2>1, <3>1, ZenonT(60)
      <3> QED  BY <3>2, <3>3, <3>4, <3>5, Zenon
    <2>5. CASE ~(Len(h.log) > Len(keys.log))
      <3>1. log = keys.log
        BY <1>7, <2>5
      <3> QED  BY <1>8, <2>1, <2>2, <2>5, <3>1, SMTT(60)
    <2> QED  BY <2>4, <2>5, Zenon
  <1>10. long \in Resolvers /\ long = [keys EXCEPT !.log = log]
    BY <1>2, <1>7, <1>8, <1>9 DEF Pin!ExtendRoots, Resolvers
  <1>11. /\ long.root = keys.root /\ long.log = log /\ long.certs = keys.certs /\ long.revs = keys.revs
    BY <1>8, <1>10 DEF Resolvers
  <1>12. Pin!Walk(keys.root, log) = 1 .. Len(log)
    BY <1>8, <1>9, SMTT(60) DEF Pin!Walk
  <1>13. Pin!Reached(long, h.certs) = h.certs
    <2>1. \A s \in h.certs : s.by \in 1 .. Len(h.log)
      BY <1>6 DEF HistoryFits
    <2>2. \A s \in h.certs : s.by \in 1 .. Len(log)
      BY <1>8, <1>9, <2>1, SMTT(60)
    <2> QED  BY <1>11, <1>12, <2>2, Zenon DEF Pin!Reached
  <1>14. /\ more \in Resolvers /\ more.root = keys.root /\ more.log = log
         /\ more.certs = keys.certs \cup h.certs /\ more.revs = keys.revs
    BY <1>3, <1>6, <1>10, <1>11, <1>13, ZenonT(60) DEF Resolvers, Histories
  <1>15. PICK taken : taken = {v \in h.revs : Pin!Trusted(v, log)}
    OBVIOUS
  <1>16. Pin!Reached(more, h.revs) = h.revs
    <2>1. \A s \in h.revs : s.by \in 1 .. Len(h.log)
      BY <1>6 DEF HistoryFits
    <2>2. \A s \in h.revs : s.by \in 1 .. Len(log)
      BY <1>8, <1>9, <2>1, SMTT(60)
    <2> QED  BY <1>12, <1>14, <2>2, Zenon DEF Pin!Reached
  <1>17. Pin!Revoke(more, h.revs) = taken \cup {v \in keys.revs : v.key \notin {t.key : t \in taken}}
    BY <1>14, <1>15, <1>16 DEF Pin!Revoke
  <1>18. Pin!Revoke(more, h.revs) \subseteq Revoked
    BY <1>6, <1>8, <1>15, <1>17 DEF Histories, Resolvers
  <1>19. /\ keys' \in Resolvers /\ keys'.root = keys.root /\ keys'.log = log
         /\ keys'.certs = keys.certs \cup h.certs
         /\ keys'.revs = Pin!Revoke(more, h.revs)
    BY <1>4, <1>14, <1>18 DEF Resolvers
  <1>20. pinned' = Len(log)
    <2>1. Pin!Current(more) = Len(log) /\ Pin!Current(keys) = Len(keys.log)
      BY <1>8, <1>9, <1>14, SMTT(60) DEF Pin!Current
    <2> QED  BY <1>4, <1>8, <2>1
  <1>21. keys' # Pin!None
    BY <1>8, <1>19 DEF Pin!None
  <1>22. PublishedFits' /\ Pin!Latest' = Pin!Latest
    BY <1>4, <1>5 DEF PublishedFits, Pin!Latest
  <1>23. \A m \in heard' : m \in 1 .. Len(published) /\ m \in Nat
    BY <1>4, <1>5 DEF PinInv
  <1>24. \E m \in heard' : Len(published[m].log) = Len(log)
    <2>1. CASE heard = {}
      <3>1. Len(keys.log) <= Len(h.log)
        BY <1>1, <1>5, <2>1 DEF KnowsHeard
      <3>2. n \in heard' /\ published[n] = h
        BY <1>1, <1>4
      <3>3. Len(h.log) = Len(log)
        BY <1>8, <1>9, <3>1, SMTT(60)
      <3> QED  BY <3>2, <3>3, Zenon
    <2>2. CASE heard # {}
      BY <1>1, <1>4, <1>5, <1>9, <2>2 DEF KnowsHeard
    <2> QED  BY <2>1, <2>2
  <1>25. \E m \in heard' : \A k \in heard' : k <= m
    <2>1. CASE heard = {}
      BY <1>4, <1>23, <2>1
    <2>2. CASE heard # {}
      <3>1. PICK m \in heard : \A k \in heard : k <= m
        BY <1>5, <2>2 DEF KnowsHeard
      <3>2. m \in heard' /\ n \in heard' /\ m \in Nat /\ n \in Nat
        BY <1>4, <1>23, <3>1
      <3>3. CASE n <= m
        BY <1>4, <3>1, <3>2, <3>3
      <3>4. CASE m <= n
        BY <1>4, <1>23, <3>1, <3>2, <3>4
      <3> QED  BY <3>2, <3>3, <3>4
    <2> QED  BY <2>1, <2>2
  <1>26. ASSUME NEW m \in heard', NEW v \in published[m].revs, Pin!Trusted(v, log)
         PROVE  v \in keys'.revs
    <2>1. CASE m = n
      BY <1>1, <1>15, <1>17, <1>19, <1>26, <2>1
    <2>2. CASE m # n
      <3>1. m \in heard /\ m \in 1 .. Len(published)
        BY <1>4, <1>23, <1>26, <2>2
      <3>2. v.by \in Nat /\ v.at \in Nat
        BY <1>5, <1>26, <3>1 DEF PublishedFits, HistoryFits, Histories, Revoked
      <3>3. Pin!Trusted(v, keys.log)
        BY <1>8, <1>9, <1>26, <3>2, TrustFades
      <3>4. v \in keys.revs
        BY <1>5, <1>26, <3>1, <3>3 DEF KnowsHeard
      <3>5. ASSUME NEW t \in taken, t.key = v.key PROVE v = t
        <4>1. t \in published[n].revs
          BY <1>1, <1>15, <3>5
        <4>2. PICK k \in 1 .. Len(published) : v \in published[k].revs /\ t \in published[k].revs
          <5>1. Below(published[m], published[n]) \/ Below(published[n], published[m])
            BY <1>5, <3>1 DEF PublishedFits
          <5> QED  BY <1>5, <1>26, <3>1, <4>1, <5>1 DEF Below
        <4> QED  BY <1>5, <3>5, <4>2 DEF PublishedFits, HistoryFits
      <3> QED  BY <1>17, <1>19, <3>4, <3>5
    <2> QED  BY <2>1, <2>2
  <1>32. /\ Len(log) \in Nat /\ Len(keys.log) \in Nat /\ Len(keys.log) <= Len(log)
          /\ keys.root \in 1 .. Len(keys.log)
    BY <1>8, <1>9
  <1>27. \A m \in heard' : Len(published[m].log) <= Len(log) /\ published[m].certs \subseteq keys'.certs
    <2>1. TAKE m \in heard'
    <2>2. CASE m = n
      BY <1>1, <1>9, <1>19, <2>2
    <2>3. CASE m \in heard
      <3>1. Len(published[m].log) <= Len(keys.log) /\ published[m].certs \subseteq keys.certs
        BY <1>5, <2>3 DEF KnowsHeard
      <3>2. published[m].log \in Seq(Nat)
        BY <1>5, <1>23, AgentsLog
      <3>3. Len(published[m].log) \in Nat
        BY <3>2
      <3>4. Len(published[m].log) <= Len(log)
        BY <1>32, <3>1, <3>3
      <3> QED  BY <1>19, <3>1, <3>4
    <2> QED  BY <1>4, <2>2, <2>3
  <1>28. heard' # {}
    BY <1>4
  <1>29. KnowsHeard'
    <2>1. /\ keys' \in Resolvers /\ keys'.root \in 1 .. Len(keys'.log) /\ pinned' = Len(keys'.log)
          /\ \E m \in 1 .. Len(published') : keys'.log = published'[m].log
      <3>1. keys'.root \in 1 .. Len(log)
        BY <1>19, <1>32
      <3>2. PICK m \in 1 .. Len(published) : log = published[m].log
        BY <1>9
      <3> QED  BY <1>4, <1>19, <1>20, <3>1, <3>2
    <2>2. /\ \E m \in heard' : Len(published'[m].log) = Len(keys'.log)
          /\ \E m \in heard' : \A k \in heard' : k <= m
      BY <1>4, <1>19, <1>24, <1>25
    <2>3. \A m \in heard' :
             /\ Len(published'[m].log) <= Len(keys'.log)
             /\ published'[m].certs \subseteq keys'.certs
             /\ \A v \in published'[m].revs : Pin!Trusted(v, keys'.log) => v \in keys'.revs
      BY <1>4, <1>19, <1>26, <1>27
    <2> QED  BY <1>28, <2>1, <2>2, <2>3 DEF KnowsHeard
  <1>30. pinned' \in 0 .. Len(Pin!Latest'.log)
    BY <1>9, <1>20, <1>22
  <1>31. asked' \subseteq 1 .. Len(published') /\ heard' \subseteq 1 .. Len(published')
    BY <1>4, <1>23 DEF PinInv
  <1> QED  BY <1>21, <1>22, <1>29, <1>30, <1>31 DEF PinInv

LEMMA PinStep ==
    ASSUME PinInv, [Pin!Next]_pin
    PROVE  PinInv'
  <1>1. CASE Pin!Next
    BY <1>1, RotateKeepsPin, StartKeepsPin, AskKeepsPin, TakeKeepsPin, LoseKeepsPin, DiesKeepsPin
       DEF Pin!Next
  <1>2. CASE UNCHANGED pin
    BY <1>2 DEF pin, PinInv, KnowsHeard, PublishedFits, Pin!Latest
  <1> QED  BY <1>1, <1>2

LEMMA PinKept == PinInv => Pin!FollowsVenue
  <1> SUFFICES ASSUME PinInv, heard # {} PROVE Pin!FollowsVenue
    BY DEF Pin!FollowsVenue, Pin!PinKeepsUp, Pin!HeardIsKnown, Pin!DeclaredIsRefused
  <1>1. KnowsHeard
    BY DEF PinInv
  <1>2. PICK last0 \in heard : last0 = CHOOSE n \in heard : \A m \in heard : m <= n
    BY <1>1 DEF KnowsHeard
  <1>3. Pin!Newest = published[last0].log /\ \A m \in heard : m <= last0
    BY <1>1, <1>2 DEF Pin!Newest, KnowsHeard
  <1>4. PICK k \in heard : Len(published[k].log) = Len(keys.log)
    BY <1>1 DEF KnowsHeard
  <1>5. Pin!Newest = keys.log
    <2>1. Below(published[k], published[last0])
      BY <1>3, <1>4 DEF PinInv, PublishedFits
    <2>2. Len(published[last0].log) <= Len(keys.log)
      BY <1>1 DEF KnowsHeard
    <2>3. /\ keys.log \in Seq(Nat) /\ published[last0].log \in Seq(Nat)
          /\ \A i \in 1 .. Len(keys.log) :
                i <= Len(published[last0].log) => keys.log[i] = published[last0].log[i]
      BY <1>1, AgentsLog DEF PinInv
    <2>4. Len(published[last0].log) = Len(keys.log)
      BY <1>4, <2>1, <2>2, <2>3 DEF Below
    <2>5. \A i \in 1 .. Len(keys.log) : keys.log[i] = published[last0].log[i]
      BY <2>3, <2>4
    <2>6. keys.log = published[last0].log
      BY <2>3, <2>4, <2>5, SeqEqual
    <2> QED  BY <1>3, <2>6
  <1>6. Pin!PinKeepsUp
    BY <1>1 DEF KnowsHeard, Pin!PinKeepsUp
  <1>7. Pin!HeardIsKnown
    BY <1>1, <1>5 DEF KnowsHeard, Pin!HeardIsKnown
  <1>8. Pin!DeclaredIsRefused
    BY <1>1, <1>5 DEF KnowsHeard, Pin!DeclaredIsRefused, Pin!Accepts
  <1> QED  BY <1>6, <1>7, <1>8 DEF Pin!FollowsVenue

\* The agent follows the venue: its pin keeps up with every answer it has taken in, in
\* whatever order they come, the keys the venue vouches for are known to it and one
\* declared compromised stays refused (refreshVenueKeys, repinIfRotated, walkRootLog);
\* and it keeps the key of its credential in its files wherever it dies, and its proof
\* of control for one attempt (onboard, rotateSubmit, installKey of agentkit/runtime.ts)
THEOREM KeysAlwaysFollowed == MCSpec => []KeysFollowed
  <1> DEFINE Inv == PinInv /\ OwnInv
  <1>1. MCInit => Inv
    BY PinStarts, OwnStarts DEF MCInit
  <1>2. Inv /\ [MCNext]_<<part, vars, deal, pin, own, venueKeys>> => Inv'
    <2>1. [MCNext]_<<part, vars, deal, pin, own, venueKeys>> => [Pin!Next]_pin /\ [Own!Next]_own
      BY DEF MCNext
    <2> QED  BY <2>1, PinStep, OwnStep
  <1>3. Inv => KeysFollowed
    BY PinKept, OwnKept DEF KeysFollowed
  <1> QED  BY <1>1, <1>2, <1>3, PTL DEF MCSpec

----------------------------------------------------------------------------
(* The bargaining                                                          *)

Offers == [rate : Int, pickup : Int, days : Int]
BrokerContexts == [customer : Nat, targetMargin : Nat, minMargin : Nat, discount : Nat,
                   concession : Nat, gap : Nat, flex : Nat, days : Nat]
CarrierContexts == [cost : Nat, minMargin : Nat, targetMargin : Nat, markup : Nat,
                    concession : Nat, gap : Nat, earliest : Nat, days : Nat]
\* A mandate's bounds on a rate
Bounded(l) == l.min \in Nat /\ l.max \in Nat /\ l.minMile \in Nat /\ l.maxMile \in Nat
Signed == /\ ctx["broker"] \in BrokerContexts /\ ctx["carrier"] \in CarrierContexts
          /\ Bounded(limits["broker"]) /\ Bounded(limits["carrier"])

Negotiated == [state : {"none", "working", "committed", "refused", "exhausted"},
               offer : Offers, by : Deal!Sides, round : Nat, awaiting : Deal!Sides,
               accepted : SUBSET Deal!Sides]
Said == [type : {"none", "TENDER", "COUNTER", "ACCEPT", "REJECT"},
         by : Deal!Sides, offer : Offers, round : Nat]

\* Whether a side can make the pickup, and live with the rate
Suited(s, o) == IF s = "broker" THEN o.pickup <= ctx["broker"].flex
                ELSE o.pickup >= ctx["carrier"].earliest
Lives(s, o) == IF s = "broker" THEN o.rate <= Deal!MaxPay
               ELSE ctx["carrier"].minMargin <= ctx["carrier"].targetMargin => o.rate >= Deal!Floor

\* What a side offers of its own, and what it accepts
Meant(s, o) ==
    /\ o \in Offers /\ Suited(s, o)
    /\ IF s = "broker" THEN o.rate <= Deal!MaxPay
       ELSE Deal!OpeningAsk < Deal!Floor \/ o.rate >= Deal!Floor
Bearable(s, o) == Lives(s, o) /\ (s \in judged \/ Suited(s, o))

DealTypes ==
    /\ Signed /\ judged \subseteq Deal!Sides
    /\ task \in Negotiated /\ inbox \in Said /\ offered \in Said
    /\ last \in [Deal!Sides -> Offers]
    /\ inbox.type = "none" => inbox = Deal!Nothing
    /\ offered.type = "none" => offered = Deal!Nothing

\* The offer on the table is the last one of the side that made it, which will stand by
\* it; the other side has yet to answer, or has accepted it
OnTable ==
    task.state = "working" =>
        /\ task.offer = last[task.by] /\ task.offer.rate >= 0 /\ Meant(task.by, task.offer)
        /\ Deal!Within(limits[task.by], "OFFER", task.offer, task.round, TRUE)
        /\ last["broker"] # Deal!NoOffer
        /\ task.accepted = {} => task.awaiting = Deal!Other(task.by)
        /\ task.accepted # {} => /\ task.awaiting = task.by
                                 /\ task.accepted = {Deal!Other(task.by)}
                                 /\ Bearable(Deal!Other(task.by), task.offer)

\* One message is under way, to the side awaited or from it
InHand ==
    /\ task.state # "working" => inbox = Deal!Nothing
    /\ task.state \notin {"none", "working"} => offered = Deal!Nothing
    /\ task.state = "none" => task.accepted = {} /\ offered.type \in {"none", "TENDER"}
    /\ inbox.type # "none" =>
          /\ offered = Deal!Nothing /\ inbox.type # "REJECT"
          /\ inbox.offer = task.offer /\ inbox.round = task.round
          /\ inbox.type = "ACCEPT" <=> task.accepted # {}
          /\ inbox.type = "TENDER" => task.awaiting = "carrier"

\* What is on its way to the venue
OnWire ==
    /\ offered.type = "TENDER" =>
          /\ task.state = "none" /\ offered.by = "broker" /\ offered.offer = last["broker"]
          /\ Deal!Within(limits["broker"], "OFFER", offered.offer, 1, TRUE)
    /\ offered.type \in {"COUNTER", "ACCEPT", "REJECT"} => offered.by = task.awaiting
    /\ offered.type = "COUNTER" =>
          /\ task.accepted = {} /\ offered.offer = last[offered.by]
          /\ Deal!Within(limits[offered.by], "OFFER", offered.offer, task.round + 1, TRUE)
    /\ offered.type = "ACCEPT" => offered.offer = task.offer /\ Bearable(offered.by, offered.offer)

\* Until a side has accepted its last offer is its own
LastMeant ==
    task.state \in {"none", "working"} /\ task.accepted = {} /\ offered.type # "ACCEPT" =>
        \A s \in Deal!Sides : last[s] # Deal!NoOffer => last[s].rate >= 0 /\ Meant(s, last[s])

BothBear == task.state = "committed" => \A s \in Deal!Sides : Bearable(s, task.offer)

BargainInv == DealTypes /\ OnTable /\ InHand /\ OnWire /\ LastMeant /\ BothBear

LEMMA LeastOf ==
    ASSUME NEW a \in Int, NEW b \in Int
    PROVE  /\ Deal!Least(a, b) \in Int /\ Deal!Least(a, b) <= a /\ Deal!Least(a, b) <= b
           /\ Deal!Least(a, b) \in {a, b}
  BY DEF Deal!Least

LEMMA GreatestOf ==
    ASSUME NEW a \in Int, NEW b \in Int
    PROVE  /\ Deal!Greatest(a, b) \in Int /\ Deal!Greatest(a, b) >= a /\ Deal!Greatest(a, b) >= b
           /\ Deal!Greatest(a, b) \in {a, b}
  BY DEF Deal!Greatest

LEMMA Round5Of ==
    ASSUME NEW n \in Int
    PROVE  Deal!Round5(n, 100) \in Int /\ Deal!Round5(n, 10000) \in Int
  BY DEF Deal!Round5

LEMMA CeilOf ==
    ASSUME NEW n \in Int, NEW m \in Int
    PROVE  Deal!Ceil(n, 100) \in Int /\ (n <= m => Deal!Ceil(n, 100) <= Deal!Ceil(m, 100))
  BY DEF Deal!Ceil

LEMMA TimesGrows ==
    ASSUME NEW c \in Nat, NEW a \in Nat, NEW b \in Nat, a <= b
    PROVE  c * a <= c * b
  OBVIOUS

\* The bounds of both sides are numbers; who takes the target takes the floor, when his
\* margins are in order and his mandate is kept
LEMMA Bounds ==
    ASSUME Signed
    PROVE  /\ Deal!MaxPay \in Int /\ Deal!BrokerOpening \in Int /\ Deal!BrokerOpening <= Deal!MaxPay
           /\ Deal!Floor \in Int /\ Deal!Target \in Int /\ Deal!OpeningAsk \in Int
           /\ \A r \in Int :
                 /\ ctx["carrier"].minMargin <= ctx["carrier"].targetMargin
                 /\ r >= Deal!Target /\ r >= limits["carrier"].min
                 /\ r >= limits["carrier"].minMile * Miles
                 => r >= Deal!Floor
  <1>1. PICK b \in BrokerContexts : b = ctx["broker"]
    BY DEF Signed
  <1>2. PICK c \in CarrierContexts : c = ctx["carrier"]
    BY DEF Signed
  <1>3. PICK l : l = limits["broker"] /\ Bounded(l)
    BY DEF Signed
  <1>4. PICK k : k = limits["carrier"] /\ Bounded(k)
    BY DEF Signed
  <1>5. /\ b.customer \in Nat /\ b.minMargin \in Nat /\ b.targetMargin \in Nat /\ b.discount \in Nat
        /\ c.cost \in Nat /\ c.minMargin \in Nat /\ c.targetMargin \in Nat /\ c.markup \in Nat
        /\ l.max \in Nat /\ l.maxMile \in Nat /\ k.min \in Nat /\ k.minMile \in Nat /\ Miles \in Nat
    BY <1>3, <1>4, MilesAssumption DEF BrokerContexts, CarrierContexts, Bounded
  <1>6. Deal!MaxPay \in Int
    <2>1. PICK x : x = b.customer * (100 - b.minMargin)
      OBVIOUS
    <2>2. x \in Int
      BY <1>5, <2>1
    <2>3. x \div 100 \in Int /\ l.max \in Int /\ l.maxMile * Miles \in Int
      BY <1>5, <2>2
    <2>4. Deal!Least(l.max, l.maxMile * Miles) \in Int
      BY <2>3, LeastOf
    <2>5. Deal!Least(x \div 100, Deal!Least(l.max, l.maxMile * Miles)) \in Int
      BY <2>3, <2>4, LeastOf
    <2> QED  BY <1>1, <1>3, <2>1, <2>5 DEF Deal!MaxPay
  <1>7. Deal!BrokerOpening \in Int /\ Deal!BrokerOpening <= Deal!MaxPay
    <2>1. PICK x : x = b.customer * (100 - b.targetMargin) * (100 - b.discount)
      OBVIOUS
    <2>2. x \in Int
      BY <1>5, <2>1
    <2>3. Deal!Round5(x, 10000) \in Int
      BY <2>2, Round5Of
    <2>4. Deal!BrokerOpening = Deal!Least(Deal!Round5(x, 10000), Deal!MaxPay)
      BY <1>1, <2>1 DEF Deal!BrokerOpening
    <2> QED  BY <1>6, <2>3, <2>4, LeastOf
  <1>8. PICK x : x = c.cost * (100 + c.minMargin)
    OBVIOUS
  <1>9. PICK y : y = c.cost * (100 + c.targetMargin)
    OBVIOUS
  <1>10. x \in Int /\ y \in Int /\ (c.minMargin <= c.targetMargin => x <= y)
    <2>1. 100 + c.minMargin \in Nat /\ 100 + c.targetMargin \in Nat
      BY <1>5
    <2> QED  BY <1>5, <1>8, <1>9, <2>1, TimesGrows
  <1>11. Deal!Target = Deal!Ceil(y, 100) /\ Deal!Target \in Int
    BY <1>2, <1>9, <1>10, CeilOf DEF Deal!Target
  <1>12. PICK low : low = Deal!Greatest(k.min, k.minMile * Miles)
    OBVIOUS
  <1>13. low \in Int /\ low \in {k.min, k.minMile * Miles}
    <2>1. k.min \in Int /\ k.minMile * Miles \in Int
      BY <1>5
    <2> QED  BY <1>12, <2>1, GreatestOf
  <1>14. /\ Deal!Floor = Deal!Greatest(Deal!Ceil(x, 100), low) /\ Deal!Ceil(x, 100) \in Int
         /\ Deal!Floor \in Int /\ Deal!Floor \in {Deal!Ceil(x, 100), low}
    <2>1. Deal!Ceil(x, 100) \in Int
      BY <1>10, CeilOf
    <2>2. Deal!Floor = Deal!Greatest(Deal!Ceil(x, 100), low)
      BY <1>2, <1>4, <1>8, <1>12 DEF Deal!Floor
    <2> QED  BY <1>13, <2>1, <2>2, GreatestOf
  <1>15. Deal!OpeningAsk \in Int
    <2>1. Deal!Target * (100 + c.markup) \in Int
      BY <1>5, <1>11
    <2> QED  BY <1>2, <2>1, Round5Of DEF Deal!OpeningAsk
  <1>16. ASSUME NEW r \in Int, c.minMargin <= c.targetMargin,
                r >= Deal!Target, r >= k.min, r >= k.minMile * Miles
         PROVE  r >= Deal!Floor
    <2>1. Deal!Ceil(x, 100) <= Deal!Target
      BY <1>10, <1>11, <1>16, CeilOf
    <2> QED  BY <1>11, <1>13, <1>14, <1>16, <2>1
  <1> QED  BY <1>2, <1>4, <1>6, <1>7, <1>11, <1>14, <1>15, <1>16

LEMMA BrokerAnswers ==
    ASSUME Signed, NEW o \in Offers, NEW mine \in Offers, mine = last["broker"],
           mine.rate >= 0, Meant("broker", mine),
           NEW d, d = Deal!BrokerOnCounter(o)
    PROVE  \/ d = Deal!Accepts /\ o.rate <= Deal!MaxPay /\ Suited("broker", o)
           \/ d.kind = "COUNTER" /\ Meant("broker", d.offer)
  <1>1. PICK b \in BrokerContexts : b = ctx["broker"]
    BY DEF Signed
  <1>2. /\ b.concession \in Nat /\ b.flex \in Nat /\ b.days \in Nat /\ b.gap \in Nat
        /\ o.rate \in Int /\ o.pickup \in Int /\ o.days \in Int
        /\ mine.rate \in Int /\ mine.pickup \in Int
    BY DEF BrokerContexts, Offers
  <1>3. Deal!MaxPay \in Int /\ mine.rate <= Deal!MaxPay /\ mine.pickup <= b.flex
    BY <1>1, Bounds DEF Meant, Suited
  <1>4. Deal!Greatest(mine.rate, 0) = mine.rate
    BY <1>2 DEF Deal!Greatest
  <1>5. PICK next : next = Deal!BrokerNext(o.rate, mine.rate)
    OBVIOUS
  <1>6. next \in Int /\ next <= Deal!MaxPay
    <2>1. Deal!Least(o.rate, Deal!MaxPay) \in Int
      BY <1>2, <1>3, LeastOf
    <2>2. PICK gap : gap = b.concession * (Deal!Least(o.rate, Deal!MaxPay) - mine.rate)
      OBVIOUS
    <2>3. PICK x \in Int : x = 100 * mine.rate + gap
      <3>1. Deal!Least(o.rate, Deal!MaxPay) - mine.rate \in Int /\ b.concession \in Int
        BY <1>2, <2>1
      <3>2. gap \in Int /\ 100 * mine.rate \in Int
        BY <1>2, <2>2, <3>1
      <3> QED  BY <3>2
    <2>4. next = Deal!Least(Deal!MaxPay, Deal!Round5(x, 100))
      BY <1>1, <1>5, <2>2, <2>3 DEF Deal!BrokerNext
    <2>5. PICK y \in Int : y = Deal!Round5(x, 100)
      BY Round5Of
    <2> QED  BY <1>3, <2>4, <2>5, LeastOf
  <1>7. PICK rate : rate = Deal!Greatest(next, mine.rate)
    OBVIOUS
  <1>8. rate \in Int /\ rate <= Deal!MaxPay
    BY <1>2, <1>3, <1>6, <1>7, GreatestOf
  <1>9. PICK pickup : pickup = IF o.pickup <= b.flex THEN o.pickup ELSE mine.pickup
    OBVIOUS
  <1>10. pickup \in Int /\ pickup <= b.flex
    BY <1>2, <1>3, <1>9
  <1>11. \/ /\ o.pickup <= b.flex /\ d = Deal!Accepts
            /\ \/ o.rate <= Deal!MaxPay
               \/ next >= o.rate
         \/ d = Deal!CounterAt(rate, pickup, b.days)
    BY <1>1, <1>4, <1>5, <1>7, <1>9 DEF Deal!BrokerOnCounter
  <1>12. CASE d = Deal!CounterAt(rate, pickup, b.days)
    <2>1. PICK off : off = [rate |-> rate, pickup |-> pickup, days |-> b.days]
      OBVIOUS
    <2>2. d = [kind |-> "COUNTER", offer |-> off]
      BY <1>12, <2>1 DEF Deal!CounterAt
    <2>3. off \in Offers /\ off.rate = rate /\ off.pickup = pickup
      BY <1>2, <1>8, <1>10, <2>1 DEF Offers
    <2>4. d.kind = "COUNTER" /\ d.offer = off
      BY <2>2
    <2> QED  BY <1>1, <1>8, <1>10, <2>3, <2>4 DEF Meant, Suited
  <1>13. CASE /\ o.pickup <= b.flex /\ d = Deal!Accepts
              /\ \/ o.rate <= Deal!MaxPay
                 \/ next >= o.rate
    <2>1. o.rate <= Deal!MaxPay
      BY <1>2, <1>3, <1>6, <1>13
    <2> QED  BY <1>1, <1>13, <2>1 DEF Suited
  <1> QED  BY <1>11, <1>12, <1>13

LEMMA PickupForOf ==
    ASSUME Signed, NEW p \in Int
    PROVE  Deal!PickupFor(p) \in Int /\ Deal!PickupFor(p) >= ctx["carrier"].earliest
  <1>1. ctx["carrier"].earliest \in Int
    BY DEF Signed, CarrierContexts
  <1> QED  BY <1>1, GreatestOf DEF Deal!PickupFor

\* A counter of the carrier, at a rate no lower than its floor
LEMMA CarrierMeans ==
    ASSUME Signed, NEW rate \in Int, Deal!OpeningAsk < Deal!Floor \/ rate >= Deal!Floor,
           NEW p \in Int, NEW d, d = Deal!CounterAt(rate, Deal!PickupFor(p), ctx["carrier"].days)
    PROVE  d.kind = "COUNTER" /\ Meant("carrier", d.offer)
  <1>1. PICK off : off = [rate |-> rate, pickup |-> Deal!PickupFor(p), days |-> ctx["carrier"].days]
    OBVIOUS
  <1>2. d = [kind |-> "COUNTER", offer |-> off]
    BY <1>1 DEF Deal!CounterAt
  <1>3. ctx["carrier"].days \in Int /\ Deal!PickupFor(p) \in Int
    BY PickupForOf DEF Signed, CarrierContexts
  <1>4. off \in Offers /\ off.rate = rate /\ off.pickup = Deal!PickupFor(p)
    BY <1>1, <1>3 DEF Offers
  <1>5. d.kind = "COUNTER" /\ d.offer = off
    BY <1>2
  <1> QED  BY <1>4, <1>5, PickupForOf DEF Meant, Suited

LEMMA CarrierOpens ==
    ASSUME Signed, NEW o \in Offers, NEW d, d = Deal!CarrierOnTender(o)
    PROVE  \/ d = Deal!Accepts /\ o.rate >= Deal!Target /\ Suited("carrier", o)
           \/ d.kind = "COUNTER" /\ Meant("carrier", d.offer)
  <1>1. o.rate \in Int /\ o.pickup \in Int
    BY DEF Offers
  <1>2. CASE Deal!PickupFor(o.pickup) = o.pickup /\ o.rate >= Deal!Target
    <2>1. o.pickup >= ctx["carrier"].earliest
      BY <1>1, <1>2, PickupForOf
    <2> QED  BY <1>2, <2>1 DEF Deal!CarrierOnTender, Suited
  <1>3. CASE ~(Deal!PickupFor(o.pickup) = o.pickup /\ o.rate >= Deal!Target)
    <2>1. PICK rate : rate = Deal!Greatest(Deal!OpeningAsk, o.rate)
      OBVIOUS
    <2>2. rate \in Int /\ rate >= Deal!OpeningAsk /\ Deal!OpeningAsk \in Int /\ Deal!Floor \in Int
      BY <1>1, <2>1, Bounds, GreatestOf
    <2>3. Deal!OpeningAsk < Deal!Floor \/ rate >= Deal!Floor
      BY <2>2
    <2>4. d = Deal!CounterAt(rate, Deal!PickupFor(o.pickup), ctx["carrier"].days)
      BY <1>3, <2>1 DEF Deal!CarrierOnTender
    <2> QED  BY <1>1, <2>2, <2>3, <2>4, CarrierMeans
  <1> QED  BY <1>2, <1>3

LEMMA CarrierAnswers ==
    ASSUME Signed, NEW o \in Offers, NEW mine \in Offers, mine = last["carrier"],
           mine # Deal!NoOffer => Meant("carrier", mine),
           NEW d, d = Deal!CarrierOnCounter(o)
    PROVE  \/ d = Deal!Accepts /\ o.rate >= Deal!Floor /\ Suited("carrier", o)
           \/ d.kind = "COUNTER" /\ Meant("carrier", d.offer)
  <1>1. PICK c \in CarrierContexts : c = ctx["carrier"]
    BY DEF Signed
  <1>2. o.rate \in Int /\ o.pickup \in Int /\ c.concession \in Nat /\ mine.rate \in Int
    BY DEF Offers, CarrierContexts
  <1>3. Deal!OpeningAsk \in Int /\ Deal!Floor \in Int
    BY Bounds
  <1>4. PICK ask : ask = IF mine = Deal!NoOffer THEN Deal!OpeningAsk ELSE mine.rate
    OBVIOUS
  <1>5. ask \in Int /\ (Deal!OpeningAsk < Deal!Floor \/ ask >= Deal!Floor)
    BY <1>2, <1>3, <1>4 DEF Meant
  <1>6. PICK next : next = Deal!CarrierNext(o.rate, ask)
    OBVIOUS
  <1>7. next \in Int /\ next >= Deal!Floor
    <2>1. Deal!Greatest(o.rate, Deal!Floor) \in Int
      BY <1>2, <1>3, GreatestOf
    <2>2. PICK gap : gap = c.concession * (ask - Deal!Greatest(o.rate, Deal!Floor))
      OBVIOUS
    <2>3. PICK x \in Int : x = 100 * ask - gap
      <3>1. ask - Deal!Greatest(o.rate, Deal!Floor) \in Int /\ c.concession \in Int
        BY <1>2, <1>5, <2>1
      <3>2. gap \in Int /\ 100 * ask \in Int
        BY <1>2, <1>5, <2>2, <3>1
      <3> QED  BY <3>2
    <2>4. next = Deal!Greatest(Deal!Floor, Deal!Round5(x, 100))
      BY <1>1, <1>6, <2>2, <2>3 DEF Deal!CarrierNext
    <2>5. PICK y \in Int : y = Deal!Round5(x, 100)
      BY Round5Of
    <2> QED  BY <1>3, <2>4, <2>5, GreatestOf
  <1>8. PICK rate : rate = Deal!Least(next, ask)
    OBVIOUS
  <1>9. rate \in Int /\ (Deal!OpeningAsk < Deal!Floor \/ rate >= Deal!Floor)
    BY <1>3, <1>5, <1>7, <1>8, LeastOf
  <1>10. \/ /\ Deal!PickupFor(o.pickup) = o.pickup /\ d = Deal!Accepts
            /\ \/ o.rate >= Deal!Floor
               \/ next <= o.rate
         \/ d = Deal!CounterAt(rate, Deal!PickupFor(o.pickup), ctx["carrier"].days)
    BY <1>1, <1>4, <1>6, <1>8 DEF Deal!CarrierOnCounter
  <1>11. CASE d = Deal!CounterAt(rate, Deal!PickupFor(o.pickup), ctx["carrier"].days)
    BY <1>2, <1>9, <1>11, CarrierMeans
  <1>12. CASE /\ Deal!PickupFor(o.pickup) = o.pickup /\ d = Deal!Accepts
              /\ \/ o.rate >= Deal!Floor
                 \/ next <= o.rate
    <2>1. o.rate >= Deal!Floor /\ o.pickup >= ctx["carrier"].earliest
      BY <1>2, <1>3, <1>7, <1>12, PickupForOf
    <2> QED  BY <1>12, <2>1 DEF Suited
  <1> QED  BY <1>10, <1>11, <1>12

\* What a side decides is an offer it means, or an acceptance it can bear
Sound(s, d) ==
    /\ d.kind \in {"ACCEPT", "REJECT", "COUNTER"}
    /\ d.kind = "COUNTER" => inbox.type # "ACCEPT" /\ Meant(s, d.offer)
    /\ d.kind = "ACCEPT" =>
          \A room \in BOOLEAN :
              Deal!Within(limits[s], "ACCEPT", inbox.offer, inbox.round, room) => Lives(s, inbox.offer)

LEMMA TurnOf ==
    ASSUME BargainInv, inbox # Deal!Nothing
    PROVE  /\ task.state = "working" /\ inbox.type \in {"TENDER", "COUNTER", "ACCEPT"}
           /\ inbox.offer = task.offer /\ inbox.offer \in Offers /\ offered = Deal!Nothing
           /\ inbox.round = task.round /\ task.awaiting \in {"broker", "carrier"}
  BY DEF BargainInv, DealTypes, InHand, Said, Negotiated, Deal!Sides

LEMMA RulesSound ==
    ASSUME BargainInv, inbox # Deal!Nothing, NEW d, d = Deal!Rules(task.awaiting, inbox)
    PROVE  Sound(task.awaiting, d) /\ (d.kind = "ACCEPT" => Suited(task.awaiting, inbox.offer))
  <1>1. PICK s \in {"broker", "carrier"} : s = task.awaiting
    BY TurnOf
  <1>2. Signed /\ task.state = "working" /\ last \in [Deal!Sides -> Offers] /\ inbox.offer \in Offers
    BY TurnOf DEF BargainInv, DealTypes
  <1>3. last["broker"] \in Offers /\ last["carrier"] \in Offers /\ last["broker"] # Deal!NoOffer
    BY <1>2 DEF BargainInv, OnTable, Deal!Sides
  <1>4. inbox.type \in {"TENDER", "COUNTER"} =>
            /\ last["broker"].rate >= 0 /\ Meant("broker", last["broker"])
            /\ last["carrier"] # Deal!NoOffer => Meant("carrier", last["carrier"])
    <2>1. SUFFICES ASSUME inbox.type \in {"TENDER", "COUNTER"}
                   PROVE  /\ last["broker"].rate >= 0 /\ Meant("broker", last["broker"])
                          /\ last["carrier"] # Deal!NoOffer => Meant("carrier", last["carrier"])
      OBVIOUS
    <2>2. task.accepted = {} /\ offered.type # "ACCEPT"
      BY <2>1, TurnOf DEF BargainInv, InHand, Deal!Nothing
    <2> QED  BY <1>2, <1>3, <2>2 DEF BargainInv, LastMeant, Deal!Sides
  <1>5. Deal!Accepts.kind = "ACCEPT" /\ Deal!Rejects.kind = "REJECT"
    BY DEF Deal!Accepts, Deal!Rejects
  <1>6. CASE inbox.type = "TENDER"
    <2>1. s = "carrier" /\ d = Deal!CarrierOnTender(inbox.offer)
      <3>1. s = "carrier"
        BY <1>1, <1>6 DEF BargainInv, InHand
      <3> QED  BY <1>1, <1>6, <3>1 DEF Deal!Rules
    <2>2. \/ d = Deal!Accepts /\ inbox.offer.rate >= Deal!Target /\ Suited("carrier", inbox.offer)
          \/ d.kind = "COUNTER" /\ Meant("carrier", d.offer)
      BY <1>2, <2>1, CarrierOpens
    <2>3. CASE d = Deal!Accepts /\ inbox.offer.rate >= Deal!Target /\ Suited("carrier", inbox.offer)
      <3>1. ASSUME NEW room \in BOOLEAN,
                   Deal!Within(limits["carrier"], "ACCEPT", inbox.offer, inbox.round, room)
            PROVE  Lives("carrier", inbox.offer)
        <4>1. /\ inbox.offer.rate >= limits["carrier"].min
              /\ inbox.offer.rate >= limits["carrier"].minMile * Miles
          BY <3>1 DEF Deal!Within
        <4>2. inbox.offer.rate \in Int
          BY <1>2 DEF Offers
        <4> QED  BY <1>2, <2>3, <4>1, <4>2, Bounds DEF Lives
      <3> QED  BY <1>1, <1>5, <2>1, <2>3, <3>1 DEF Sound
    <2> QED  BY <1>1, <1>6, <2>1, <2>2, <2>3 DEF Sound
  <1>7. CASE inbox.type = "COUNTER" /\ s = "broker"
    <2>1. d = Deal!BrokerOnCounter(inbox.offer)
      BY <1>1, <1>7 DEF Deal!Rules
    <2>2. \/ d = Deal!Accepts /\ inbox.offer.rate <= Deal!MaxPay /\ Suited("broker", inbox.offer)
          \/ d.kind = "COUNTER" /\ Meant("broker", d.offer)
      BY <1>2, <1>3, <1>4, <1>7, <2>1, BrokerAnswers
    <2> QED  BY <1>1, <1>5, <1>7, <2>2 DEF Sound, Lives
  <1>8. CASE inbox.type = "COUNTER" /\ s = "carrier"
    <2>1. d = Deal!CarrierOnCounter(inbox.offer)
      BY <1>1, <1>8 DEF Deal!Rules
    <2>2. \/ d = Deal!Accepts /\ inbox.offer.rate >= Deal!Floor /\ Suited("carrier", inbox.offer)
          \/ d.kind = "COUNTER" /\ Meant("carrier", d.offer)
      BY <1>2, <1>3, <1>4, <1>8, <2>1, CarrierAnswers
    <2> QED  BY <1>1, <1>5, <1>8, <2>2 DEF Sound, Lives
  <1>9. CASE inbox.type = "ACCEPT"
    <2>1. d = IF Deal!Countersigns(s, inbox.offer) THEN Deal!Accepts ELSE Deal!Rejects
      BY <1>1, <1>9 DEF Deal!Rules
    <2>2. Deal!Countersigns(s, inbox.offer) => Lives(s, inbox.offer)
      BY DEF Deal!Countersigns, Lives
    <2>3. Suited(s, inbox.offer)
      <3>1. s = task.by /\ inbox.offer = task.offer
        BY <1>1, <1>2, <1>9, TurnOf DEF BargainInv, OnTable, InHand
      <3> QED  BY <1>2, <3>1 DEF BargainInv, OnTable, Meant
    <2> QED  BY <1>1, <1>5, <2>1, <2>2, <2>3 DEF Sound
  <1> QED  BY <1>1, <1>6, <1>7, <1>8, <1>9, TurnOf

LEMMA ModelSound ==
    ASSUME BargainInv, inbox # Deal!Nothing, NEW reply \in Deal!Replies(task.awaiting, inbox),
           NEW d, d = Deal!Shaped(task.awaiting, inbox, reply)
    PROVE  Sound(task.awaiting, d)
  <1>1. PICK s \in {"broker", "carrier"} : s = task.awaiting
    BY TurnOf
  <1>2. /\ inbox.type # "ACCEPT" /\ Deal!Usable(s, inbox, reply)
        /\ reply.kind \in {"ACCEPT", "REJECT", "COUNTER"} /\ reply.rate \in Int /\ reply.days \in Int
    BY <1>1 DEF Deal!Replies, MCReplies
  <1>3. CASE reply.kind # "COUNTER"
    <2>1. d = [kind |-> reply.kind, offer |-> Deal!NoOffer]
      BY <1>3 DEF Deal!Shaped
    <2>2. d.kind = reply.kind
      BY <2>1
    <2>3. d.kind = "ACCEPT" => Lives(s, inbox.offer)
      BY <1>1, <1>2, <2>2 DEF Deal!Usable, Deal!Acceptable, Lives
    <2> QED  BY <1>1, <1>2, <1>3, <2>2, <2>3 DEF Sound
  <1>4. CASE reply.kind = "COUNTER"
    <2>1. PICK base : base = Deal!Rules(s, inbox).offer
      OBVIOUS
    <2>2. Deal!Rules(s, inbox).kind = "COUNTER"
      BY <1>2, <1>4 DEF Deal!Usable
    <2>3. Meant(s, base)
      BY <1>1, <2>1, <2>2, RulesSound DEF Sound
    <2>4. IF s = "broker" THEN reply.rate <= Deal!MaxPay ELSE reply.rate >= Deal!Floor
      <3>1. PICK off : off = [rate |-> reply.rate, pickup |-> inbox.offer.pickup,
                              days |-> Deal!DaysOf(s, inbox, reply)]
        OBVIOUS
      <3>2. Deal!Acceptable(s, off) /\ off.rate = reply.rate
        BY <1>2, <1>4, <3>1 DEF Deal!Usable
      <3> QED  BY <3>2 DEF Deal!Acceptable
    <2>5. PICK off : off = [rate |-> reply.rate, pickup |-> base.pickup,
                            days |-> IF reply.days >= 0 THEN reply.days ELSE base.days]
      OBVIOUS
    <2>6. d = [kind |-> "COUNTER", offer |-> off]
      BY <1>1, <1>4, <2>1, <2>5 DEF Deal!Shaped, Deal!CounterAt
    <2>7. base \in Offers
      BY <2>3 DEF Meant
    <2>8. off \in Offers /\ off.rate = reply.rate /\ off.pickup = base.pickup
      BY <1>2, <2>5, <2>7 DEF Offers
    <2>9. d.kind = "COUNTER" /\ d.offer = off
      BY <2>6
    <2>10. Meant(s, off)
      BY <2>3, <2>4, <2>8 DEF Meant, Suited
    <2> QED  BY <1>1, <1>2, <2>9, <2>10 DEF Sound
  <1> QED  BY <1>3, <1>4

LEMMA DealStarts == Deal!Init => BargainInv
  <1> SUFFICES ASSUME Deal!Init PROVE BargainInv
    OBVIOUS
  <1>1. /\ task = [state |-> "none", offer |-> Deal!NoOffer, by |-> "broker", round |-> 0,
                   awaiting |-> "broker", accepted |-> {}]
        /\ inbox = Deal!Nothing /\ offered = Deal!Nothing
        /\ last = [s \in Deal!Sides |-> Deal!NoOffer] /\ judged = {}
        /\ ctx["broker"] \in MCBrokers /\ ctx["carrier"] \in MCCarriers
        /\ \A s \in Deal!Sides : limits[s] \in MCMandates[s]
    BY DEF Deal!Init
  <1>2. Signed
    <2>1. ctx["broker"] \in BrokerContexts
      <3>1. PICK paid \in {2300, 2448, 2760}, flex \in {0, 4} :
              ctx["broker"] = [customer |-> paid, targetMargin |-> 14, minMargin |-> 8, discount |-> 10,
                               concession |-> 35, gap |-> 3, flex |-> flex, days |-> 30]
        BY <1>1 DEF MCBrokers
      <3>2. paid \in Nat /\ flex \in Nat
        OBVIOUS
      <3> QED  BY <3>1, <3>2 DEF BrokerContexts
    <2>2. ctx["carrier"] \in CarrierContexts
      <3>1. PICK t \in {6, 20}, up \in {0, 12}, e \in {0, 2}, d \in {30, 60} :
              ctx["carrier"] = [cost |-> 2000, minMargin |-> 8, targetMargin |-> t, markup |-> up,
                                concession |-> 30, gap |-> 3, earliest |-> e, days |-> d]
        BY <1>1 DEF MCCarriers
      <3>2. t \in Nat /\ up \in Nat /\ e \in Nat /\ d \in Nat
        OBVIOUS
      <3> QED  BY <3>1, <3>2 DEF CarrierContexts
    <2>3. \A side \in Deal!Sides : Bounded(limits[side])
      <3>1. ASSUME NEW l, l \in MCMandates["broker"] \/ l \in MCMandates["carrier"]
            PROVE  Bounded(l)
        BY <3>1 DEF MCMandates, Limits, Bounded
      <3> QED  BY <1>1, <3>1 DEF Deal!Sides
    <2> QED  BY <2>1, <2>2, <2>3 DEF Signed, Deal!Sides
  <1>3. Deal!NoOffer \in Offers
    BY DEF Deal!NoOffer, Offers
  <1>4. task \in Negotiated /\ task.state = "none" /\ task.accepted = {}
    BY <1>1, <1>3 DEF Negotiated, Deal!Sides
  <1>5. Deal!Nothing \in Said /\ Deal!Nothing.type = "none"
    BY <1>3 DEF Deal!Nothing, Said, Deal!Sides
  <1>6. last \in [Deal!Sides -> Offers] /\ \A s \in Deal!Sides : last[s] = Deal!NoOffer
    BY <1>1, <1>3
  <1> QED
    BY <1>1, <1>2, <1>4, <1>5, <1>6
       DEF BargainInv, DealTypes, OnTable, InHand, OnWire, LastMeant, BothBear

\* The principals' bounds do not move
LEMMA BoundsStay ==
    ASSUME UNCHANGED <<ctx, limits>>
    PROVE  /\ Deal!MaxPay' = Deal!MaxPay /\ Deal!Floor' = Deal!Floor
           /\ Deal!OpeningAsk' = Deal!OpeningAsk /\ Signed' = Signed
           /\ \A s, o : /\ Meant(s, o)' = Meant(s, o) /\ Lives(s, o)' = Lives(s, o)
                        /\ Suited(s, o)' = Suited(s, o)
  <1>1. /\ Deal!MaxPay' = Deal!MaxPay /\ Deal!Floor' = Deal!Floor /\ Deal!OpeningAsk' = Deal!OpeningAsk
    BY DEF Deal!MaxPay, Deal!Floor, Deal!OpeningAsk, Deal!Target
  <1> QED  BY <1>1, ZenonT(60) DEF Meant, Lives, Suited, Signed

LEMMA BearableStays ==
    ASSUME UNCHANGED <<ctx, limits>>, judged \subseteq judged', NEW s, NEW o, Bearable(s, o)
    PROVE  Bearable(s, o)'
  <1>1. Lives(s, o)' = Lives(s, o) /\ Suited(s, o)' = Suited(s, o)
    BY BoundsStay
  <1> QED  BY <1>1 DEF Bearable

\* An offer within a mandate is at a rate
LEMMA WithinHasRate ==
    ASSUME NEW l, Bounded(l), NEW o \in Offers, NEW kind, NEW n, NEW room,
           Deal!Within(l, kind, o, n, room)
    PROVE  o.rate >= 0 /\ o # Deal!NoOffer
  <1>1. o.rate >= l.min /\ l.min \in Nat /\ o.rate \in Int
    BY DEF Deal!Within, Bounded, Offers
  <1> QED  BY <1>1 DEF Deal!NoOffer

LEMMA TenderKeepsDeal ==
    ASSUME BargainInv, Deal!Tender
    PROVE  BargainInv'
  <1>1. PICK o : o = [rate |-> Deal!BrokerOpening, pickup |-> 0, days |-> ctx["broker"].days]
    OBVIOUS
  <1>2. /\ task.state = "none" /\ offered = Deal!Nothing
        /\ UNCHANGED <<ctx, limits, models, guaranteed, inbox, judged>>
        /\ \/ /\ Deal!Within(limits["broker"], "TENDER", o, 1, TRUE)
              /\ offered' = Deal!Sent("broker", "TENDER", o, 1)
              /\ last' = [last EXCEPT !["broker"] = o] /\ task' = task
           \/ task' = [task EXCEPT !.state = "refused"] /\ offered' = offered /\ last' = last
    BY <1>1 DEF Deal!Tender, Deal!principals
  <1>3. Signed /\ DealTypes /\ inbox = Deal!Nothing /\ task.accepted = {} /\ Deal!Nothing.type = "none"
    BY <1>2 DEF BargainInv, DealTypes, InHand, Deal!Nothing
  <1>4. ctx["broker"].days \in Nat /\ ctx["broker"].flex \in Nat
    BY <1>3 DEF Signed, BrokerContexts
  <1>5. o \in Offers /\ o.rate = Deal!BrokerOpening /\ o.pickup = 0
    BY <1>1, <1>3, <1>4, Bounds DEF Offers
  <1>6. Meant("broker", o)
    BY <1>3, <1>4, <1>5, Bounds DEF Meant, Suited
  <1>7. CASE /\ Deal!Within(limits["broker"], "TENDER", o, 1, TRUE)
             /\ offered' = Deal!Sent("broker", "TENDER", o, 1)
             /\ last' = [last EXCEPT !["broker"] = o] /\ task' = task
    <2>1. /\ offered' \in Said /\ offered'.type = "TENDER" /\ offered'.by = "broker" /\ offered'.offer = o
      BY <1>5, <1>7 DEF Deal!Sent, Said, Deal!Sides
    <2>2. /\ last' \in [Deal!Sides -> Offers] /\ last'["broker"] = o
          /\ \A s \in Deal!Sides : (last'[s] = o /\ s = "broker") \/ last'[s] = last[s]
      BY <1>3, <1>5, <1>7 DEF DealTypes, Deal!Sides
    <2>3. Deal!Within(limits["broker"], "OFFER", o, 1, TRUE)
      BY <1>7 DEF Deal!Within
    <2>4. o.rate >= 0
      BY <1>3, <1>5, <1>7, WithinHasRate DEF Signed
    <2>5. DealTypes'
      BY <1>2, <1>3, <1>7, <2>1, <2>2, BoundsStay DEF DealTypes
    <2>6. OnTable' /\ InHand' /\ BothBear'
      BY <1>2, <1>3, <1>7, <2>1 DEF OnTable, InHand, BothBear
    <2>7. OnWire'
      BY <1>2, <1>7, <2>1, <2>2, <2>3 DEF OnWire, Deal!Within
    <2>8. LastMeant'
      <3>1. \A s \in Deal!Sides : last[s] # Deal!NoOffer => last[s].rate >= 0 /\ Meant(s, last[s])
        BY <1>2, <1>3 DEF BargainInv, LastMeant
      <3>2. ASSUME NEW s \in Deal!Sides, last'[s] # Deal!NoOffer
            PROVE  last'[s].rate >= 0 /\ Meant(s, last[s])'
        <4>1. last'[s].rate >= 0 /\ Meant(s, last'[s])
          BY <1>6, <2>2, <2>4, <3>1, <3>2
        <4>2. PICK v : v = last'[s]
          OBVIOUS
        <4>3. Meant(s, v)'
          BY <1>2, <4>1, <4>2, BoundsStay
        <4> QED  BY <4>1, <4>2, <4>3 DEF Meant, Suited
      <3> QED  BY <3>2 DEF LastMeant
    <2> QED  BY <2>5, <2>6, <2>7, <2>8 DEF BargainInv
  <1>8. CASE task' = [task EXCEPT !.state = "refused"] /\ offered' = offered /\ last' = last
    <2>1. task' \in Negotiated /\ task'.state = "refused" /\ task'.accepted = {}
      BY <1>3, <1>8 DEF DealTypes, Negotiated
    <2>2. DealTypes'
      BY <1>2, <1>3, <1>8, <2>1, BoundsStay DEF DealTypes
    <2>3. OnTable' /\ InHand' /\ BothBear' /\ OnWire'
      BY <1>2, <1>3, <1>8, <2>1 DEF OnTable, InHand, BothBear, OnWire
    <2>4. LastMeant'
      <3>1. \A s \in Deal!Sides : last[s] # Deal!NoOffer => last[s].rate >= 0 /\ Meant(s, last[s])
        BY <1>2, <1>3 DEF BargainInv, LastMeant
      <3>2. \A s, v : Meant(s, v)' = Meant(s, v)
        BY <1>2, BoundsStay
      <3> QED  BY <1>8, <3>1, <3>2 DEF LastMeant, Meant, Suited
    <2> QED  BY <2>2, <2>3, <2>4 DEF BargainInv
  <1> QED  BY <1>2, <1>7, <1>8

\* act() and accept(): an offer, an acceptance or a refusal leaves
LEMMA ActCases ==
    ASSUME NEW s, NEW m, NEW d, Deal!Act(s, m, d)
    PROVE  \/ /\ d.kind = "COUNTER" /\ Deal!Within(limits[s], "OFFER", d.offer, m.round + 1, TRUE)
              /\ offered' = Deal!Sent(s, "COUNTER", d.offer, m.round + 1)
              /\ last' = [last EXCEPT ![s] = d.offer]
           \/ /\ d.kind = "ACCEPT"
              /\ \E room \in BOOLEAN : Deal!Within(limits[s], "ACCEPT", m.offer, m.round, room)
              /\ offered' = Deal!Sent(s, "ACCEPT", m.offer, m.round)
              /\ last' = [last EXCEPT ![s] = m.offer]
           \/ /\ offered' = Deal!Sent(s, "REJECT", Deal!NoOffer, m.round) /\ last' = last
  <1>1. PICK room \in BOOLEAN : room = (m.type = "ACCEPT" => guaranteed)
    OBVIOUS
  <1>2. CASE d.kind = "COUNTER" /\ Deal!Within(limits[s], "OFFER", d.offer, m.round + 1, TRUE)
    BY <1>2 DEF Deal!Act
  <1>3. CASE d.kind = "ACCEPT" /\ Deal!Within(limits[s], "ACCEPT", m.offer, m.round,
                                              m.type = "ACCEPT" => guaranteed)
    BY <1>3 DEF Deal!Act
  <1>4. CASE /\ ~(d.kind = "COUNTER" /\ Deal!Within(limits[s], "OFFER", d.offer, m.round + 1, TRUE))
             /\ ~(d.kind = "ACCEPT" /\ Deal!Within(limits[s], "ACCEPT", m.offer, m.round,
                                                   m.type = "ACCEPT" => guaranteed))
    BY <1>4 DEF Deal!Act
  <1> QED  BY <1>2, <1>3, <1>4

LEMMA ConsiderKeepsDeal ==
    ASSUME BargainInv, Deal!Consider
    PROVE  BargainInv'
  <1>1. PICK s \in Deal!Sides : s = task.awaiting
    BY DEF BargainInv, DealTypes, Negotiated
  <1>2. /\ inbox # Deal!Nothing /\ inbox' = Deal!Nothing
        /\ UNCHANGED <<ctx, limits, models, guaranteed, task>>
    BY DEF Deal!Consider, Deal!principals
  <1>3. /\ task.state = "working" /\ inbox.offer = task.offer /\ inbox.offer \in Offers
        /\ inbox.round = task.round /\ offered = Deal!Nothing
        /\ inbox.type \in {"TENDER", "COUNTER", "ACCEPT"} /\ DealTypes /\ Signed
        /\ Bounded(limits[s]) /\ task.round \in Nat /\ Deal!Nothing.type = "none"
    BY <1>1, <1>2, TurnOf DEF BargainInv, DealTypes, Signed, Deal!Sides, Negotiated, Deal!Nothing
  <1>4. \E d : /\ Deal!Act(s, inbox, d) /\ Sound(s, d)
               /\ judged \subseteq judged' /\ judged' \subseteq Deal!Sides
               /\ d.kind = "ACCEPT" /\ offered'.type = "ACCEPT" => Suited(s, inbox.offer) \/ s \in judged'
    <2>1. CASE Deal!Act(s, inbox, Deal!Rules(s, inbox)) /\ UNCHANGED judged
      <3>1. PICK d : d = Deal!Rules(s, inbox)
        OBVIOUS
      <3>2. Sound(s, d) /\ (d.kind = "ACCEPT" => Suited(s, inbox.offer))
        BY <1>1, <1>2, <3>1, RulesSound
      <3> QED  BY <1>3, <2>1, <3>1, <3>2 DEF DealTypes
    <2>2. CASE \E reply \in Deal!Replies(s, inbox) :
                  /\ Deal!Act(s, inbox, Deal!Shaped(s, inbox, reply))
                  /\ judged' = IF offered'.type = "ACCEPT" THEN judged \union {s} ELSE judged
      <3>1. PICK reply \in Deal!Replies(s, inbox) :
                  /\ Deal!Act(s, inbox, Deal!Shaped(s, inbox, reply))
                  /\ judged' = IF offered'.type = "ACCEPT" THEN judged \union {s} ELSE judged
        BY <2>2
      <3>2. PICK d : d = Deal!Shaped(s, inbox, reply)
        OBVIOUS
      <3>3. Sound(s, d)
        BY <1>1, <1>2, <3>2, ModelSound
      <3>4. judged \subseteq judged' /\ judged' \subseteq Deal!Sides
        BY <1>3, <3>1 DEF DealTypes
      <3>5. offered'.type = "ACCEPT" => s \in judged'
        BY <3>1
      <3> QED  BY <3>1, <3>2, <3>3, <3>4, <3>5
    <2> QED  BY <1>1, <2>1, <2>2 DEF Deal!Consider
  <1>5. PICK d : /\ Deal!Act(s, inbox, d) /\ Sound(s, d)
                 /\ judged \subseteq judged' /\ judged' \subseteq Deal!Sides
                 /\ d.kind = "ACCEPT" /\ offered'.type = "ACCEPT" => Suited(s, inbox.offer) \/ s \in judged'
    BY <1>4
  <1>6. \A v, o : /\ Meant(v, o)' = Meant(v, o) /\ Lives(v, o)' = Lives(v, o) /\ Suited(v, o)' = Suited(v, o)
    BY <1>2, BoundsStay
  <1>7. \A v, o : Bearable(v, o) => Bearable(v, o)'
    BY <1>2, <1>5, BearableStays
  <1>8. task.accepted = {} => \A v \in Deal!Sides :
            last[v] # Deal!NoOffer => last[v].rate >= 0 /\ Meant(v, last[v])
    BY <1>3 DEF BargainInv, LastMeant
  <1>9. Deal!Nothing \in Said
    BY <1>3 DEF DealTypes
  <1>10. ASSUME NEW o \in Offers, o.rate >= 0, o # Deal!NoOffer, last' = [last EXCEPT ![s] = o],
                task.accepted # {} => o = task.offer,
                offered' \in Said, offered'.type \in {"COUNTER", "ACCEPT"}
         PROVE  DealTypes' /\ OnTable' /\ InHand' /\ BothBear'
    <2>1. last' \in [Deal!Sides -> Offers] /\ last'[s] = o /\ \A v \in Deal!Sides : v # s => last'[v] = last[v]
      BY <1>3, <1>10 DEF DealTypes
    <2>2. DealTypes'
      BY <1>2, <1>3, <1>5, <1>9, <1>10, <2>1, BoundsStay DEF DealTypes
    <2>3. OnTable'
      <3>1. task.by \in Deal!Sides /\ task.awaiting \in Deal!Sides
        BY <1>3 DEF DealTypes, Negotiated
      <3>2. /\ task.offer = last[task.by] /\ task.offer.rate >= 0 /\ Meant(task.by, task.offer)
            /\ Deal!Within(limits[task.by], "OFFER", task.offer, task.round, TRUE)
            /\ last["broker"] # Deal!NoOffer
            /\ task.accepted = {} => task.awaiting = Deal!Other(task.by)
            /\ task.accepted # {} => /\ task.awaiting = task.by
                                     /\ task.accepted = {Deal!Other(task.by)}
                                     /\ Bearable(Deal!Other(task.by), task.offer)
        BY <1>3 DEF BargainInv, OnTable
      <3>3. task.by # Deal!Other(task.by)
        BY <3>1 DEF Deal!Other
      <3>4. task.offer = last'[task.by]
        BY <1>1, <1>10, <2>1, <3>1, <3>2, <3>3
      <3>5. last'["broker"] # Deal!NoOffer
        BY <1>10, <2>1, <3>2 DEF Deal!Sides
      <3>6. Deal!Within(limits[task.by], "OFFER", task.offer, task.round, TRUE)'
        BY <1>2, <3>2 DEF Deal!Within
      <3>7. PICK o1, by, oth : o1 = task.offer /\ by = task.by /\ oth = Deal!Other(task.by)
        OBVIOUS
      <3>8. Meant(by, o1)' /\ (task.accepted # {} => Bearable(oth, o1)')
        BY <1>6, <1>7, <3>2, <3>7
      <3>9. Meant(task.by, task.offer)' /\ (task.accepted # {} => Bearable(Deal!Other(task.by), task.offer)')
        <4>1. task'.by = by /\ task'.offer = o1 /\ Deal!Other(task'.by) = oth
          BY <1>2, <3>7
        <4> QED  BY <3>8, <4>1 DEF Meant, Bearable, Suited, Lives
      <3> QED  BY <1>2, <3>2, <3>4, <3>5, <3>6, <3>9 DEF OnTable
    <2> QED  BY <1>2, <1>3, <1>10, <2>2, <2>3 DEF InHand, BothBear
  <1>11. CASE /\ d.kind = "COUNTER" /\ Deal!Within(limits[s], "OFFER", d.offer, inbox.round + 1, TRUE)
              /\ offered' = Deal!Sent(s, "COUNTER", d.offer, inbox.round + 1)
              /\ last' = [last EXCEPT ![s] = d.offer]
    <2>1. PICK o : o = d.offer
      OBVIOUS
    <2>2. Meant(s, o) /\ o \in Offers /\ inbox.type # "ACCEPT"
      BY <1>5, <1>11, <2>1 DEF Sound, Meant
    <2>3. o.rate >= 0 /\ o # Deal!NoOffer
      BY <1>3, <1>11, <2>1, <2>2, WithinHasRate
    <2>4. task.accepted = {}
      BY <1>3, <2>2 DEF BargainInv, InHand
    <2>5. /\ offered' \in Said /\ offered'.type = "COUNTER" /\ offered'.by = s /\ offered'.offer = o
      BY <1>1, <1>3, <1>11, <2>1, <2>2 DEF Deal!Sent, Said
    <2>6. DealTypes' /\ OnTable' /\ InHand' /\ BothBear'
      BY <1>10, <1>11, <2>1, <2>2, <2>3, <2>4, <2>5
    <2>7. last'[s] = o /\ \A v \in Deal!Sides : v # s => last'[v] = last[v]
      BY <1>3, <1>11, <2>1 DEF DealTypes
    <2>8. OnWire'
      <3>1. Deal!Within(limits[s], "OFFER", o, task.round + 1, TRUE)
        BY <1>3, <1>11, <2>1
      <3>2. Deal!Within(limits[offered.by], "OFFER", offered.offer, task.round + 1, TRUE)'
        BY <1>2, <2>5, <3>1 DEF Deal!Within
      <3> QED  BY <1>1, <1>2, <2>4, <2>5, <2>7, <3>2 DEF OnWire
    <2>9. LastMeant'
      <3>1. ASSUME NEW v \in Deal!Sides, last'[v] # Deal!NoOffer
            PROVE  last'[v].rate >= 0 /\ Meant(v, last[v])'
        <4>1. last'[v].rate >= 0 /\ Meant(v, last'[v])
          BY <1>8, <2>2, <2>3, <2>4, <2>7, <3>1
        <4>2. PICK w : w = last'[v]
          OBVIOUS
        <4>3. Meant(v, w)'
          BY <1>6, <4>1, <4>2
        <4> QED  BY <4>1, <4>2, <4>3 DEF Meant, Suited
      <3> QED  BY <3>1 DEF LastMeant
    <2> QED  BY <2>6, <2>8, <2>9 DEF BargainInv
  <1>12. CASE /\ d.kind = "ACCEPT"
              /\ \E room \in BOOLEAN : Deal!Within(limits[s], "ACCEPT", inbox.offer, inbox.round, room)
              /\ offered' = Deal!Sent(s, "ACCEPT", inbox.offer, inbox.round)
              /\ last' = [last EXCEPT ![s] = inbox.offer]
    <2>1. PICK o : o = inbox.offer
      OBVIOUS
    <2>2. PICK room \in BOOLEAN : Deal!Within(limits[s], "ACCEPT", o, inbox.round, room)
      BY <1>12, <2>1
    <2>3. o \in Offers /\ o = task.offer /\ o.rate >= 0 /\ o # Deal!NoOffer
      BY <1>3, <2>1, <2>2, WithinHasRate
    <2>4. /\ offered' \in Said /\ offered'.type = "ACCEPT" /\ offered'.by = s /\ offered'.offer = o
      BY <1>1, <1>3, <1>12, <2>1, <2>3 DEF Deal!Sent, Said
    <2>5. DealTypes' /\ OnTable' /\ InHand' /\ BothBear'
      BY <1>10, <1>12, <2>1, <2>3, <2>4
    <2>6. Lives(s, o)
      BY <1>5, <1>12, <2>1, <2>2 DEF Sound
    <2>7. Suited(s, o) \/ s \in judged'
      BY <1>5, <1>12, <2>1, <2>4
    <2>8. Bearable(s, o)'
      <3>1. Lives(s, o)' /\ (Suited(s, o)' = Suited(s, o))
        BY <1>6, <2>6
      <3> QED  BY <2>7, <3>1 DEF Bearable
    <2>9. OnWire'
      <3>1. Bearable(offered.by, offered.offer)'
        BY <2>4, <2>8 DEF Bearable, Lives, Suited
      <3> QED  BY <1>1, <1>2, <2>3, <2>4, <3>1 DEF OnWire
    <2>10. LastMeant'
      BY <2>4 DEF LastMeant
    <2> QED  BY <2>5, <2>9, <2>10 DEF BargainInv
  <1>13. CASE /\ offered' = Deal!Sent(s, "REJECT", Deal!NoOffer, inbox.round) /\ last' = last
    <2>1. Deal!NoOffer \in Offers
      BY DEF Deal!NoOffer, Offers
    <2>2. /\ offered' \in Said /\ offered'.type = "REJECT" /\ offered'.by = s
      BY <1>1, <1>3, <1>13, <2>1 DEF Deal!Sent, Said
    <2>3. DealTypes'
      BY <1>2, <1>3, <1>5, <1>9, <1>13, <2>2, BoundsStay DEF DealTypes
    <2>4. OnTable'
      <3>1. PICK o1, by, oth : o1 = task.offer /\ by = task.by /\ oth = Deal!Other(task.by)
        OBVIOUS
      <3>2. Meant(by, o1)' /\ (task.accepted # {} => Bearable(oth, o1)')
        BY <1>3, <1>6, <1>7, <3>1 DEF BargainInv, OnTable
      <3>3. Meant(task.by, task.offer)' /\ (task.accepted # {} => Bearable(Deal!Other(task.by), task.offer)')
        <4>1. task'.by = by /\ task'.offer = o1 /\ Deal!Other(task'.by) = oth
          BY <1>2, <3>1
        <4> QED  BY <3>2, <4>1 DEF Meant, Bearable, Suited, Lives
      <3>4. Deal!Within(limits[task.by], "OFFER", task.offer, task.round, TRUE)'
        BY <1>2, <1>3 DEF Deal!Within, BargainInv, OnTable
      <3> QED  BY <1>2, <1>3, <1>13, <3>3, <3>4 DEF BargainInv, OnTable
    <2>5. InHand' /\ BothBear' /\ OnWire'
      BY <1>1, <1>2, <1>3, <2>2 DEF InHand, BothBear, OnWire
    <2>6. LastMeant'
      BY <1>2, <1>6, <1>8, <1>13 DEF LastMeant, Meant, Suited
    <2> QED  BY <2>3, <2>4, <2>5, <2>6 DEF BargainInv
  <1> QED  BY <1>5, <1>11, <1>12, <1>13, ActCases

LEMMA RelayKeepsDeal ==
    ASSUME BargainInv, Deal!Relay
    PROVE  BargainInv'
  <1>1. /\ UNCHANGED <<ctx, limits, models, guaranteed, last, judged>> /\ offered' = Deal!Nothing
        /\ Deal!Opens \/ Deal!Counters \/ Deal!Accepted \/ Deal!WalksAway
    BY DEF Deal!Relay, Deal!principals
  <1>2. /\ offered # Deal!Nothing /\ task.state \in {"none", "working"}
        /\ inbox = Deal!Nothing /\ Deal!Nothing.type = "none"
        /\ task.state = "none" => offered.type = "TENDER" /\ task.accepted = {}
    <2>1. offered.type \in {"TENDER", "COUNTER", "ACCEPT", "REJECT"}
      BY <1>1 DEF Deal!Opens, Deal!Counters, Deal!Accepted, Deal!WalksAway
    <2> QED  BY <2>1 DEF BargainInv, DealTypes, InHand, Deal!Nothing
  <1>3. /\ DealTypes /\ Signed /\ offered.offer \in Offers /\ offered.by \in Deal!Sides
        /\ task.by \in Deal!Sides /\ task.awaiting \in Deal!Sides /\ task.round \in Nat
        /\ task.accepted \subseteq Deal!Sides /\ last \in [Deal!Sides -> Offers]
        /\ \A s \in Deal!Sides : Bounded(limits[s])
    BY DEF BargainInv, DealTypes, Signed, Said, Negotiated, Deal!Sides
  <1>4. \A v, o : /\ Meant(v, o)' = Meant(v, o)
                  /\ Bearable(v, o) => Bearable(v, o)'
    BY <1>1, BoundsStay, BearableStays
  <1>5. task.accepted = {} /\ offered.type # "ACCEPT" =>
            \A s \in Deal!Sides : last[s] # Deal!NoOffer => last[s].rate >= 0 /\ Meant(s, last[s])
    BY <1>2 DEF BargainInv, LastMeant
  <1>6. task.accepted = {} /\ offered.type # "ACCEPT" => LastMeant'
    BY <1>1, <1>4, <1>5 DEF LastMeant, Meant, Suited
  <1>7. Deal!Nothing \in Said
    BY <1>2 DEF BargainInv, DealTypes
  \* The venue ends it
  <1>8. ASSUME NEW st \in {"refused", "exhausted"}, task' = [task EXCEPT !.state = st], inbox' = inbox
        PROVE  BargainInv'
    <2>1. task' \in Negotiated /\ task'.state = st
      BY <1>3, <1>8 DEF DealTypes, Negotiated
    <2>2. DealTypes'
      BY <1>1, <1>2, <1>3, <1>7, <1>8, <2>1, BoundsStay DEF DealTypes
    <2>3. OnTable' /\ InHand' /\ OnWire' /\ LastMeant' /\ BothBear'
      BY <1>1, <1>2, <1>8, <2>1 DEF OnTable, InHand, OnWire, LastMeant, BothBear
    <2> QED  BY <2>2, <2>3 DEF BargainInv
  \* It forwards the message, and the negotiation goes on
  <1>9. ASSUME task' \in Negotiated, task'.state = "working", offered.type \in {"TENDER", "COUNTER", "ACCEPT"},
               inbox' = [offered EXCEPT !.round = task'.round]
        PROVE  /\ DealTypes' /\ OnWire' /\ BothBear'
               /\ inbox'.type = offered.type /\ inbox'.offer = offered.offer /\ inbox'.round = task'.round
    <2>1. task'.round \in Nat
      BY <1>9 DEF Negotiated
    <2>2. /\ inbox' \in Said /\ inbox'.type = offered.type /\ inbox'.offer = offered.offer
          /\ inbox'.round = task'.round
      BY <1>3, <1>9, <2>1 DEF DealTypes, Said
    <2>3. DealTypes'
      BY <1>1, <1>2, <1>3, <1>7, <1>9, <2>2, BoundsStay DEF DealTypes
    <2> QED  BY <1>1, <1>2, <1>9, <2>2, <2>3 DEF OnWire, BothBear
  <1>10. CASE Deal!Opens
    <2>1. /\ offered.type = "TENDER" /\ task.state = "none" /\ task.accepted = {} /\ offered.by = "broker"
          /\ offered.offer = last["broker"]
          /\ Deal!Within(limits["broker"], "OFFER", offered.offer, 1, TRUE)
      BY <1>2, <1>10 DEF Deal!Opens, BargainInv, OnWire, InHand
    <2>2. PICK o \in Offers : o = offered.offer
      BY <1>3
    <2>3. o.rate >= 0 /\ o # Deal!NoOffer
      BY <1>3, <2>1, <2>2, WithinHasRate DEF Deal!Sides
    <2>4. Meant("broker", o)
      BY <1>5, <2>1, <2>2, <2>3 DEF Deal!Sides
    <2>5. CASE /\ task' = [state |-> "working", offer |-> offered.offer, by |-> "broker",
                           round |-> 1, awaiting |-> "carrier", accepted |-> {}]
               /\ Deal!Forward(offered)
      <3>1. /\ task' \in Negotiated /\ task'.state = "working" /\ task'.offer = o /\ task'.by = "broker"
            /\ task'.round = 1 /\ task'.awaiting = "carrier" /\ task'.accepted = {}
        BY <2>2, <2>5 DEF Negotiated, Deal!Sides
      <3>2. /\ DealTypes' /\ OnWire' /\ BothBear'
            /\ inbox'.type = "TENDER" /\ inbox'.offer = o /\ inbox'.round = task'.round
        BY <1>9, <2>1, <2>2, <2>5, <3>1 DEF Deal!Forward
      <3>3. OnTable'
        <4>1. Meant("broker", o)'
          BY <1>4, <2>4
        <4>2. Meant(task.by, task.offer)'
          BY <3>1, <4>1 DEF Meant, Suited
        <4>3. Deal!Within(limits[task.by], "OFFER", task.offer, task.round, TRUE)'
          BY <1>1, <2>1, <2>2, <3>1 DEF Deal!Within
        <4> QED  BY <1>1, <2>1, <2>2, <2>3, <3>1, <4>2, <4>3 DEF OnTable, Deal!Other
      <3>4. InHand'
        BY <1>1, <1>2, <3>1, <3>2 DEF InHand
      <3>5. LastMeant'
        BY <1>6, <2>1
      <3> QED  BY <3>2, <3>3, <3>4, <3>5 DEF BargainInv
    <2>6. CASE task' = [task EXCEPT !.state = "refused"] /\ inbox' = inbox
      BY <1>8, <2>6
    <2> QED  BY <1>10, <2>5, <2>6 DEF Deal!Opens
  <1>11. CASE Deal!Counters
    <2>1. /\ offered.type = "COUNTER" /\ task.state = "working" /\ task.accepted = {}
          /\ offered.by = task.awaiting /\ offered.offer = last[offered.by]
          /\ Deal!Within(limits[offered.by], "OFFER", offered.offer, task.round + 1, TRUE)
      BY <1>2, <1>11 DEF Deal!Counters, BargainInv, OnWire
    <2>2. PICK o \in Offers, s \in Deal!Sides : o = offered.offer /\ s = offered.by
      BY <1>3
    <2>3. o.rate >= 0 /\ o # Deal!NoOffer
      BY <1>3, <2>1, <2>2, WithinHasRate
    <2>4. Meant(s, o)
      BY <1>5, <2>1, <2>2, <2>3
    <2>5. CASE /\ task' = [task EXCEPT !.offer = offered.offer, !.by = offered.by,
                                       !.round = @ + 1, !.awaiting = Deal!Other(offered.by)]
               /\ Deal!Forward(offered)
      <3>1. Deal!Other(s) \in Deal!Sides
        BY DEF Deal!Other, Deal!Sides
      <3>2. /\ task' \in Negotiated /\ task'.state = "working" /\ task'.offer = o /\ task'.by = s
            /\ task'.round = task.round + 1 /\ task'.awaiting = Deal!Other(s) /\ task'.accepted = {}
        <4>1. PICK oth \in Deal!Sides, n \in Nat : oth = Deal!Other(s) /\ n = task.round + 1
          BY <1>3, <3>1
        <4>2. task' = [task EXCEPT !.offer = o, !.by = s, !.round = n, !.awaiting = oth]
          BY <2>2, <2>5, <4>1
        <4> QED  BY <1>3, <2>1, <2>2, <4>1, <4>2 DEF DealTypes, Negotiated
      <3>3. /\ DealTypes' /\ OnWire' /\ BothBear'
            /\ inbox'.type = "COUNTER" /\ inbox'.offer = o /\ inbox'.round = task'.round
        BY <1>9, <2>1, <2>2, <2>5, <3>2 DEF Deal!Forward
      <3>4. OnTable'
        <4>1. Meant(s, o)'
          BY <1>4, <2>4
        <4>2. Meant(task.by, task.offer)'
          BY <3>2, <4>1 DEF Meant, Suited
        <4>3. Deal!Within(limits[task.by], "OFFER", task.offer, task.round, TRUE)'
          BY <1>1, <2>1, <2>2, <3>2 DEF Deal!Within
        <4>4. last["broker"] # Deal!NoOffer
          BY <2>1 DEF BargainInv, OnTable
        <4> QED  BY <1>1, <2>1, <2>2, <2>3, <3>2, <4>2, <4>3, <4>4 DEF OnTable, Deal!Other
      <3>5. InHand'
        BY <1>1, <1>2, <3>2, <3>3 DEF InHand
      <3>6. LastMeant'
        BY <1>6, <2>1
      <3> QED  BY <3>3, <3>4, <3>5, <3>6 DEF BargainInv
    <2>6. CASE /\ task' = [task EXCEPT !.state = IF task.round + 1 > VenueRounds
                                                 THEN "exhausted" ELSE "refused"]
               /\ inbox' = inbox
      BY <1>8, <2>6
    <2> QED  BY <1>11, <2>5, <2>6 DEF Deal!Counters
  <1>12. CASE Deal!Accepted
    <2>1. /\ offered.type = "ACCEPT" /\ task.state = "working" /\ offered.by = task.awaiting
          /\ offered.offer = task.offer /\ Bearable(offered.by, offered.offer)
      BY <1>2, <1>12 DEF Deal!Accepted, BargainInv, OnWire
    <2>2. PICK o, by, oth, s : /\ o = task.offer /\ by = task.by /\ oth = Deal!Other(by) /\ s = task.awaiting
      OBVIOUS
    <2>3. /\ o = last[by] /\ o.rate >= 0 /\ Meant(by, o) /\ Bearable(s, o)
          /\ Deal!Within(limits[by], "OFFER", o, task.round, TRUE) /\ last["broker"] # Deal!NoOffer
          /\ task.accepted = {} => s = oth
          /\ task.accepted # {} => s = by /\ task.accepted = {oth} /\ Bearable(oth, o)
      BY <2>1, <2>2 DEF BargainInv, OnTable
    <2>4. /\ by \in Deal!Sides /\ oth \in Deal!Sides /\ s \in Deal!Sides /\ oth # by
          /\ Deal!Other(oth) = by /\ Deal!Sides = {by, oth} /\ o \in Offers
      BY <1>3, <2>1, <2>2 DEF Deal!Other, Deal!Sides
    <2>5. Meant(by, o)' /\ Bearable(s, o)' /\ (task.accepted # {} => Bearable(oth, o)')
      BY <1>4, <2>3
    <2>6. CASE task' = [task EXCEPT !.state = "refused"] /\ inbox' = inbox
      BY <1>8, <2>6
    <2>7. CASE /\ task' = [task EXCEPT
                              !.accepted = task.accepted \union {s}, !.awaiting = Deal!Other(s),
                              !.state = IF task.accepted \union {s} = Deal!Sides THEN "committed" ELSE @]
               /\ IF task.accepted \union {s} = Deal!Sides THEN UNCHANGED inbox ELSE Deal!Forward(offered)
      <3>1. Deal!Other(s) \in Deal!Sides
        BY DEF Deal!Other, Deal!Sides
      <3>2. /\ task' \in Negotiated /\ task'.offer = o /\ task'.by = by /\ task'.round = task.round
            /\ task'.awaiting = Deal!Other(s) /\ task'.accepted = task.accepted \union {s}
            /\ task'.state = IF task.accepted \union {s} = Deal!Sides THEN "committed" ELSE "working"
        BY <1>3, <2>1, <2>2, <2>4, <2>7, <3>1, ZenonT(60) DEF DealTypes, Negotiated
      <3>3. CASE task.accepted = {}
        <4>1. task'.accepted = {oth} /\ task'.awaiting = by /\ task'.state = "working" /\ s = oth
          BY <2>3, <2>4, <3>2, <3>3
        <4>2. Deal!Forward(offered)
          BY <2>3, <2>4, <2>7, <3>3
        <4>3. /\ DealTypes' /\ OnWire' /\ BothBear'
              /\ inbox'.type = "ACCEPT" /\ inbox'.offer = o /\ inbox'.round = task'.round
          BY <1>9, <2>1, <2>2, <3>2, <4>1, <4>2 DEF Deal!Forward
        <4>4. OnTable'
          <5>1. Meant(task.by, task.offer)' /\ Bearable(Deal!Other(task.by), task.offer)'
            <6>1. Deal!Other(task'.by) = oth
              BY <2>2, <3>2
            <6> QED  BY <2>5, <3>2, <4>1, <6>1 DEF Meant, Suited, Bearable, Lives
          <5>2. Deal!Within(limits[task.by], "OFFER", task.offer, task.round, TRUE)'
            BY <1>1, <2>3, <3>2 DEF Deal!Within
          <5> QED  BY <1>1, <2>2, <2>3, <3>2, <4>1, <5>1, <5>2 DEF OnTable
        <4>5. InHand'
          BY <1>1, <1>2, <3>2, <4>1, <4>3 DEF InHand
        <4>6. LastMeant'
          BY <4>1 DEF LastMeant
        <4> QED  BY <4>3, <4>4, <4>5, <4>6 DEF BargainInv
      <3>4. CASE task.accepted # {}
        <4>1. task.accepted \union {s} = Deal!Sides /\ task'.state = "committed" /\ inbox' = inbox
          BY <2>3, <2>4, <2>7, <3>2, <3>4
        <4>2. DealTypes'
          BY <1>1, <1>2, <1>3, <1>7, <3>2, <4>1, BoundsStay DEF DealTypes
        <4>3. BothBear'
          <5>1. \A v \in Deal!Sides : Bearable(v, o)'
            BY <2>3, <2>4, <2>5, <3>4
          <5> QED  BY <3>2, <5>1 DEF BothBear, Bearable, Lives, Suited
        <4>4. OnTable' /\ InHand' /\ OnWire' /\ LastMeant'
          BY <1>1, <1>2, <4>1 DEF OnTable, InHand, OnWire, LastMeant
        <4> QED  BY <4>2, <4>3, <4>4 DEF BargainInv
      <3> QED  BY <3>3, <3>4
    <2>8. offered.by = s
      BY <2>1, <2>2
    <2> QED  BY <1>12, <2>6, <2>7, <2>8 DEF Deal!Accepted
  <1>13. CASE Deal!WalksAway
    BY <1>8, <1>13 DEF Deal!WalksAway
  <1> QED  BY <1>1, <1>10, <1>11, <1>12, <1>13

LEMMA DealStep == BargainInv /\ [Deal!Next]_deal => BargainInv'
  <1> SUFFICES ASSUME BargainInv, [Deal!Next]_deal PROVE BargainInv'
    OBVIOUS
  <1>1. CASE Deal!Next
    BY <1>1, TenderKeepsDeal, ConsiderKeepsDeal, RelayKeepsDeal DEF Deal!Next
  <1>2. CASE UNCHANGED deal
    <2>1. UNCHANGED <<ctx, limits, models, guaranteed, task, inbox, offered, last, judged>>
      BY <1>2 DEF deal
    <2>2. \A v, o : /\ Meant(v, o)' = Meant(v, o) /\ Suited(v, o)' = Suited(v, o)
                    /\ Bearable(v, o) => Bearable(v, o)'
      BY <2>1, BoundsStay, BearableStays
    <2>3. DealTypes'
      BY <2>1, BoundsStay DEF BargainInv, DealTypes
    <2>4. PICK by, oth, aw, o, off :
              by = task.by /\ oth = Deal!Other(by) /\ aw = offered.by /\ o = task.offer /\ off = offered.offer
      OBVIOUS
    <2>5. OnTable'
      <3>1. task.state = "working" => Meant(by, o)' /\ (task.accepted # {} => Bearable(oth, o)')
        BY <2>2, <2>4 DEF BargainInv, OnTable
      <3>2. task.state = "working" => /\ Meant(task.by, task.offer)'
                                      /\ task.accepted # {} => Bearable(Deal!Other(task.by), task.offer)'
        <4>1. task'.by = by /\ task'.offer = o /\ Deal!Other(task'.by) = oth
          BY <2>1, <2>4
        <4> QED  BY <3>1, <4>1 DEF Meant, Suited, Bearable, Lives
      <3>3. task.state = "working" => Deal!Within(limits[task.by], "OFFER", task.offer, task.round, TRUE)'
        BY <2>1 DEF BargainInv, OnTable, Deal!Within
      <3> QED  BY <2>1, <3>2, <3>3 DEF BargainInv, OnTable
    <2>6. InHand'
      BY <2>1 DEF BargainInv, InHand
    <2>7. OnWire'
      <3>1. offered.type = "ACCEPT" => Bearable(aw, off)'
        BY <2>2, <2>4 DEF BargainInv, OnWire
      <3>2. offered.type = "ACCEPT" => Bearable(offered.by, offered.offer)'
        <4>1. offered'.by = aw /\ offered'.offer = off
          BY <2>1, <2>4
        <4> QED  BY <3>1, <4>1 DEF Suited, Bearable, Lives
      <3> QED  BY <2>1, <3>2 DEF BargainInv, OnWire, Deal!Within
    <2>8. LastMeant'
      BY <2>1, <2>2 DEF BargainInv, LastMeant, Meant, Suited
    <2>9. BothBear'
      <3>1. task.state = "committed" => \A s \in Deal!Sides : Bearable(s, o)'
        BY <2>2, <2>4 DEF BargainInv, BothBear
      <3> QED  BY <2>1, <2>4, <3>1 DEF BothBear, Bearable, Lives, Suited
    <2> QED  BY <2>3, <2>5, <2>6, <2>7, <2>8, <2>9 DEF BargainInv
  <1> QED  BY <1>1, <1>2

LEMMA DealKept == BargainInv => DealHonoured
  <1> SUFFICES ASSUME BargainInv PROVE DealHonoured
    OBVIOUS
  <1>1. Deal!DealWithinEconomics /\ Deal!PickupHonoured
    BY DEF BargainInv, BothBear, Deal!Committed, Deal!DealWithinEconomics, Deal!PickupHonoured,
           Bearable, Lives, Suited, Deal!Sides
  <1>2. ASSUME inbox.type = "ACCEPT", ~(task.awaiting = "carrier" /\ Deal!OpeningAsk < Deal!Floor)
        PROVE  /\ Deal!Countersigns(task.awaiting, inbox.offer)
               /\ Deal!Within(limits[task.awaiting], "OFFER", inbox.offer, inbox.round, TRUE)
    <2>1. inbox # Deal!Nothing
      BY <1>2 DEF Deal!Nothing
    <2>2. /\ task.state = "working" /\ inbox.offer = task.offer /\ inbox.round = task.round
          /\ task.accepted # {} /\ task.awaiting \in {"broker", "carrier"}
      BY <1>2, <2>1, TurnOf DEF BargainInv, InHand
    <2>3. PICK s, o : s = task.awaiting /\ o = task.offer
      OBVIOUS
    <2>4. /\ s = task.by /\ o = last[s] /\ o.rate >= 0 /\ Meant(s, o)
          /\ Deal!Within(limits[s], "OFFER", o, task.round, TRUE)
      BY <2>2, <2>3 DEF BargainInv, OnTable
    <2>5. o # Deal!NoOffer
      BY <2>4 DEF Deal!NoOffer
    <2>6. Deal!Countersigns(s, o)
      <3>1. CASE s = "broker"
        BY <2>4, <2>5, <3>1 DEF Deal!Countersigns, Meant
      <3>2. CASE s = "carrier"
        BY <1>2, <2>3, <2>4, <2>5, <3>2 DEF Deal!Countersigns, Meant
      <3> QED  BY <2>2, <2>3, <3>1, <3>2
    <2> QED  BY <2>2, <2>3, <2>4, <2>6
  <1>3. Deal!HonoursItsOffer
    BY <1>2 DEF Deal!HonoursItsOffer
  <1> QED  BY <1>1, <1>3 DEF DealHonoured

\* In a behaviour of the bargaining its invariant; else nothing is bargained
BargainPart ==
    /\ part \in {"session", "bargain", "pin", "own", "venue"}
    /\ IF part = "bargain" THEN BargainInv
       ELSE task = [state |-> "none"] /\ inbox = [type |-> "none"]

\* A deal is one both principals can live with and whose pickup both can make where
\* the rules decided, and no party refuses the acceptance of its own offer (maxPay,
\* economics, windowsOk, onAcceptRequest): whatever the load's miles and the bounds
\* on rounds, whoever opened, conceded or accepted, the rules or a language model
THEOREM DealAlwaysHonoured == MCSpec => []DealHonoured
  <1>1. MCInit => BargainPart
    <2> SUFFICES ASSUME MCInit PROVE BargainPart
      OBVIOUS
    <2>1. CASE part = "bargain"
      BY <2>1, DealStarts DEF MCInit, BargainPart
    <2>2. CASE part # "bargain"
      BY <2>2 DEF MCInit, BargainPart
    <2> QED  BY <2>1, <2>2
  <1>2. BargainPart /\ [MCNext]_<<part, vars, deal, pin, own, venueKeys>> => BargainPart'
    <2> SUFFICES ASSUME BargainPart, [MCNext]_<<part, vars, deal, pin, own, venueKeys>>
                 PROVE  BargainPart'
      OBVIOUS
    <2>1. part' = part /\ (part = "bargain" => [Deal!Next]_deal) /\ (part # "bargain" => UNCHANGED deal)
      BY DEF MCNext
    <2>2. CASE part = "bargain"
      BY <2>1, <2>2, DealStep DEF BargainPart
    <2>3. CASE part # "bargain"
      BY <2>1, <2>3 DEF BargainPart, deal
    <2> QED  BY <2>2, <2>3
  <1>3. BargainPart => DealHonoured
    <2> SUFFICES ASSUME BargainPart PROVE DealHonoured
      OBVIOUS
    <2>1. CASE part = "bargain"
      BY <2>1, DealKept DEF BargainPart
    <2>2. CASE part # "bargain"
      <3>1. task.state = "none" /\ inbox.type = "none"
        BY <2>2 DEF BargainPart
      <3> QED  BY <3>1 DEF DealHonoured, Deal!DealWithinEconomics, Deal!PickupHonoured,
                           Deal!HonoursItsOffer, Deal!Committed
    <2> QED  BY <2>1, <2>2
  <1> QED  BY <1>1, <1>2, <1>3, PTL DEF MCSpec

----------------------------------------------------------------------------
(* The venue's keys                                                        *)

\* The count of VenueKeys is the one of FiniteSets
LEMMA SameCount == \A S : Ring!Cardinality(S) = Cardinality(S)
  BY Zenon DEF Ring!Cardinality, Cardinality, Ring!IsFiniteSet, IsFiniteSet


LEMMA VenueKeysStart == Ring!Init => KeysInv
  <1> SUFFICES ASSUME Ring!Init PROVE KeysInv
    OBVIOUS
  <1> DEFINE founding == [key |-> 1, root |-> 1, at |-> 1, from |-> 1]
             genesis == [type |-> "GENESIS", key |-> 1, at |-> 1, cert |-> founding]
  <1>1. /\ venueClock = 1 /\ nextFile = 0 /\ pending = 0 /\ step = "idle" /\ mode = "serving"
        /\ order = Ring!Nothing /\ journal = Ring!Nothing
        /\ venueCredential = [key |-> 0, issued |-> 0, signed |-> 0]
        /\ store = [attested |-> {}, owed |-> {}] /\ venueMem = store
        /\ ring = [roots |-> <<0>>, active |-> 1, certs |-> {founding}, revs |-> {}]
        /\ ledger = <<genesis>>
    BY DEF Ring!Init, Ring!None
  <1>2. founding \in Certs /\ founding.key = 1 /\ founding.from = 1 /\ founding.at = 1
        /\ founding.root = 1
    BY DEF Certs
  <1>3. genesis.type = "GENESIS" /\ genesis.key = 1 /\ genesis.at = 1 /\ genesis.cert = founding
    OBVIOUS
  <1>4. ledger \in Seq({genesis}) /\ Len(ledger) = 1 /\ DOMAIN ledger = {1} /\ ledger[1] = genesis
    BY <1>1
  <1>5. /\ ring.roots = <<0>> /\ ring.active = 1 /\ ring.certs = {founding} /\ ring.revs = {}
        /\ Len(ring.roots) = 1 /\ ring.roots[1] = 0 /\ ring.roots \in Seq(Nat)
    BY <1>1
  <1> HIDE DEF founding, genesis
  <1>6. ~KeyJournal /\ ~RootJournal /\ ~KeyAhead /\ ~RootAhead
    BY <1>1 DEF KeyJournal, RootJournal, KeyAhead, RootAhead, Ring!Nothing
  <1>7. RingTypes
    <2>1. ring \in [roots : Seq(Nat), active : Nat \ {0}, certs : SUBSET Certs, revs : SUBSET Revocations]
      BY <1>1, <1>2
    <2>2. venueClock \in Instants
      BY <1>1, VenueTimeAssumption DEF Instants
    <2> QED  BY <1>1, <1>2, <1>5, <2>1, <2>2 DEF RingTypes, Steps
  <1>8. OrderInv /\ KeyJournalInv /\ RootJournalInv /\ StepInv
    BY <1>1, <1>6 DEF OrderInv, KeyJournalInv, RootJournalInv, StepInv, Applying
  <1>9. LedgerInv
    <2>1. Top = 1
      BY <1>5, <1>6 DEF Top
    <2>2. \A i \in DOMAIN ledger : i = 1 /\ ledger[i] = genesis
      BY <1>4
    <2>3. \A k \in 1 .. 1 : k = 1
      OBVIOUS
    <2>4. \A i \in DOMAIN ledger :
             /\ ledger[i].type \in EntryTypes /\ (ledger[i].type = "GENESIS" <=> i = 1)
             /\ ledger[i].key \in 1 .. 1 /\ ledger[i].at \in 1 .. venueClock
             /\ \A j \in DOMAIN ledger : i <= j => ledger[i].key <= ledger[j].key
      BY <1>1, <1>3, <2>2 DEF EntryTypes
    <2>5. \A i \in DOMAIN ledger : ledger[i].cert.key = ledger[i].key /\ ledger[i].cert \in ring.certs
      BY <1>2, <1>3, <1>5, <2>2
    <2>6. \A k \in 1 .. 1 : \E i \in DOMAIN ledger : ledger[i].type \in Certifying /\ ledger[i].key = k
      BY <1>3, <1>4, <2>3 DEF Certifying
    <2> QED  BY <1>4, <2>1, <2>4, <2>5, <2>6 DEF LedgerInv
  <1>10. RingInv
    BY <1>3, <1>4, <1>5, <1>6 DEF RingInv, Roots
  <1>11. TenureInv
    <2>1. Ring!InTime(ring.roots, founding)
      BY <1>2, <1>5, VenueTimeAssumption DEF Ring!InTime, Ring!UntrustedFrom, Ring!None
    <2> QED  BY <1>2, <1>3, <1>4, <1>5, <1>6, <2>1 DEF TenureInv
  <1>12. AffirmedInv /\ AttestedInv /\ CredentialInv
    BY <1>1, <1>5 DEF AffirmedInv, AttestedInv, CredentialInv, Attesting, Declared, Marks
  <1> QED  BY <1>7, <1>8, <1>9, <1>10, <1>11, <1>12 DEF KeysInv

\* The ledger after an entry
LEMMA LedgerGrows ==
    ASSUME LedgerInv, NEW e, ledger' = Append(ledger, e)
    PROVE  /\ \E S : ledger' \in Seq(S)
           /\ Len(ledger) \in Nat /\ Len(ledger') = Len(ledger) + 1
           /\ DOMAIN ledger = 1 .. Len(ledger)
           /\ DOMAIN ledger' = DOMAIN ledger \cup {Len(ledger) + 1}
           /\ \A i \in DOMAIN ledger : ledger'[i] = ledger[i] /\ i \in Nat /\ i <= Len(ledger)
           /\ ledger'[Len(ledger) + 1] = e
  <1>1. PICK S : ledger \in Seq(S)
    BY DEF LedgerInv
  <1>2. PICK T : T = S \cup {e}
    OBVIOUS
  <1>3. ledger \in Seq(T) /\ e \in T
    <2>1. ledger \in [1 .. Len(ledger) -> S] /\ Len(ledger) \in Nat
      BY <1>1
    <2>2. ledger \in [1 .. Len(ledger) -> T]
      BY <1>2, <2>1
    <2> QED  BY <1>2, <2>1, <2>2
  <1>4. /\ Append(ledger, e) \in Seq(T) /\ Len(Append(ledger, e)) = Len(ledger) + 1
        /\ \A i \in 1 .. Len(ledger) : Append(ledger, e)[i] = ledger[i]
        /\ Append(ledger, e)[Len(ledger) + 1] = e
    BY <1>3, AppendProperties
  <1>5. Len(ledger) \in Nat /\ DOMAIN ledger = 1 .. Len(ledger) /\ DOMAIN ledger' = 1 .. Len(ledger')
    BY <1>3, <1>4
  <1> QED  BY <1>4, <1>5

\* While chain, ring and rotation stand, what is said of them stands
LEMMA ChainStays ==
    ASSUME LedgerInv, RingInv, TenureInv, RingTypes,
           UNCHANGED <<ring, ledger>>, venueClock' \in Nat, venueClock <= venueClock',
           \/ UNCHANGED journal
           \/ ~KeyAhead /\ ~RootAhead /\ ~KeyAhead' /\ ~RootAhead'
    PROVE  LedgerInv' /\ RingInv' /\ TenureInv' /\ Top' = Top /\ Roots' = Roots
  <1>1. /\ ring' = ring /\ ledger' = ledger /\ venueClock \in Nat
        /\ KeyAhead' = KeyAhead /\ RootAhead' = RootAhead
        /\ KeyAhead \/ RootAhead => journal' = journal
    <2>1. CASE UNCHANGED journal
      BY <2>1 DEF KeyAhead, RootAhead, KeyJournal, RootJournal, Ahead, Ring!Recorded,
                  Ring!AlreadyInstalled, Ring!On, RingTypes, Instants
    <2>2. CASE ~UNCHANGED journal
      BY <2>2 DEF RingTypes, Instants, KeyAhead, RootAhead
    <2> QED  BY <2>1, <2>2
  <1>2. Top' = Top /\ Roots' = Roots
    BY <1>1 DEF Top, Roots
  <1>3. LedgerInv'
    <2>1. \A t : t \in 1 .. venueClock => t \in 1 .. venueClock'
      BY <1>1
    <2> QED  BY <1>1, <1>2, <2>1 DEF LedgerInv
  <1>4. RingInv'
    BY <1>1, <1>2 DEF RingInv
  <1>5. TenureInv'
    BY <1>1 DEF TenureInv, Ring!InTime, Ring!UntrustedFrom
  <1> QED  BY <1>2, <1>3, <1>4, <1>5

\* So does what is said of signatures in doubt, unless a step of the rotation that
\* deals with them is over
LEMMA DoubtStays ==
    ASSUME AffirmedInv, AttestedInv, CredentialInv, RingTypes,
           UNCHANGED <<ring, ledger, venueMem, store, venueCredential>>,
           venueClock' \in Nat, venueClock <= venueClock',
           \A rv \in Declared :
              /\ Before(rv, Resealed) => Before(rv, Resealed)'
              /\ Before(rv, Persisted) => Before(rv, Persisted)'
              /\ Before(rv, Reattested) => Before(rv, Reattested)'
              /\ Before(rv, Reissued) => Before(rv, Reissued)'
    PROVE  AffirmedInv' /\ AttestedInv' /\ CredentialInv'
  <1>1. Declared' = Declared /\ ring' = ring /\ ledger' = ledger /\ venueClock \in Nat
    BY DEF Declared, RingTypes, Instants
  <1>2. AffirmedInv'
    <2>1. \A rv \in Declared : Affirmed(rv) => Affirmed(rv)'
      BY <1>1 DEF Affirmed, Doubted, Affirms
    <2> QED  BY <1>1, <2>1 DEF AffirmedInv
  <1>3. Attesting(venueMem, Reattested)'
    BY <1>1 DEF AttestedInv, Attesting, Marks
  <1>4. Attesting(store, Persisted)'
    BY <1>1 DEF AttestedInv, Attesting, Marks
  <1>5. CredentialInv'
    BY <1>1 DEF CredentialInv
  <1> QED  BY <1>2, <1>3, <1>4, <1>5 DEF AttestedInv


\* An entry of the active key that is no rotation's leaves the rest as it stands
LEMMA PlainEntry ==
    ASSUME LedgerInv, RingInv, TenureInv, RingTypes, ~KeyAhead, ~RootAhead,
           NEW e, e.type \in {"COMMITMENT", "REATTESTATION", "RESEAL"},
           e.key = ring.active, e.at = venueClock, ledger' = Append(ledger, e),
           UNCHANGED <<venueClock, ring, journal>>
    PROVE  /\ LedgerInv' /\ RingInv' /\ TenureInv'
           /\ Ring!Recorded(journal) /\ journal.kind \in {"KEY_ROTATION", "ROOT_ROTATION"}
              => Ring!Recorded(journal)'
           /\ \A rv \in Declared : Affirmed(rv) => Affirmed(rv)'
  <1>1. PICK n : n = Len(ledger) + 1
    OBVIOUS
  <1>2. /\ \E S : ledger' \in Seq(S)
        /\ n \in Nat /\ Len(ledger') = n
        /\ DOMAIN ledger' = DOMAIN ledger \cup {n} /\ n \notin DOMAIN ledger
        /\ \A i \in DOMAIN ledger : ledger'[i] = ledger[i] /\ i \in Nat /\ i < n
        /\ ledger'[n] = e
    BY <1>1, LedgerGrows
  <1>3. ring' = ring /\ venueClock' = venueClock /\ journal' = journal
        /\ venueClock \in Nat /\ venueClock >= 1 /\ ring.active \in Nat /\ ring.active >= 1
    BY DEF RingTypes, Instants
  <1>4. \A type \in {"KEY_ROTATION", "ROOT_ROTATION"} : Ring!On(type)' = Ring!On(type)
    BY <1>2 DEF Ring!On
  <1>5. \A type \in {"KEY_ROTATION", "ROOT_ROTATION"} : \A i \in Ring!On(type) : ledger'[i] = ledger[i]
    BY <1>2 DEF Ring!On
  <1>6. journal.kind \in {"KEY_ROTATION", "ROOT_ROTATION"} =>
           (Ring!Recorded(journal)' <=> Ring!Recorded(journal))
    BY <1>3, <1>4, <1>5, ZenonT(60) DEF Ring!Recorded
  <1>7. ~KeyAhead' /\ ~RootAhead'
    BY <1>3, <1>6 DEF KeyAhead, RootAhead, KeyJournal, RootJournal, Ahead, Ring!AlreadyInstalled
  <1>8. Top = ring.active /\ Top' = ring.active /\ Roots = Len(ring.roots) /\ Roots' = Len(ring.roots)
    BY <1>3, <1>7 DEF Top, Roots
  <1>9. /\ \A i \in DOMAIN ledger :
             /\ ledger[i].type \in EntryTypes /\ (ledger[i].type = "GENESIS" <=> i = 1)
             /\ ledger[i].key \in 1 .. ring.active /\ ledger[i].at \in 1 .. venueClock
             /\ \A j \in DOMAIN ledger : i <= j => ledger[i].key <= ledger[j].key
        /\ \A i \in DOMAIN ledger : ledger[i].type \in Certifying =>
             ledger[i].cert.key = ledger[i].key /\ ledger[i].cert \in ring.certs
        /\ \A k \in 1 .. ring.active : \E i \in DOMAIN ledger :
             ledger[i].type \in Certifying /\ ledger[i].key = k
        /\ Len(ledger) >= 1
    BY <1>8 DEF LedgerInv
  <1>10. /\ e.type \in EntryTypes /\ e.type # "GENESIS" /\ e.type \notin Certifying /\ n # 1
         /\ e.key \in 1 .. ring.active /\ e.at \in 1 .. venueClock
    BY <1>1, <1>3, <1>9, LedgerGrows DEF EntryTypes, Certifying
  <1>11. LedgerInv'
    <2>1. \A i \in DOMAIN ledger' :
             /\ ledger'[i].type \in EntryTypes /\ (ledger'[i].type = "GENESIS" <=> i = 1)
             /\ ledger'[i].key \in 1 .. ring.active /\ ledger'[i].at \in 1 .. venueClock
      BY <1>2, <1>9, <1>10
    <2>2. ASSUME NEW i \in DOMAIN ledger', NEW j \in DOMAIN ledger', i <= j
          PROVE  ledger'[i].key <= ledger'[j].key
      <3>1. CASE j = n
        BY <1>2, <1>3, <2>1, <3>1
      <3>2. CASE j # n
        BY <1>2, <1>9, <2>2, <3>2
      <3> QED  BY <3>1, <3>2
    <2>3. \A i \in DOMAIN ledger' : ledger'[i].type \in Certifying =>
             ledger'[i].cert.key = ledger'[i].key /\ ledger'[i].cert \in ring.certs
      BY <1>2, <1>9, <1>10
    <2>4. \A k \in 1 .. ring.active : \E i \in DOMAIN ledger' :
             ledger'[i].type \in Certifying /\ ledger'[i].key = k
      BY <1>2, <1>9
    <2>5. Len(ledger') >= 1
      BY <1>1, <1>2, <1>9
    <2> QED  BY <1>2, <1>3, <1>7, <1>8, <2>1, <2>2, <2>3, <2>4, <2>5, ZenonT(60) DEF LedgerInv
  <1>12. RingInv'
    <2>1. \A i \in DOMAIN ledger' :
             ledger'[i].type \in {"KEY_ROTATION", "ROOT_ROTATION"} =>
                i \in DOMAIN ledger /\ ledger'[i] = ledger[i]
      BY <1>2, <1>10
    <2>2. \A i \in DOMAIN ledger' : ledger'[i].type = "ROOT_ROTATION" =>
             /\ ledger'[i].root \in 2 .. Len(ring.roots)
             /\ ledger'[i].since = ring.roots[ledger'[i].root]
      BY <1>8, <2>1 DEF RingInv
    <2>3. \A r \in 2 .. Len(ring.roots) : \E i \in DOMAIN ledger' :
             ledger'[i].type = "ROOT_ROTATION" /\ ledger'[i].root = r
      BY <1>2, <1>8 DEF RingInv
    <2>4. \A i \in DOMAIN ledger' : ledger'[i].type = "KEY_ROTATION" =>
             \A rv \in ledger'[i].revs : rv \in ring.revs
      BY <2>1 DEF RingInv
    <2>5. \A rv \in ring.revs : \E i \in DOMAIN ledger' :
             ledger'[i].type = "KEY_ROTATION" /\ rv \in ledger'[i].revs
      BY <1>2 DEF RingInv
    <2>6. \A rv \in ring.revs : rv.key < ring.active
      BY DEF RingInv
    <2> QED  BY <1>3, <1>7, <1>8, <2>2, <2>3, <2>4, <2>5, <2>6, SMTT(60) DEF RingInv
  <1>13. TenureInv'
    <2>1. \A c \in ring.certs : c.from <= venueClock
      BY DEF RingTypes
    <2>2. \A i \in DOMAIN ledger' : \A c \in ring.certs : c.key = ledger'[i].key => c.from <= ledger'[i].at
      BY <1>2, <2>1 DEF TenureInv
    <2>3. \E c \in ring.certs : c.key = ring.active /\ Ring!InTime(ring.roots, c)
      BY DEF TenureInv
    <2>4. \A c, d \in ring.certs : c.key = d.key => c.from = d.from
      BY DEF TenureInv
    <2> QED  BY <1>3, <1>7, <2>2, <2>3, <2>4 DEF TenureInv, Ring!InTime, Ring!UntrustedFrom
  <1>14. ASSUME NEW rv \in Declared, Affirmed(rv) PROVE Affirmed(rv)'
    <2>1. rv.key < ring.active /\ rv.key \in Nat
      BY <1>14 DEF Declared, RingInv, RingTypes, Revocations
    <2>2. ASSUME NEW i \in DOMAIN ledger', Doubted(rv, i)'
          PROVE  \E s \in DOMAIN ledger' : Affirms(s, rv, i)'
      <3>1. i # n
        BY <1>2, <1>3, <2>1, <2>2 DEF Doubted
      <3>2. i \in DOMAIN ledger /\ Doubted(rv, i)
        BY <1>2, <2>2, <3>1 DEF Doubted
      <3>3. PICK s \in DOMAIN ledger : Affirms(s, rv, i)
        BY <1>14, <3>2 DEF Affirmed
      <3> QED  BY <1>2, <3>3 DEF Affirms
    <2> QED  BY <2>2 DEF Affirmed
  <1> QED  BY <1>6, <1>11, <1>12, <1>13, <1>14

\* Least and greatest of a set of places
LEMMA LeastPlace ==
    ASSUME NEW n \in Nat, NEW P \in SUBSET (1 .. n), P # {}
    PROVE  \E p \in P : \A q \in P : p <= q
  <1>1. P \subseteq Nat
    OBVIOUS
  <1>2. PICK p \in P : \A q \in P : ~(<<q, p>> \in OpToRel(<, Nat))
    BY <1>1, NatLessThanWellFounded, WFMin
  <1>3. \A q \in P : ~(q < p)
    BY <1>1, <1>2 DEF OpToRel
  <1> QED  BY <1>1, <1>3

LEMMA GreatestPlace ==
    ASSUME NEW n \in Nat, NEW P \in SUBSET (1 .. n), P # {}
    PROVE  \E p \in P : \A q \in P : q <= p
  <1> DEFINE Q == {n + 1 - p : p \in P}
  <1>1. Q \in SUBSET (1 .. n) /\ Q # {}
    <2>1. \A p \in P : n + 1 - p \in 1 .. n
      OBVIOUS
    <2>2. \A q \in Q : q \in 1 .. n
      BY <2>1
    <2>3. Q # {}
      OBVIOUS
    <2> QED  BY <2>2, <2>3, Zenon
  <1> HIDE DEF Q
  <1>2. PICK m \in Q : \A q \in Q : m <= q
    BY <1>1, LeastPlace
  <1>3. PICK p \in P : m = n + 1 - p
    BY <1>2 DEF Q
  <1>4. ASSUME NEW q \in P PROVE q <= p
    <2>1. n + 1 - q \in Q
      BY DEF Q
    <2>2. m <= n + 1 - q /\ q \in Nat /\ p \in Nat
      BY <1>2, <2>1
    <2> QED  BY <1>3, <2>2
  <1> QED  BY <1>4


LEMMA VenueTicks ==
    ASSUME KeysInv, Ring!Tick
    PROVE  KeysInv'
  <1>1. /\ venueClock' = venueClock + 1 /\ venueClock < MaxVenueTime /\ step = "idle"
        /\ UNCHANGED <<ring, keyFile, nextFile, journal, ledger, venueCredential, store>>
        /\ UNCHANGED <<pending, order, step, venueMem, mode>>
    BY DEF Ring!Tick, Ring!files
  <1>2. venueClock \in Nat /\ venueClock' \in Nat /\ venueClock <= venueClock' /\ venueClock' \in Instants
    BY <1>1, VenueTimeAssumption DEF KeysInv, RingTypes, Instants
  <1>3. RingTypes'
    <2>1. \A c \in ring.certs : c.from <= venueClock' /\ c.at <= venueClock'
      BY <1>1, <1>2, SMTT(60) DEF KeysInv, RingTypes, Certs
    <2> QED  BY <1>1, <1>2, <2>1 DEF KeysInv, RingTypes
  <1>4. OrderInv'
    BY <1>1, <1>2 DEF KeysInv, OrderInv, Certs
  <1>5. KeyJournalInv' /\ StepInv'
    BY <1>1 DEF KeysInv, KeyJournalInv, StepInv, KeyJournal, RootJournal, Ring!Recorded, Ring!On,
                Ring!AlreadyInstalled, Ring!Since, Ring!Nothing
  <1>6. RootJournalInv'
    BY <1>1, <1>2 DEF KeysInv, RootJournalInv, RootJournal, Certs
  <1>7. LedgerInv' /\ RingInv' /\ TenureInv'
    BY <1>1, <1>2, ChainStays DEF KeysInv
  <1>8. AffirmedInv' /\ AttestedInv' /\ CredentialInv'
    <2>1. \A rv, S : Before(rv, S) => Before(rv, S)'
      BY <1>1 DEF Before, Working, KeyJournal
    <2> QED  BY <1>1, <1>2, <2>1, DoubtStays DEF KeysInv
  <1> QED  BY <1>3, <1>4, <1>5, <1>6, <1>7, <1>8 DEF KeysInv

\* While no rotation is under way
LEMMA NoneUnderWay ==
    ASSUME KeysInv, Ring!Serving
    PROVE  /\ journal = Ring!Nothing /\ step = "idle" /\ mode = "serving"
           /\ ~KeyJournal /\ ~RootJournal /\ ~KeyAhead /\ ~RootAhead
           /\ Top = ring.active /\ Roots = Len(ring.roots)
           /\ \A rv, S : ~Before(rv, S)
  <1>1. journal = Ring!Nothing /\ step = "idle" /\ mode = "serving"
    BY DEF Ring!Serving, KeysInv, StepInv
  <1>2. ~KeyJournal /\ ~RootJournal
    BY <1>1 DEF Ring!Nothing, KeyJournal, RootJournal
  <1>3. ~KeyAhead /\ ~RootAhead
    BY <1>2 DEF KeyAhead, RootAhead
  <1> QED  BY <1>1, <1>2, <1>3 DEF Top, Roots, Before, Working

LEMMA Commits ==
    ASSUME KeysInv, Ring!Commit
    PROVE  KeysInv'
  <1>1. PICK e : e = Ring!Entry("COMMITMENT", ring.active)
    OBVIOUS
  <1>2. PICK a : a = [key |-> ring.active, at |-> venueClock]
    OBVIOUS
  <1>3. /\ Ring!Serving /\ ledger' = Append(ledger, e)
        /\ venueMem' = [venueMem EXCEPT !.attested = {a}] /\ store' = venueMem'
        /\ UNCHANGED <<venueClock, ring, keyFile, nextFile, journal, venueCredential>>
        /\ UNCHANGED <<pending, order, step, mode>>
    BY <1>1, <1>2 DEF Ring!Commit
  <1>4. e.type = "COMMITMENT" /\ e.key = ring.active /\ e.at = venueClock
    BY <1>1 DEF Ring!Entry
  <1>5. journal = Ring!Nothing /\ ~KeyJournal /\ ~RootJournal /\ ~KeyAhead /\ ~RootAhead
        /\ step = "idle" /\ \A rv, S : ~Before(rv, S)
    BY <1>3, NoneUnderWay
  <1>6. /\ LedgerInv' /\ RingInv' /\ TenureInv'
        /\ \A rv \in Declared : Affirmed(rv) => Affirmed(rv)'
    BY <1>3, <1>4, <1>5, PlainEntry DEF KeysInv
  <1>7. RingTypes' /\ OrderInv'
    BY <1>3 DEF KeysInv, RingTypes, OrderInv
  <1>8. ~KeyJournal' /\ ~RootJournal' /\ journal' = Ring!Nothing /\ step' = "idle"
    BY <1>3, <1>5 DEF KeyJournal, RootJournal
  <1>9. KeyJournalInv' /\ RootJournalInv' /\ StepInv'
    BY <1>8 DEF KeyJournalInv, RootJournalInv, StepInv, Ring!Nothing, Applying
  <1>10. AffirmedInv'
    <2>1. Declared' = Declared
      BY <1>3 DEF Declared
    <2>2. \A rv \in Declared : ~Before(rv, Resealed)
      BY <1>5
    <2>3. \A rv \in Declared : Affirmed(rv)
      BY <2>2, Zenon DEF KeysInv, AffirmedInv
    <2>4. \A rv \in Declared' : Affirmed(rv)'
      BY <1>6, <2>1, <2>3
    <2> QED  BY <2>4, Zenon DEF AffirmedInv
  <1>11. AttestedInv'
    <2>1. venueMem' \in [attested : SUBSET Marks, owed : SUBSET Owed] /\ venueMem'.attested = {a}
          /\ a.key = ring.active /\ a.at = venueClock
      <3>1. venueMem \in [attested : SUBSET Marks, owed : SUBSET Owed]
        BY DEF KeysInv, AttestedInv, Attesting
      <3>2. a \in Marks /\ a.key = ring.active /\ a.at = venueClock
        BY <1>2 DEF KeysInv, RingTypes, Instants, Marks
      <3> QED  BY <1>3, <3>1, <3>2
    <2>2. \A rv \in ring.revs : rv.key < ring.active /\ rv.key \in Nat
      BY DEF KeysInv, RingInv, RingTypes, Revocations
    <2>3. ring.active \in 1 .. ring.active /\ a.at <= venueClock
      BY <2>1 DEF KeysInv, RingTypes, Instants
    <2>4. \A c \in ring.certs : c.from <= venueClock
      BY DEF KeysInv, RingTypes
    <2>5. Attesting(venueMem, Reattested)'
      BY <1>3, <2>1, <2>2, <2>3, <2>4 DEF Attesting, Declared
    <2>6. Attesting(store, Persisted)'
      BY <1>3, <2>1, <2>2, <2>3, <2>4 DEF Attesting, Declared
    <2> QED  BY <2>5, <2>6 DEF AttestedInv
  <1>12. CredentialInv'
    BY <1>3, <1>5 DEF KeysInv, CredentialInv, Declared
  <1> QED  BY <1>6, <1>7, <1>9, <1>10, <1>11, <1>12 DEF KeysInv

LEMMA Issues ==
    ASSUME KeysInv, Ring!Issue
    PROVE  KeysInv'
  <1>1. /\ Ring!Serving
        /\ venueCredential' = [key |-> ring.active, issued |-> venueClock, signed |-> venueClock]
        /\ UNCHANGED <<venueClock, ring, keyFile, nextFile, journal, ledger, store>>
        /\ UNCHANGED <<pending, order, step, venueMem, mode>>
    BY DEF Ring!Issue
  <1>2. journal = Ring!Nothing /\ \A rv, S : ~Before(rv, S)
    BY <1>1, NoneUnderWay
  <1>3. RingTypes' /\ OrderInv' /\ KeyJournalInv' /\ RootJournalInv' /\ StepInv'
    BY <1>1 DEF KeysInv, RingTypes, OrderInv, KeyJournalInv, RootJournalInv, StepInv, KeyJournal,
                RootJournal, Ring!Recorded, Ring!On, Ring!AlreadyInstalled, Ring!Since, Ring!Nothing
  <1>4. LedgerInv' /\ RingInv' /\ TenureInv'
    BY <1>1, ChainStays DEF KeysInv, RingTypes, Instants
  <1>5. Declared' = Declared /\ \A rv, S : Before(rv, S)' <=> Before(rv, S)
    BY <1>1 DEF Declared, Before, Working, KeyJournal
  <1>6. AffirmedInv' /\ AttestedInv'
    BY <1>1, <1>5 DEF KeysInv, AffirmedInv, Affirmed, Doubted, Affirms, AttestedInv, Attesting
  <1>7. CredentialInv'
    <2>1. \A rv \in ring.revs : rv.key < ring.active /\ rv.key \in Nat
      BY DEF KeysInv, RingInv, RingTypes, Revocations
    <2>2. ring.active \in Nat /\ venueClock \in Nat /\ \A c \in ring.certs : c.from <= venueClock
      BY DEF KeysInv, RingTypes, Instants
    <2> QED  BY <1>1, <2>1, <2>2 DEF CredentialInv, Declared
  <1> QED  BY <1>3, <1>4, <1>6, <1>7 DEF KeysInv

LEMMA Prepares ==
    ASSUME KeysInv, Ring!Prepare
    PROVE  KeysInv'
  <1>1. Ring!Cardinality({c.key : c \in ring.certs}) = ring.active
    <2>1. {c.key : c \in ring.certs} = 1 .. ring.active
      <3>1. \A c \in ring.certs : c.key \in 1 .. ring.active
        BY DEF KeysInv, RingTypes
      <3>2. \A x \in 1 .. ring.active : \E c \in ring.certs : c.key = x
        BY DEF KeysInv, RingTypes
      <3> QED  BY <3>1, <3>2, Zenon
    <2>2. Cardinality(1 .. ring.active) = ring.active
      <3>1. ring.active \in Int /\ ring.active >= 1
        BY DEF KeysInv, RingTypes
      <3> QED  BY <3>1, FS_Interval
    <2> QED  BY <2>1, <2>2, SameCount, Zenon
  <1>2. /\ Ring!Serving /\ pending' = 1 + ring.active /\ nextFile' = 1 + ring.active
        /\ order' = Ring!Nothing
        /\ UNCHANGED <<venueClock, ring, keyFile, journal, ledger, venueCredential, store>>
        /\ UNCHANGED <<step, venueMem, mode>>
    <2>1. pending' = 1 + ring.active /\ nextFile' = 1 + ring.active
      BY <1>1, Zenon DEF Ring!Prepare
    <2> QED  BY <2>1 DEF Ring!Prepare
  <1>3. ring.active \in Nat
    BY DEF KeysInv, RingTypes
  <1>4. journal = Ring!Nothing /\ ~KeyJournal /\ ~RootJournal /\ step = "idle"
    BY <1>2, NoneUnderWay
  <1>5. RingTypes' /\ OrderInv'
    BY <1>2, <1>3 DEF KeysInv, RingTypes, OrderInv
  <1>6. ~KeyJournal' /\ ~RootJournal' /\ journal' = Ring!Nothing /\ step' = "idle"
    BY <1>2, <1>4 DEF KeyJournal, RootJournal
  <1>7. KeyJournalInv' /\ RootJournalInv' /\ StepInv'
    BY <1>6 DEF KeyJournalInv, RootJournalInv, StepInv, Ring!Nothing, Applying
  <1>8. LedgerInv' /\ RingInv' /\ TenureInv'
    BY <1>2, ChainStays DEF KeysInv, RingTypes, Instants
  <1>9. AffirmedInv' /\ AttestedInv' /\ CredentialInv'
    <2>1. \A rv, S : Before(rv, S) => Before(rv, S)'
      BY <1>2 DEF Before, Working, KeyJournal
    <2> QED  BY <1>2, <2>1, DoubtStays DEF KeysInv, RingTypes, Instants
  <1> QED  BY <1>5, <1>7, <1>8, <1>9 DEF KeysInv

LEMMA Certifies ==
    ASSUME KeysInv, Ring!Certify
    PROVE  KeysInv'
  <1>1. PICK revs \in {{}} \cup {{Ring!Revocation(ring.active, Len(ring.roots), t)} : t \in 0 .. venueClock} :
           /\ Ring!Serving /\ pending # 0 /\ pending # ring.active
           /\ order' = [kind |-> "order", revs |-> revs,
                        cert |-> Ring!Cert(pending, Len(ring.roots), venueClock)]
           /\ UNCHANGED <<venueClock, ring, keyFile, nextFile, journal, ledger, venueCredential, store>>
           /\ UNCHANGED <<pending, step, venueMem, mode>>
    BY DEF Ring!Certify, Ring!files, Ring!None
  <1>2. PICK c : c = [key |-> pending, root |-> Len(ring.roots), at |-> venueClock, from |-> venueClock]
    OBVIOUS
  <1>3. order'.cert = c /\ order'.revs = revs
    BY <1>1, <1>2 DEF Ring!Cert
  <1>4. /\ c.key = ring.active + 1 /\ c.at = venueClock /\ c.from = venueClock
        /\ venueClock \in Nat /\ ring.active \in Nat /\ ring.active >= 1 /\ Len(ring.roots) \in Nat
        /\ c \in Certs
    <2>1. pending = ring.active + 1
      BY <1>1 DEF KeysInv, RingTypes
    <2> QED  BY <1>2, <2>1 DEF KeysInv, RingTypes, Instants, Certs
  <1>5. /\ revs \in SUBSET Revocations /\ \A rv, rw \in revs : rv = rw
        /\ \A rv \in revs : rv.key = ring.active
    <2>1. CASE revs = {}
      BY <2>1
    <2>2. ASSUME NEW t \in 0 .. venueClock, revs = {Ring!Revocation(ring.active, Len(ring.roots), t)}
          PROVE  /\ revs \in SUBSET Revocations /\ \A rv, rw \in revs : rv = rw
                 /\ \A rv \in revs : rv.key = ring.active
      BY <1>4, <2>2 DEF Ring!Revocation, Revocations
    <2> QED  BY <1>1, <2>1, <2>2
  <1>6. OrderInv'
    <2>1. c.from <= venueClock /\ c.at <= venueClock /\ c.key >= 2 /\ c.key # ring.active
      BY <1>4
    <2>2. \A rv \in revs : rv.key < c.key
      BY <1>4, <1>5
    <2> QED  BY <1>1, <1>3, <1>4, <1>5, <2>1, <2>2 DEF OrderInv
  <1>7. RingTypes'
    BY <1>1 DEF KeysInv, RingTypes
  <1>8. journal = Ring!Nothing /\ ~KeyJournal /\ ~RootJournal /\ step = "idle"
    BY <1>1, NoneUnderWay
  <1>9. ~KeyJournal' /\ ~RootJournal' /\ journal' = Ring!Nothing /\ step' = "idle"
    BY <1>1, <1>8 DEF KeyJournal, RootJournal
  <1>10. KeyJournalInv' /\ RootJournalInv' /\ StepInv'
    BY <1>9 DEF KeyJournalInv, RootJournalInv, StepInv, Ring!Nothing, Applying
  <1>11. LedgerInv' /\ RingInv' /\ TenureInv'
    BY <1>1, ChainStays DEF KeysInv, RingTypes, Instants
  <1>12. AffirmedInv' /\ AttestedInv' /\ CredentialInv'
    <2>1. \A rv, S : Before(rv, S) => Before(rv, S)'
      BY <1>1 DEF Before, Working, KeyJournal
    <2> QED  BY <1>1, <2>1, DoubtStays DEF KeysInv, RingTypes, Instants
  <1> QED  BY <1>6, <1>7, <1>10, <1>11, <1>12 DEF KeysInv


\* A key above the active one is on the ledger only while its rotation is under way
LEMMA NotRecordedYet ==
    ASSUME KeysInv, Ring!Serving, NEW k, k = ring.active + 1
    PROVE  \A i \in Ring!On("KEY_ROTATION") : ledger[i].cert.key # k
  <1>1. Top = ring.active /\ ring.active \in Nat
    BY NoneUnderWay DEF KeysInv, RingTypes
  <1>2. ASSUME NEW i \in Ring!On("KEY_ROTATION") PROVE ledger[i].cert.key # k
    <2>1. i \in DOMAIN ledger /\ ledger[i].type \in Certifying
      BY DEF Ring!On, Certifying
    <2>2. ledger[i].cert.key = ledger[i].key /\ ledger[i].key \in 1 .. ring.active
      BY <1>1, <2>1 DEF KeysInv, LedgerInv
    <2> QED  BY <1>1, <2>2
  <1> QED  BY <1>2

LEMMA StartsKeyRotation ==
    ASSUME KeysInv, Ring!KeyRotationCommit
    PROVE  KeysInv'
  <1>1. /\ Ring!Serving /\ order # Ring!Nothing /\ order.cert.key = pending
        /\ order.cert.root = Len(ring.roots)
        /\ \A rv \in order.revs : rv.key = ring.active
        /\ journal' = [kind |-> "KEY_ROTATION", previous |-> ring.active,
                       cert |-> order.cert, revs |-> order.revs]
        /\ step' = "journaled"
        /\ UNCHANGED <<venueClock, ring, keyFile, nextFile, ledger, venueCredential, store>>
        /\ UNCHANGED <<pending, order, venueMem, mode>>
    BY DEF Ring!KeyRotationCommit, Ring!Start
  <1>2. /\ journal'.kind = "KEY_ROTATION" /\ journal'.previous = ring.active
        /\ journal'.cert = order.cert /\ journal'.revs = order.revs
    BY <1>1
  <1>3. /\ step = "idle" /\ mode = "serving" /\ ~KeyAhead /\ ~RootAhead /\ \A rv, S : ~Before(rv, S)
    BY <1>1, NoneUnderWay
  <1>4. KeyJournal' /\ ~RootJournal'
    BY <1>2 DEF KeyJournal, RootJournal
  <1>5. RingTypes' /\ OrderInv'
    BY <1>1 DEF KeysInv, RingTypes, OrderInv, Steps, Applying
  <1>6. KeyJournalInv'
    <2>1. order.cert.key # ring.active => nextFile = order.cert.key
      BY <1>1 DEF KeysInv, OrderInv, RingTypes
    <2> QED  BY <1>1, <1>2, <2>1 DEF KeyJournalInv
  <1>7. RootJournalInv'
    BY <1>4 DEF RootJournalInv
  <1>8. StepInv'
    BY <1>1, <1>3, <1>4, <1>2 DEF StepInv, Applying, Ring!Nothing
  <1>9. ~KeyAhead' /\ ~RootAhead'
    <2>1. CASE order.cert.key = ring.active
      BY <1>1, <1>2, <1>4, <2>1 DEF KeyAhead, RootAhead, Ahead, Ring!AlreadyInstalled
    <2>2. CASE order.cert.key # ring.active
      <3>1. order.cert.key = ring.active + 1
        BY <1>1, <2>2 DEF KeysInv, OrderInv
      <3>2. \A i \in Ring!On("KEY_ROTATION") : ledger[i].cert.key # order.cert.key
        BY <1>1, <3>1, NotRecordedYet
      <3>3. ~Ring!Recorded(journal)'
        BY <1>1, <1>2, <3>2 DEF Ring!Recorded, Ring!On
      <3> QED  BY <1>4, <3>3 DEF KeyAhead, RootAhead, Ahead
    <2> QED  BY <2>1, <2>2
  <1>10. LedgerInv' /\ RingInv' /\ TenureInv'
    BY <1>1, <1>3, <1>9, ChainStays DEF KeysInv, RingTypes, Instants
  <1>11. AffirmedInv' /\ AttestedInv' /\ CredentialInv'
    BY <1>1, <1>3, DoubtStays DEF KeysInv, RingTypes, Instants
  <1> QED  BY <1>5, <1>6, <1>7, <1>8, <1>10, <1>11 DEF KeysInv

LEMMA StartsRootRotation ==
    ASSUME KeysInv, Ring!RootRotationCommit
    PROVE  KeysInv'
  <1>1. PICK t \in 0 .. venueClock :
           /\ Ring!Serving
           /\ journal' = [kind |-> "ROOT_ROTATION", root |-> Len(ring.roots) + 1, since |-> t,
                          recert |-> IF t = 0 THEN {} ELSE {Ring!Recert}]
           /\ step' = "journaled"
           /\ UNCHANGED <<venueClock, ring, keyFile, nextFile, ledger, venueCredential, store>>
           /\ UNCHANGED <<pending, order, venueMem, mode>>
    BY DEF Ring!RootRotationCommit, Ring!Start, Ring!None
  <1>2. PICK recert : recert = IF t = 0 THEN {} ELSE {Ring!Recert}
    OBVIOUS
  <1>3. /\ journal'.kind = "ROOT_ROTATION" /\ journal'.root = Len(ring.roots) + 1
        /\ journal'.since = t /\ journal'.recert = recert
    BY <1>1, <1>2
  <1>4. /\ step = "idle" /\ mode = "serving" /\ ~KeyAhead /\ ~RootAhead /\ Roots = Len(ring.roots)
        /\ \A rv, S : ~Before(rv, S)
    BY <1>1, NoneUnderWay
  <1>5. ~KeyJournal' /\ RootJournal'
    BY <1>3 DEF KeyJournal, RootJournal
  <1>6. /\ Len(ring.roots) \in Nat /\ Len(ring.roots) >= 1 /\ ring.active \in Nat /\ ring.active >= 1
        /\ venueClock \in Nat /\ t \in Nat
    BY DEF KeysInv, RingTypes, Instants
  <1>7. RingTypes' /\ OrderInv'
    BY <1>1 DEF KeysInv, RingTypes, OrderInv, Steps, Applying
  <1>8. PICK o : o = CHOOSE c \in ring.certs : c.key = ring.active
    OBVIOUS
  <1>9. o \in ring.certs /\ o.key = ring.active /\ o \in Certs
    <2>1. \E c \in ring.certs : c.key = ring.active
      BY <1>6 DEF KeysInv, RingTypes
    <2> QED  BY <1>8, <2>1 DEF KeysInv, RingTypes
  <1>10. PICK c : c = [key |-> ring.active, root |-> Len(ring.roots) + 1,
                       at |-> venueClock, from |-> o.from]
    OBVIOUS
  <1>11. Ring!Recert = c
    BY <1>8, <1>10 DEF Ring!Recert, Ring!Cert
  <1>12. /\ c \in Certs /\ c.key = ring.active /\ c.root = Len(ring.roots) + 1
         /\ c.at = venueClock /\ c.from = o.from
    BY <1>6, <1>9, <1>10 DEF Certs
  <1>13. RootJournalInv'
    <2>1. recert \in SUBSET Certs /\ (t # 0 => recert # {})
      BY <1>2, <1>11, <1>12
    <2>2. ASSUME NEW d \in recert
          PROVE  /\ d.key = ring.active /\ d.root = Len(ring.roots) + 1 /\ d.at <= venueClock
                 /\ \E x \in ring.certs : x.key = d.key /\ x.from = d.from
      <3>1. d = c
        BY <1>2, <1>11
      <3> QED  BY <1>6, <1>9, <1>12, <3>1
    <2> QED  BY <1>1, <1>3, <1>6, <2>1, <2>2 DEF RootJournalInv
  <1>14. KeyJournalInv'
    BY <1>5 DEF KeyJournalInv
  <1>15. StepInv'
    BY <1>1, <1>3, <1>4, <1>5 DEF StepInv, Applying, Ring!Nothing
  <1>16. ~KeyAhead' /\ ~RootAhead'
    <2>1. \A i \in Ring!On("ROOT_ROTATION") : ledger[i].root # Len(ring.roots) + 1
      BY <1>4, <1>6 DEF Ring!On, KeysInv, RingInv
    <2>2. ~Ring!Recorded(journal)'
      BY <1>1, <1>3, <2>1 DEF Ring!Recorded, Ring!On
    <2> QED  BY <2>2 DEF KeyAhead, RootAhead, Ahead
  <1>17. LedgerInv' /\ RingInv' /\ TenureInv'
    BY <1>1, <1>4, <1>6, <1>16, ChainStays DEF KeysInv
  <1>18. AffirmedInv' /\ AttestedInv' /\ CredentialInv'
    BY <1>1, <1>4, <1>6, DoubtStays DEF KeysInv
  <1> QED  BY <1>7, <1>13, <1>14, <1>15, <1>17, <1>18 DEF KeysInv

\* What a crash leaves: the notes of the state on disk, and the rotation to finish
LEMMA VenueCrashes ==
    ASSUME KeysInv, Ring!Crash
    PROVE  KeysInv'
  <1>1. /\ pending' = nextFile /\ venueMem' = store /\ step' = "idle"
        /\ mode' \in {"recovering", "refusing"}
        /\ UNCHANGED <<venueClock, ring, keyFile, nextFile, journal, ledger, venueCredential, store>>
        /\ UNCHANGED order
    BY DEF Ring!Crash, Ring!files
  <1>2. RingTypes' /\ OrderInv'
    BY <1>1 DEF KeysInv, RingTypes, OrderInv, Steps
  <1>3. KeyJournalInv' /\ RootJournalInv'
    BY <1>1 DEF KeysInv, KeyJournalInv, RootJournalInv, KeyJournal, RootJournal
  <1>4. StepInv'
    BY <1>1 DEF KeysInv, StepInv, Applying, KeyJournal, RootJournal, Ring!Nothing
  <1>5. LedgerInv' /\ RingInv' /\ TenureInv'
    BY <1>1, ChainStays DEF KeysInv, RingTypes, Instants
  <1>6. Declared' = Declared /\ \A rv : Working(rv)' <=> Working(rv)
    BY <1>1 DEF Declared, Working, KeyJournal
  <1>7. \A rv, S : Before(rv, S) => Before(rv, Resealed)' /\ Before(rv, Reattested)'
                                    /\ Before(rv, Persisted)' /\ Before(rv, Reissued)'
    BY <1>1, <1>6 DEF Before, Resealed, Reattested, Persisted, Reissued
  <1>8. AffirmedInv'
    <2>1. \A rv \in Declared : Affirmed(rv) => Affirmed(rv)'
      BY <1>1 DEF Affirmed, Doubted, Affirms
    <2> QED  BY <1>6, <1>7, <2>1 DEF KeysInv, AffirmedInv
  <1>9. AttestedInv'
    <2>1. Attesting(store, Persisted)
      BY DEF KeysInv, AttestedInv
    <2>2. Attesting(store, Persisted)'
      BY <1>1, <1>6, <1>7, <2>1 DEF Attesting
    <2>3. Attesting(venueMem, Reattested)'
      BY <1>1, <1>6, <1>7, <2>1 DEF Attesting
    <2> QED  BY <2>2, <2>3 DEF AttestedInv
  <1>10. CredentialInv'
    BY <1>1, <1>6, <1>7 DEF KeysInv, CredentialInv
  <1> QED  BY <1>2, <1>3, <1>4, <1>5, <1>8, <1>9, <1>10 DEF KeysInv


\* The entry of a key's rotation is signed by the successor
LEMMA RecordsKeyRotation ==
    ASSUME KeysInv, Ring!AppendEntry, KeyJournal
    PROVE  KeysInv'
  <1>1. PICK e : e = [type |-> "KEY_ROTATION", key |-> journal.cert.key, at |-> venueClock,
                      cert |-> journal.cert, revs |-> journal.revs]
    OBVIOUS
  <1>2. /\ step = "journaled" /\ step' = "appended" /\ ledger' = Append(ledger, e)
        /\ UNCHANGED <<venueClock, ring, keyFile, nextFile, journal, venueCredential, store>>
        /\ UNCHANGED <<pending, order, venueMem, mode>>
    BY <1>1 DEF Ring!AppendEntry, Ring!At, KeyJournal
  <1>3. PICK k : k = journal.cert.key
    OBVIOUS
  <1>4. e.type = "KEY_ROTATION" /\ e.key = k /\ e.at = venueClock /\ e.cert = journal.cert /\ e.revs = journal.revs
    BY <1>1, <1>3
  <1>5. PICK n : n = Len(ledger) + 1
    OBVIOUS
  <1>6. /\ \E S : ledger' \in Seq(S)
        /\ n \in Nat /\ Len(ledger') = n
        /\ DOMAIN ledger' = DOMAIN ledger \cup {n} /\ n \notin DOMAIN ledger
        /\ \A i \in DOMAIN ledger : ledger'[i] = ledger[i] /\ i \in Nat /\ i < n
        /\ ledger'[n] = e
    BY <1>2, <1>5, LedgerGrows DEF KeysInv
  <1>7. /\ order # Ring!Nothing /\ journal.cert = order.cert /\ journal.revs = order.revs
        /\ order.cert.key = k /\ k \in Nat /\ k >= 2 /\ k \in {ring.active, ring.active + 1}
        /\ k = ring.active => journal.cert \in ring.certs /\ journal.revs \subseteq ring.revs
        /\ journal.cert.from <= venueClock
    BY <1>3 DEF KeysInv, KeyJournalInv, OrderInv, Certs
  <1>8. /\ ring' = ring /\ venueClock' = venueClock /\ journal' = journal
        /\ venueClock \in Nat /\ venueClock >= 1 /\ ring.active \in Nat /\ ring.active >= 1
    BY <1>2 DEF KeysInv, RingTypes, Instants
  <1>9. Ring!Recorded(journal)'
    BY <1>2, <1>3, <1>4, <1>6 DEF Ring!Recorded, Ring!On, KeyJournal
  <1>10. KeyJournal' /\ ~RootJournal' /\ ~RootJournal /\ ~RootAhead /\ ~RootAhead'
    BY <1>2 DEF KeyJournal, RootJournal, RootAhead
  <1>11. KeyAhead' <=> k # ring.active
    BY <1>3, <1>8, <1>9, <1>10 DEF KeyAhead, Ahead, Ring!AlreadyInstalled, KeyJournal
  <1>12. KeyAhead => k # ring.active
    BY <1>3 DEF KeyAhead, Ahead, Ring!AlreadyInstalled, KeyJournal
  <1>13. /\ Top \in {ring.active, k} /\ Top \in Nat /\ Top <= k /\ Top' = k
         /\ (Top = ring.active \/ KeyAhead)
    BY <1>3, <1>7, <1>8, <1>11, <1>12 DEF Top
  <1>14. /\ \A i \in DOMAIN ledger :
              /\ ledger[i].type \in EntryTypes /\ (ledger[i].type = "GENESIS" <=> i = 1)
              /\ ledger[i].key \in 1 .. Top /\ ledger[i].at \in 1 .. venueClock
              /\ \A j \in DOMAIN ledger : i <= j => ledger[i].key <= ledger[j].key
         /\ \A i \in DOMAIN ledger : ledger[i].type \in Certifying =>
              /\ ledger[i].cert.key = ledger[i].key
              /\ ledger[i].cert \in ring.certs \/ (KeyAhead /\ ledger[i].cert = journal.cert)
         /\ \A x \in 1 .. Top : \E i \in DOMAIN ledger :
              ledger[i].type \in Certifying /\ ledger[i].key = x
         /\ Len(ledger) >= 1
    BY DEF KeysInv, LedgerInv
  <1>15. LedgerInv'
    <2>1. \A i \in DOMAIN ledger' :
             /\ ledger'[i].type \in EntryTypes /\ (ledger'[i].type = "GENESIS" <=> i = 1)
             /\ ledger'[i].key \in 1 .. k /\ ledger'[i].at \in 1 .. venueClock
      <3>1. n # 1 /\ e.type \in EntryTypes /\ e.type # "GENESIS" /\ e.key \in 1 .. k /\ e.at \in 1 .. venueClock
        BY <1>4, <1>5, <1>6, <1>7, <1>8, <1>14 DEF EntryTypes
      <3> QED  BY <1>6, <1>7, <1>13, <1>14, <3>1, SMTT(60)
    <2>2. ASSUME NEW i \in DOMAIN ledger', NEW j \in DOMAIN ledger', i <= j
          PROVE  ledger'[i].key <= ledger'[j].key
      <3>1. CASE j = n
        BY <1>4, <1>6, <1>7, <2>1, <3>1
      <3>2. CASE j # n
        BY <1>6, <1>14, <2>2, <3>2
      <3> QED  BY <3>1, <3>2
    <2>3. \A i \in DOMAIN ledger' : ledger'[i].type \in Certifying =>
             /\ ledger'[i].cert.key = ledger'[i].key
             /\ ledger'[i].cert \in ring.certs \/ (KeyAhead' /\ ledger'[i].cert = journal.cert)
      <3>1. e.cert.key = e.key /\ (e.cert \in ring.certs \/ (KeyAhead' /\ e.cert = journal.cert))
        BY <1>3, <1>4, <1>7, <1>11
      <3>2. KeyAhead => KeyAhead'
        BY <1>11, <1>12
      <3> QED  BY <1>6, <1>14, <3>1, <3>2
    <2>4. \A x \in 1 .. k : \E i \in DOMAIN ledger' :
             ledger'[i].type \in Certifying /\ ledger'[i].key = x
      <3>1. ASSUME NEW x \in 1 .. k
            PROVE \E i \in DOMAIN ledger' : ledger'[i].type \in Certifying /\ ledger'[i].key = x
        <4>1. CASE x = k
          BY <1>4, <1>6, <4>1 DEF Certifying
        <4>2. CASE x # k
          <5>1. x \in 1 .. Top
            BY <1>7, <1>8, <1>13, <4>2
          <5>2. PICK i \in DOMAIN ledger : ledger[i].type \in Certifying /\ ledger[i].key = x
            BY <1>14, <5>1
          <5> QED  BY <1>6, <5>2
        <4> QED  BY <4>1, <4>2
      <3> QED  BY <3>1
    <2>5. Len(ledger') >= 1
      BY <1>5, <1>6, <1>14
    <2> QED  BY <1>6, <1>8, <1>13, <2>1, <2>2, <2>3, <2>4, <2>5 DEF LedgerInv
  <1>16. Roots = Len(ring.roots) /\ Roots' = Len(ring.roots)
    BY <1>8, <1>10 DEF Roots
  <1>17. RingInv'
    <2>1. \A i \in DOMAIN ledger' : ledger'[i].type = "ROOT_ROTATION" =>
             /\ ledger'[i].root \in 2 .. Len(ring.roots)
             /\ ledger'[i].since = ring.roots[ledger'[i].root]
      BY <1>4, <1>6, <1>10, <1>16, SMTT(60) DEF KeysInv, RingInv
    <2>2. \A r \in 2 .. Len(ring.roots) : \E i \in DOMAIN ledger' :
             ledger'[i].type = "ROOT_ROTATION" /\ ledger'[i].root = r
      BY <1>6, <1>16 DEF KeysInv, RingInv
    <2>3. \A i \in DOMAIN ledger' : ledger'[i].type = "KEY_ROTATION" =>
             \A rv \in ledger'[i].revs : rv \in ring.revs \/ (KeyAhead' /\ rv \in journal.revs)
      <3>1. \A rv \in e.revs : rv \in ring.revs \/ (KeyAhead' /\ rv \in journal.revs)
        BY <1>4, <1>7, <1>11
      <3>2. \A i \in DOMAIN ledger : ledger[i].type = "KEY_ROTATION" =>
               \A rv \in ledger[i].revs : rv \in ring.revs \/ (KeyAhead /\ rv \in journal.revs)
        BY DEF KeysInv, RingInv
      <3> QED  BY <1>6, <1>11, <1>12, <3>1, <3>2
    <2>4. \A rv : rv \in ring.revs \/ (KeyAhead' /\ rv \in journal.revs) =>
             \E i \in DOMAIN ledger' : ledger'[i].type = "KEY_ROTATION" /\ rv \in ledger'[i].revs
      <3>1. \A rv \in ring.revs : \E i \in DOMAIN ledger :
               ledger[i].type = "KEY_ROTATION" /\ rv \in ledger[i].revs
        BY DEF KeysInv, RingInv
      <3> QED  BY <1>4, <1>6, <3>1
    <2>5. \A rv \in ring.revs : rv.key < ring.active
      BY DEF KeysInv, RingInv
    <2> QED  BY <1>8, <1>10, <1>16, <2>1, <2>2, <2>3, <2>4, <2>5 DEF RingInv
  <1>18. TenureInv'
    <2>1. \A c \in ring.certs : c.from <= venueClock
      BY DEF KeysInv, RingTypes
    <2>2. \A i \in DOMAIN ledger' : \A c \in ring.certs : c.key = ledger'[i].key => c.from <= ledger'[i].at
      BY <1>4, <1>6, <2>1 DEF KeysInv, TenureInv
    <2>3. ASSUME NEW i \in DOMAIN ledger', k # ring.active, ledger'[i].key = k
          PROVE  journal.cert.from <= ledger'[i].at
      <3>1. CASE i = n
        BY <1>4, <1>6, <1>7, <3>1
      <3>2. CASE i # n
        <4>1. i \in DOMAIN ledger /\ ledger'[i] = ledger[i]
          BY <1>6, <3>2
        <4>2. k <= Top
          BY <1>14, <2>3, <4>1
        <4>3. KeyAhead
          BY <1>7, <1>8, <1>13, <2>3, <4>2
        <4> QED  BY <1>3, <2>3, <4>1, <4>3 DEF KeysInv, TenureInv
      <3> QED  BY <3>1, <3>2
    <2>4. /\ \E c \in ring.certs : c.key = ring.active /\ Ring!InTime(ring.roots, c)
          /\ \A c, d \in ring.certs : c.key = d.key => c.from = d.from
      BY DEF KeysInv, TenureInv
    <2> QED  BY <1>3, <1>8, <1>11, <2>2, <2>3, <2>4 DEF TenureInv, Ring!InTime, Ring!UntrustedFrom
  <1>19. RingTypes' /\ OrderInv' /\ KeyJournalInv' /\ RootJournalInv'
    BY <1>2, <1>10 DEF KeysInv, RingTypes, OrderInv, KeyJournalInv, RootJournalInv, KeyJournal, Steps, Applying
  <1>20. StepInv'
    BY <1>2, <1>9, <1>10 DEF KeysInv, StepInv, Applying
  <1>21. Declared' = Declared /\ \A rv : Working(rv)' <=> Working(rv)
    BY <1>2 DEF Declared, Working, KeyJournal
  <1>22. \A rv, S : step \notin S /\ step' \notin S => (Before(rv, S)' <=> Before(rv, S))
    BY <1>21 DEF Before
  <1>23. \A rv : /\ Before(rv, Resealed)' <=> Before(rv, Resealed)
                 /\ Before(rv, Reattested)' <=> Before(rv, Reattested)
                 /\ Before(rv, Persisted)' <=> Before(rv, Persisted)
                 /\ Before(rv, Reissued)' <=> Before(rv, Reissued)
    BY <1>2, <1>22 DEF Resealed, Reattested, Persisted, Reissued
  <1>24. AffirmedInv'
    <2>1. ASSUME NEW rv \in Declared, Affirmed(rv) PROVE Affirmed(rv)'
      <3>1. ASSUME NEW i \in DOMAIN ledger', Doubted(rv, i)'
            PROVE  \E s \in DOMAIN ledger' : Affirms(s, rv, i)'
        <4>1. i # n
          BY <1>4, <1>6, <3>1 DEF Doubted
        <4>2. i \in DOMAIN ledger /\ Doubted(rv, i)
          BY <1>6, <3>1, <4>1 DEF Doubted
        <4>3. PICK s \in DOMAIN ledger : Affirms(s, rv, i)
          BY <2>1, <4>2 DEF Affirmed
        <4> QED  BY <1>6, <4>3 DEF Affirms
      <3> QED  BY <3>1 DEF Affirmed
    <2> QED  BY <1>21, <1>23, <2>1 DEF KeysInv, AffirmedInv
  <1>25. AttestedInv' /\ CredentialInv'
    BY <1>2, <1>21, <1>23 DEF KeysInv, AttestedInv, Attesting, CredentialInv
  <1> QED  BY <1>15, <1>17, <1>18, <1>19, <1>20, <1>24, <1>25 DEF KeysInv

LEMMA RecordsRootRotation ==
    ASSUME KeysInv, Ring!AppendEntry, RootJournal
    PROVE  KeysInv'
  <1>1. PICK e : e = [type |-> "ROOT_ROTATION", key |-> ring.active, at |-> venueClock,
                      root |-> journal.root, since |-> journal.since]
    OBVIOUS
  <1>2. /\ step = "journaled" /\ step' = "appended" /\ ledger' = Append(ledger, e)
        /\ UNCHANGED <<venueClock, ring, keyFile, nextFile, journal, venueCredential, store>>
        /\ UNCHANGED <<pending, order, venueMem, mode>>
    BY <1>1 DEF Ring!AppendEntry, Ring!At, RootJournal
  <1>3. PICK r0 : r0 = journal.root
    OBVIOUS
  <1>4. /\ e.type = "ROOT_ROTATION" /\ e.key = ring.active /\ e.at = venueClock /\ e.root = r0
        /\ e.since = journal.since
    BY <1>1, <1>3
  <1>5. PICK n : n = Len(ledger) + 1
    OBVIOUS
  <1>6. /\ \E S : ledger' \in Seq(S)
        /\ n \in Nat /\ Len(ledger') = n
        /\ DOMAIN ledger' = DOMAIN ledger \cup {n} /\ n \notin DOMAIN ledger
        /\ \A i \in DOMAIN ledger : ledger'[i] = ledger[i] /\ i \in Nat /\ i < n
        /\ ledger'[n] = e
    BY <1>2, <1>5, LedgerGrows DEF KeysInv
  <1>7. PICK m : m = Len(ring.roots)
    OBVIOUS
  <1>8. /\ ring' = ring /\ venueClock' = venueClock /\ journal' = journal
        /\ venueClock \in Nat /\ venueClock >= 1 /\ ring.active \in Nat /\ ring.active >= 1
        /\ m \in Nat /\ m >= 1
    BY <1>2, <1>7 DEF KeysInv, RingTypes, Instants
  <1>9. r0 \in {m, m + 1} /\ r0 >= 2 /\ (r0 = m => journal.since = ring.roots[r0])
    BY <1>3, <1>7 DEF KeysInv, RootJournalInv
  <1>10. Ring!Recorded(journal)'
    BY <1>2, <1>3, <1>4, <1>6 DEF Ring!Recorded, Ring!On, RootJournal
  <1>11. RootJournal' /\ ~KeyJournal' /\ ~KeyJournal /\ ~KeyAhead /\ ~KeyAhead'
    BY <1>2 DEF KeyJournal, RootJournal, KeyAhead
  <1>12. RootAhead' <=> r0 # m
    BY <1>3, <1>7, <1>8, <1>10, <1>11 DEF RootAhead, Ahead, Ring!AlreadyInstalled, RootJournal
  <1>13. RootAhead => r0 # m
    BY <1>3, <1>7 DEF RootAhead, Ahead, Ring!AlreadyInstalled, RootJournal
  <1>14. Top = ring.active /\ Top' = ring.active /\ Roots' = r0 /\ Roots = IF RootAhead THEN r0 ELSE m
    BY <1>3, <1>7, <1>8, <1>9, <1>11, <1>12 DEF Top, Roots
  <1>15. /\ \A i \in DOMAIN ledger :
              /\ ledger[i].type \in EntryTypes /\ (ledger[i].type = "GENESIS" <=> i = 1)
              /\ ledger[i].key \in 1 .. ring.active /\ ledger[i].at \in 1 .. venueClock
              /\ \A j \in DOMAIN ledger : i <= j => ledger[i].key <= ledger[j].key
         /\ \A i \in DOMAIN ledger : ledger[i].type \in Certifying =>
              ledger[i].cert.key = ledger[i].key /\ ledger[i].cert \in ring.certs
         /\ \A k \in 1 .. ring.active : \E i \in DOMAIN ledger :
              ledger[i].type \in Certifying /\ ledger[i].key = k
         /\ Len(ledger) >= 1
    BY <1>11, <1>14 DEF KeysInv, LedgerInv
  <1>16. /\ e.type \in EntryTypes /\ e.type # "GENESIS" /\ e.type \notin Certifying /\ n # 1
         /\ e.key \in 1 .. ring.active /\ e.at \in 1 .. venueClock
    BY <1>4, <1>5, <1>6, <1>8, <1>15 DEF EntryTypes, Certifying
  <1>17. LedgerInv'
    <2>1. \A i \in DOMAIN ledger' :
             /\ ledger'[i].type \in EntryTypes /\ (ledger'[i].type = "GENESIS" <=> i = 1)
             /\ ledger'[i].key \in 1 .. ring.active /\ ledger'[i].at \in 1 .. venueClock
      BY <1>6, <1>15, <1>16
    <2>2. ASSUME NEW i \in DOMAIN ledger', NEW j \in DOMAIN ledger', i <= j
          PROVE  ledger'[i].key <= ledger'[j].key
      <3>1. CASE j = n
        BY <1>4, <1>6, <1>8, <2>1, <3>1
      <3>2. CASE j # n
        BY <1>6, <1>15, <2>2, <3>2
      <3> QED  BY <3>1, <3>2
    <2>3. \A i \in DOMAIN ledger' : ledger'[i].type \in Certifying =>
             ledger'[i].cert.key = ledger'[i].key /\ ledger'[i].cert \in ring.certs
      BY <1>6, <1>15, <1>16
    <2>4. \A k \in 1 .. ring.active : \E i \in DOMAIN ledger' :
             ledger'[i].type \in Certifying /\ ledger'[i].key = k
      BY <1>6, <1>15
    <2>5. Len(ledger') >= 1
      BY <1>5, <1>6, <1>15
    <2> QED  BY <1>6, <1>8, <1>11, <1>14, <2>1, <2>2, <2>3, <2>4, <2>5 DEF LedgerInv
  <1>18. RingInv'
    <2>1. \A i \in DOMAIN ledger : ledger[i].type = "ROOT_ROTATION" =>
             /\ ledger[i].root \in 2 .. r0
             /\ ledger[i].since = IF r0 # m /\ ledger[i].root = r0 THEN journal.since
                                  ELSE ring.roots[ledger[i].root]
      <3>1. \A i \in DOMAIN ledger : ledger[i].type = "ROOT_ROTATION" =>
               /\ ledger[i].root \in 2 .. Roots
               /\ ledger[i].since = IF RootAhead /\ ledger[i].root = r0 THEN journal.since
                                    ELSE ring.roots[ledger[i].root]
        BY <1>3 DEF KeysInv, RingInv
      <3>2. CASE RootAhead
        BY <1>13, <1>14, <3>1, <3>2
      <3>3. CASE ~RootAhead
        <4>1. \A x : x \in 2 .. m => x \in 2 .. r0 /\ (r0 # m => x # r0)
          BY <1>8, <1>9
        <4> QED  BY <1>14, <3>1, <3>3, <4>1
      <3> QED  BY <3>2, <3>3
    <2>2. e.root \in 2 .. r0 /\ e.since = IF r0 # m /\ e.root = r0 THEN journal.since ELSE ring.roots[e.root]
      BY <1>4, <1>8, <1>9
    <2>3. \A i \in DOMAIN ledger' : ledger'[i].type = "ROOT_ROTATION" =>
             /\ ledger'[i].root \in 2 .. r0
             /\ ledger'[i].since = IF r0 # m /\ ledger'[i].root = r0 THEN journal.since
                                   ELSE ring.roots[ledger'[i].root]
      BY <1>6, <2>1, <2>2
    <2>4. ASSUME NEW r \in 2 .. r0
          PROVE  \E i \in DOMAIN ledger' : ledger'[i].type = "ROOT_ROTATION" /\ ledger'[i].root = r
      <3>1. CASE r = r0
        BY <1>4, <1>6, <3>1
      <3>2. CASE r # r0
        <4>1. r \in 2 .. Roots
          BY <1>8, <1>9, <1>14, <3>2
        <4>2. PICK i \in DOMAIN ledger : ledger[i].type = "ROOT_ROTATION" /\ ledger[i].root = r
          BY <4>1 DEF KeysInv, RingInv
        <4> QED  BY <1>6, <4>2
      <3> QED  BY <3>1, <3>2
    <2>5. \A i \in DOMAIN ledger' : ledger'[i].type = "KEY_ROTATION" =>
             \A rv \in ledger'[i].revs : rv \in ring.revs
      <3>1. \A i \in DOMAIN ledger : ledger[i].type = "KEY_ROTATION" =>
               \A rv \in ledger[i].revs : rv \in ring.revs
        BY <1>11 DEF KeysInv, RingInv
      <3> QED  BY <1>4, <1>6, <3>1
    <2>6. \A rv \in ring.revs : \E i \in DOMAIN ledger' :
             ledger'[i].type = "KEY_ROTATION" /\ rv \in ledger'[i].revs
      <3>1. \A rv \in ring.revs : \E i \in DOMAIN ledger :
               ledger[i].type = "KEY_ROTATION" /\ rv \in ledger[i].revs
        BY DEF KeysInv, RingInv
      <3> QED  BY <1>6, <3>1
    <2>7. \A rv \in ring.revs : rv.key < ring.active
      BY DEF KeysInv, RingInv
    <2> QED  BY <1>3, <1>8, <1>11, <1>12, <1>14, <2>3, <2>4, <2>5, <2>6, <2>7 DEF RingInv
  <1>19. TenureInv'
    <2>1. \A c \in ring.certs : c.from <= venueClock
      BY DEF KeysInv, RingTypes
    <2>2. \A i \in DOMAIN ledger' : \A c \in ring.certs : c.key = ledger'[i].key => c.from <= ledger'[i].at
      BY <1>4, <1>6, <2>1 DEF KeysInv, TenureInv
    <2>4. /\ \E c \in ring.certs : c.key = ring.active /\ Ring!InTime(ring.roots, c)
          /\ \A c, d \in ring.certs : c.key = d.key => c.from = d.from
      BY DEF KeysInv, TenureInv
    <2> QED  BY <1>8, <1>11, <2>2, <2>4 DEF TenureInv, Ring!InTime, Ring!UntrustedFrom
  <1>20. RingTypes' /\ OrderInv' /\ KeyJournalInv' /\ RootJournalInv'
    BY <1>2, <1>11, SMTT(60) DEF KeysInv, RingTypes, OrderInv, KeyJournalInv, RootJournalInv, RootJournal,
                                 Steps, Applying
  <1>21. StepInv'
    BY <1>2, <1>10, <1>11 DEF KeysInv, StepInv, Applying
  <1>22. Declared' = Declared /\ \A rv, S : ~Before(rv, S) /\ ~Before(rv, S)'
    BY <1>2, <1>11 DEF Declared, Before, Working
  <1>23. AffirmedInv'
    <2>1. ASSUME NEW rv \in Declared, Affirmed(rv) PROVE Affirmed(rv)'
      <3>1. rv.key < ring.active /\ rv.key \in Nat
        BY <2>1 DEF Declared, KeysInv, RingInv, RingTypes, Revocations
      <3>2. ASSUME NEW i \in DOMAIN ledger', Doubted(rv, i)'
            PROVE  \E s \in DOMAIN ledger' : Affirms(s, rv, i)'
        <4>1. i # n
          BY <1>4, <1>6, <1>8, <3>1, <3>2 DEF Doubted
        <4>2. i \in DOMAIN ledger /\ Doubted(rv, i)
          BY <1>6, <3>2, <4>1 DEF Doubted
        <4>3. PICK s \in DOMAIN ledger : Affirms(s, rv, i)
          BY <2>1, <4>2 DEF Affirmed
        <4> QED  BY <1>6, <4>3 DEF Affirms
      <3> QED  BY <3>2 DEF Affirmed
    <2> QED  BY <1>22, <2>1 DEF KeysInv, AffirmedInv
  <1>24. AttestedInv' /\ CredentialInv'
    BY <1>2, <1>22 DEF KeysInv, AttestedInv, Attesting, CredentialInv
  <1> QED  BY <1>17, <1>18, <1>19, <1>20, <1>21, <1>23, <1>24 DEF KeysInv


\* What is under way is a rotation of a key or of a root, and its entry is recorded
LEMMA RotationUnderWay ==
    ASSUME KeysInv, step # "idle"
    PROVE  /\ KeyJournal \/ RootJournal
           /\ ~(KeyJournal /\ RootJournal)
           /\ step \in Applying => ~KeyAhead /\ ~RootAhead /\ Top = ring.active /\ Roots = Len(ring.roots)
           /\ step = "appended" \/ step = "keyed" => Ring!Recorded(journal)
  <1>1. KeyJournal \/ RootJournal
    BY DEF KeysInv, StepInv
  <1>2. ~(KeyJournal /\ RootJournal)
    BY DEF KeyJournal, RootJournal
  <1>3. step \in Applying => ~KeyAhead /\ ~RootAhead
    BY DEF KeysInv, StepInv, KeyAhead, RootAhead, Ahead
  <1>4. step = "appended" \/ step = "keyed" => Ring!Recorded(journal)
    BY DEF KeysInv, StepInv
  <1> QED  BY <1>1, <1>2, <1>3, <1>4 DEF Top, Roots

LEMMA SkipsInstall ==
    ASSUME KeysInv, Ring!SkipInstall
    PROVE  KeysInv'
  <1>1. /\ step = "appended" /\ step' = "installed" /\ Ring!AlreadyInstalled
        /\ UNCHANGED <<venueClock, ring, keyFile, nextFile, journal, ledger, venueCredential, store>>
        /\ UNCHANGED <<pending, order, venueMem, mode>>
    BY DEF Ring!SkipInstall, Ring!At, Ring!files
  <1>2. RingTypes' /\ OrderInv' /\ KeyJournalInv' /\ RootJournalInv'
    BY <1>1 DEF KeysInv, RingTypes, OrderInv, KeyJournalInv, RootJournalInv, KeyJournal, RootJournal,
                Steps, Applying
  <1>3. StepInv'
    BY <1>1 DEF KeysInv, StepInv, Applying, KeyJournal, RootJournal, Ring!Nothing, Ring!Recorded,
                Ring!On, Ring!AlreadyInstalled
  <1>4. LedgerInv' /\ RingInv' /\ TenureInv'
    BY <1>1, ChainStays DEF KeysInv, RingTypes, Instants
  <1>5. AffirmedInv' /\ AttestedInv' /\ CredentialInv'
    <2>1. \A rv : /\ Before(rv, Resealed) => Before(rv, Resealed)'
                  /\ Before(rv, Persisted) => Before(rv, Persisted)'
                  /\ Before(rv, Reattested) => Before(rv, Reattested)'
                  /\ Before(rv, Reissued) => Before(rv, Reissued)'
      BY <1>1 DEF Before, Working, KeyJournal, Resealed, Persisted, Reattested, Reissued
    <2> QED  BY <1>1, <2>1, DoubtStays DEF KeysInv, RingTypes, Instants
  <1> QED  BY <1>2, <1>3, <1>4, <1>5 DEF KeysInv

\* installRoot: the next root takes over, and on a compromise certifies the active
\* key again, with the start of its tenure
LEMMA InstallsRoot ==
    ASSUME KeysInv, Ring!InstallRoot
    PROVE  KeysInv'
  <1>1. PICK m : m = Len(ring.roots)
    OBVIOUS
  <1>2. PICK t : t = journal.since
    OBVIOUS
  <1>3. PICK new : new = journal.recert
    OBVIOUS
  <1>4. /\ step = "appended" /\ step' = "installed" /\ RootJournal /\ journal.root # m
        /\ ring' = [ring EXCEPT !.roots = Append(@, t), !.certs = @ \cup new]
        /\ UNCHANGED <<venueClock, nextFile, journal, ledger, venueCredential, store>>
        /\ UNCHANGED <<pending, order, venueMem, mode>>
    BY <1>1, <1>2, <1>3 DEF Ring!InstallRoot, Ring!At, Ring!AlreadyInstalled, RootJournal
  <1>5. /\ ring.roots \in Seq(Nat) /\ m \in Nat /\ m >= 1 /\ ring.roots[1] = 0
        /\ ring.active \in Nat /\ ring.active >= 1 /\ venueClock \in Nat /\ venueClock <= MaxVenueTime
        /\ ring \in [roots : Seq(Nat), active : Nat \ {0}, certs : SUBSET Certs, revs : SUBSET Revocations]
    BY <1>1 DEF KeysInv, RingTypes, Instants
  <1>6. /\ journal.root = m + 1 /\ t \in Nat /\ new \in SUBSET Certs /\ (t # 0 => new # {})
        /\ \A c \in new : /\ c.key = ring.active /\ c.root = m + 1 /\ c.at <= venueClock
                          /\ \E o \in ring.certs : o.key = c.key /\ o.from = c.from
    BY <1>1, <1>2, <1>3, <1>4 DEF KeysInv, RootJournalInv
  <1>7. PICK roots : roots = Append(ring.roots, t)
    OBVIOUS
  <1>8. /\ roots \in Seq(Nat) /\ Len(roots) = m + 1 /\ roots[m + 1] = t
        /\ \A r \in 1 .. m : roots[r] = ring.roots[r]
    BY <1>1, <1>5, <1>6, <1>7, AppendProperties
  <1>9. /\ ring'.roots = roots /\ ring'.active = ring.active /\ ring'.revs = ring.revs
        /\ ring'.certs = ring.certs \cup new
        /\ ring' \in [roots : Seq(Nat), active : Nat \ {0}, certs : SUBSET Certs, revs : SUBSET Revocations]
    BY <1>4, <1>5, <1>6, <1>7, <1>8
  <1>10. \A c \in ring'.certs : \E o \in ring.certs : o.key = c.key /\ o.from = c.from
    BY <1>6, <1>9
  <1>11. \A c \in ring'.certs : c.key \in 1 .. ring.active /\ c.from <= venueClock /\ c.at <= venueClock
    <2>1. \A c \in ring.certs : c.key \in 1 .. ring.active /\ c.from <= venueClock /\ c.at <= venueClock
      BY DEF KeysInv, RingTypes
    <2> QED  BY <1>6, <1>9, <1>10, <2>1
  <1>12. RingTypes'
    <2>1. \A k \in 1 .. ring.active : \E c \in ring'.certs : c.key = k
      BY <1>9 DEF KeysInv, RingTypes
    <2>2. /\ venueClock' = venueClock /\ venueClock \in Instants /\ step' \in Steps
          /\ mode' \in {"serving", "recovering", "refusing"}
          /\ nextFile' \in {0, ring.active, ring.active + 1} /\ pending' \in {0, nextFile'}
      BY <1>4 DEF KeysInv, RingTypes, Steps, Applying
    <2>3. Len(roots) >= 1 /\ roots[1] = 0
      BY <1>5, <1>8
    <2> QED  BY <1>9, <1>11, <2>1, <2>2, <2>3 DEF RingTypes
  <1>13. RootJournal' /\ ~KeyJournal' /\ ~KeyJournal /\ ~KeyAhead /\ ~KeyAhead'
    BY <1>4 DEF KeyJournal, RootJournal, KeyAhead
  <1>14. OrderInv' /\ KeyJournalInv'
    BY <1>4, <1>9, <1>13 DEF KeysInv, OrderInv, KeyJournalInv
  <1>15. RootJournalInv'
    <2>1. \A c \in new : \E o \in ring'.certs : o.key = c.key /\ o.from = c.from
      BY <1>9
    <2>2. journal' = journal /\ venueClock' = venueClock
      BY <1>4
    <2>3. /\ journal'.root = Len(ring'.roots) /\ journal'.root >= 2
          /\ journal'.since = ring'.roots[journal'.root]
      BY <1>2, <1>5, <1>6, <1>8, <1>9, <2>2
    <2>4. \A c \in new : c.key = ring'.active /\ c.root = journal'.root /\ c.at <= venueClock'
      BY <1>6, <1>9, <2>2
    <2>5. /\ journal'.since \in Nat /\ journal'.recert = new /\ new \in SUBSET Certs
          /\ (journal'.since # 0 => new # {})
      BY <1>2, <1>3, <1>6, <2>2
    <2> QED  BY <2>1, <2>3, <2>4, <2>5, Zenon DEF RootJournalInv
  <1>16. Ring!Recorded(journal) /\ Ring!Recorded(journal)' /\ Ring!AlreadyInstalled'
    <2>1. Ring!Recorded(journal)
      BY <1>4, RotationUnderWay
    <2> QED  BY <1>4, <1>6, <1>8, <1>9, <2>1 DEF Ring!Recorded, Ring!On, Ring!AlreadyInstalled, RootJournal
  <1>17. StepInv'
    BY <1>4, <1>13, <1>16 DEF KeysInv, StepInv, Applying
  <1>18. /\ Top = ring.active /\ Top' = ring.active /\ RootAhead /\ ~RootAhead'
         /\ Roots = m + 1 /\ Roots' = m + 1
    <2>1. ~Ring!AlreadyInstalled
      BY <1>4 DEF Ring!InstallRoot
    <2> QED  BY <1>4, <1>6, <1>8, <1>9, <1>13, <1>16, <2>1 DEF Top, RootAhead, Ahead, Roots
  <1>19. LedgerInv'
    BY <1>4, <1>9, <1>13, <1>18 DEF KeysInv, LedgerInv
  <1>20. RingInv'
    <2>1. \A i \in DOMAIN ledger : ledger[i].type = "ROOT_ROTATION" =>
             /\ ledger[i].root \in 2 .. m + 1
             /\ ledger[i].since = IF ledger[i].root = m + 1 THEN t ELSE ring.roots[ledger[i].root]
      BY <1>2, <1>6, <1>18 DEF KeysInv, RingInv
    <2>2. \A r \in 2 .. m + 1 : roots[r] = IF r = m + 1 THEN t ELSE ring.roots[r]
      BY <1>5, <1>8
    <2>3. \A i \in DOMAIN ledger : ledger[i].type = "ROOT_ROTATION" =>
             ledger[i].root \in 2 .. m + 1 /\ ledger[i].since = roots[ledger[i].root]
      BY <2>1, <2>2
    <2>4. /\ \A r \in 2 .. m + 1 : \E i \in DOMAIN ledger :
                ledger[i].type = "ROOT_ROTATION" /\ ledger[i].root = r
          /\ \A i \in DOMAIN ledger : ledger[i].type = "KEY_ROTATION" =>
                \A rv \in ledger[i].revs : rv \in ring.revs
          /\ \A rv \in ring.revs :
                \E i \in DOMAIN ledger : ledger[i].type = "KEY_ROTATION" /\ rv \in ledger[i].revs
          /\ \A rv \in ring.revs : rv.key < ring.active
      BY <1>13, <1>18 DEF KeysInv, RingInv
    <2> QED  BY <1>4, <1>9, <1>13, <1>18, <2>3, <2>4, ZenonT(60) DEF RingInv
  <1>21. TenureInv'
    <2>1. \A c, d \in ring.certs : c.key = d.key => c.from = d.from
      BY DEF KeysInv, TenureInv
    <2>2. ASSUME NEW c \in ring'.certs, NEW d \in ring'.certs, c.key = d.key PROVE c.from = d.from
      <3>1. PICK o \in ring.certs : o.key = c.key /\ o.from = c.from
        BY <1>10
      <3>2. PICK x \in ring.certs : x.key = d.key /\ x.from = d.from
        BY <1>10
      <3> QED  BY <2>1, <2>2, <3>1, <3>2
    <2>3. ASSUME NEW i \in DOMAIN ledger, NEW c \in ring'.certs, c.key = ledger[i].key
          PROVE  c.from <= ledger[i].at
      <3>1. PICK o \in ring.certs : o.key = c.key /\ o.from = c.from
        BY <1>10
      <3> QED  BY <2>3, <3>1 DEF KeysInv, TenureInv
    <2>4. \E c \in ring'.certs : c.key = ring.active /\ Ring!InTime(roots, c)
      <3>1. CASE t = 0
        <4>1. PICK c \in ring.certs : c.key = ring.active /\ Ring!InTime(ring.roots, c)
          BY DEF KeysInv, TenureInv
        <4>2. c.root \in Nat
          BY <1>5, <4>1 DEF Certs
        <4>3. Ring!UntrustedFrom(roots, c.root) = Ring!UntrustedFrom(ring.roots, c.root)
          <5>1. CASE c.root = m
            BY <1>1, <1>5, <1>8, <3>1, <5>1 DEF Ring!UntrustedFrom, Ring!None
          <5>2. CASE c.root < m
            <6>1. c.root + 1 \in 1 .. m
              BY <1>5, <4>2, <5>2
            <6> QED  BY <1>1, <1>5, <1>8, <4>2, <5>2, <6>1, SMTT(60) DEF Ring!UntrustedFrom
          <5>3. CASE c.root > m
            BY <1>1, <1>5, <1>8, <4>2, <5>3 DEF Ring!UntrustedFrom
          <5> QED  BY <1>5, <4>2, <5>1, <5>2, <5>3
        <4>4. Ring!InTime(roots, c)
          BY <4>1, <4>3 DEF Ring!InTime
        <4> QED  BY <1>9, <4>1, <4>4
      <3>2. CASE t # 0
        <4>1. PICK c \in new : c.key = ring.active /\ c.root = m + 1 /\ c.at <= venueClock /\ c.at \in Nat
          BY <1>6, <3>2 DEF Certs
        <4>2. Ring!UntrustedFrom(roots, m + 1) = MaxVenueTime + 1
          BY <1>5, <1>8 DEF Ring!UntrustedFrom
        <4>3. c.at < MaxVenueTime + 1
          BY <1>5, <4>1, VenueTimeAssumption
        <4> QED  BY <1>9, <4>1, <4>2, <4>3 DEF Ring!InTime
      <3> QED  BY <3>1, <3>2
    <2> QED  BY <1>4, <1>9, <1>13, <2>2, <2>3, <2>4 DEF TenureInv, Ring!InTime, Ring!UntrustedFrom
  <1>22. Declared' = Declared /\ \A rv, S : ~Before(rv, S) /\ ~Before(rv, S)'
    BY <1>9, <1>13 DEF Declared, Before, Working
  <1>23. AffirmedInv'
    <2>1. \A rv \in Declared : Affirmed(rv)
      BY <1>22 DEF KeysInv, AffirmedInv
    <2> QED  BY <1>4, <1>22, <2>1 DEF AffirmedInv, Affirmed, Doubted, Affirms
  <1>24. AttestedInv'
    <2>1. ASSUME NEW a, \A c \in ring.certs : c.key = a.key => c.from <= a.at
          PROVE  \A c \in ring'.certs : c.key = a.key => c.from <= a.at
      BY <1>10, <2>1
    <2>2. Attesting(venueMem, Reattested)'
      BY <1>4, <1>9, <1>22, <2>1 DEF KeysInv, AttestedInv, Attesting
    <2>3. Attesting(store, Persisted)'
      BY <1>4, <1>9, <1>22, <2>1 DEF KeysInv, AttestedInv, Attesting
    <2> QED  BY <2>2, <2>3 DEF AttestedInv
  <1>25. CredentialInv'
    BY <1>4, <1>9, <1>10, <1>22, SMTT(60) DEF KeysInv, CredentialInv
  <1> QED  BY <1>12, <1>14, <1>15, <1>17, <1>19, <1>20, <1>21, <1>23, <1>24, <1>25 DEF KeysInv

LEMMA InstallsKey ==
    ASSUME KeysInv, Ring!InstallKey
    PROVE  KeysInv'
  <1>1. /\ step = "appended" /\ step' = "keyed" /\ KeyJournal /\ journal.cert.key # ring.active
        /\ UNCHANGED <<venueClock, ring, nextFile, journal, ledger, venueCredential, store>>
        /\ UNCHANGED <<pending, order, venueMem, mode>>
    BY DEF Ring!InstallKey, Ring!At, Ring!AlreadyInstalled, KeyJournal
  <1>2. RingTypes' /\ OrderInv' /\ KeyJournalInv' /\ RootJournalInv'
    BY <1>1 DEF KeysInv, RingTypes, OrderInv, KeyJournalInv, RootJournalInv, KeyJournal, RootJournal,
                Steps, Applying
  <1>3. StepInv'
    BY <1>1 DEF KeysInv, StepInv, Applying, KeyJournal, RootJournal, Ring!Nothing, Ring!Recorded,
                Ring!On, Ring!AlreadyInstalled
  <1>4. LedgerInv' /\ RingInv' /\ TenureInv'
    BY <1>1, ChainStays DEF KeysInv, RingTypes, Instants
  <1>5. AffirmedInv' /\ AttestedInv' /\ CredentialInv'
    <2>1. \A rv : /\ Before(rv, Resealed) => Before(rv, Resealed)'
                  /\ Before(rv, Persisted) => Before(rv, Persisted)'
                  /\ Before(rv, Reattested) => Before(rv, Reattested)'
                  /\ Before(rv, Reissued) => Before(rv, Reissued)'
      BY <1>1 DEF Before, Working, KeyJournal, Resealed, Persisted, Reattested, Reissued
    <2> QED  BY <1>1, <2>1, DoubtStays DEF KeysInv, RingTypes, Instants
  <1> QED  BY <1>2, <1>3, <1>4, <1>5 DEF KeysInv

\* install: the successor takes over, and what its root says of the old key counts
LEMMA InstallsRing ==
    ASSUME KeysInv, Ring!InstallRing
    PROVE  KeysInv'
  <1>1. PICK cert : cert = journal.cert
    OBVIOUS
  <1>2. PICK revs : revs = journal.revs
    OBVIOUS
  <1>3. /\ step = "keyed" /\ step' = "ringed" /\ pending' = 0
        /\ ring' = [ring EXCEPT !.active = cert.key, !.certs = @ \cup {cert}, !.revs = @ \cup revs]
        /\ UNCHANGED <<venueClock, nextFile, journal, ledger, venueCredential, store>>
        /\ UNCHANGED <<order, venueMem, mode>>
    BY <1>1, <1>2 DEF Ring!InstallRing, Ring!At, Ring!None
  <1>4. KeyJournal /\ KeyJournal' /\ ~RootJournal /\ ~RootJournal' /\ ~RootAhead /\ ~RootAhead'
    BY <1>3 DEF KeysInv, StepInv, KeyJournal, RootJournal, RootAhead
  <1>5. PICK k : k = ring.active
    OBVIOUS
  <1>6. /\ k \in Nat /\ k >= 1 /\ venueClock \in Nat /\ venueClock <= MaxVenueTime
        /\ ring.roots \in Seq(Nat) /\ Len(ring.roots) \in Nat
        /\ ring \in [roots : Seq(Nat), active : Nat \ {0}, certs : SUBSET Certs, revs : SUBSET Revocations]
    BY <1>5 DEF KeysInv, RingTypes, Instants
  <1>7. /\ cert.key = k + 1 /\ cert \in Certs /\ cert.root = Len(ring.roots) /\ nextFile = k + 1
        /\ cert.from <= venueClock /\ cert.at <= venueClock
        /\ order # Ring!Nothing /\ order.cert = cert /\ order.revs = revs
        /\ revs \in SUBSET Revocations /\ \A rv \in revs : rv.key < k + 1
    <2>1. cert.key # k
      BY <1>1, <1>3, <1>5 DEF KeysInv, StepInv
    <2> QED  BY <1>1, <1>2, <1>4, <1>5, <2>1 DEF KeysInv, KeyJournalInv, OrderInv
  <1>8. /\ ring'.roots = ring.roots /\ ring'.active = k + 1 /\ ring'.certs = ring.certs \cup {cert}
        /\ ring'.revs = ring.revs \cup revs
        /\ ring' \in [roots : Seq(Nat), active : Nat \ {0}, certs : SUBSET Certs, revs : SUBSET Revocations]
    <2>1. k + 1 \in Nat \ {0}
      BY <1>6
    <2> QED  BY <1>3, <1>6, <1>7, <2>1
  <1>9. \A c \in ring.certs : c.key \in 1 .. k /\ c.from <= venueClock /\ c.at <= venueClock
    BY <1>5 DEF KeysInv, RingTypes
  <1>10. RingTypes'
    <2>1. \A c \in ring'.certs : c.key \in 1 .. k + 1 /\ c.from <= venueClock /\ c.at <= venueClock
      BY <1>6, <1>7, <1>8, <1>9
    <2>2. ASSUME NEW x \in 1 .. k + 1 PROVE \E c \in ring'.certs : c.key = x
      <3>1. CASE x = k + 1
        BY <1>7, <1>8, <3>1
      <3>2. CASE x # k + 1
        <4>1. x \in 1 .. ring.active
          BY <1>5, <1>6, <3>2
        <4> QED  BY <1>8, <4>1 DEF KeysInv, RingTypes
      <3> QED  BY <3>1, <3>2
    <2>3. /\ venueClock' = venueClock /\ venueClock \in Instants /\ step' \in Steps
          /\ mode' \in {"serving", "recovering", "refusing"} /\ Len(ring.roots) >= 1 /\ ring.roots[1] = 0
      BY <1>3 DEF KeysInv, RingTypes, Steps, Applying
    <2>4. nextFile' \in {0, ring'.active, ring'.active + 1} /\ pending' \in {0, nextFile'}
      BY <1>3, <1>7, <1>8
    <2> QED  BY <1>8, <2>1, <2>2, <2>3, <2>4 DEF RingTypes
  <1>11. OrderInv'
    <2>1. \A rv, rw \in revs : rv = rw
      BY <1>7 DEF KeysInv, OrderInv
    <2>2. k + 1 >= 2
      BY <1>6
    <2> QED  BY <1>3, <1>7, <1>8, <2>1, <2>2 DEF OrderInv
  <1>12. KeyJournalInv' /\ RootJournalInv'
    <2>1. \A rv \in journal.revs : rv.key = journal.previous
      BY <1>4 DEF KeysInv, KeyJournalInv
    <2> QED  BY <1>1, <1>2, <1>3, <1>4, <1>7, <1>8, <2>1 DEF KeyJournalInv, RootJournalInv
  <1>13. Ring!Recorded(journal) /\ Ring!Recorded(journal)' /\ Ring!AlreadyInstalled'
    <2>1. Ring!Recorded(journal)
      BY <1>3, RotationUnderWay
    <2> QED  BY <1>1, <1>3, <1>4, <1>7, <1>8, <2>1 DEF Ring!Recorded, Ring!On, Ring!AlreadyInstalled, KeyJournal
  <1>14. StepInv'
    BY <1>3, <1>4, <1>13 DEF KeysInv, StepInv, Applying
  <1>15. /\ KeyAhead /\ ~KeyAhead' /\ Top = k + 1 /\ Top' = k + 1
         /\ Roots = Len(ring.roots) /\ Roots' = Len(ring.roots)
    <2>1. ~Ring!AlreadyInstalled
      BY <1>1, <1>4, <1>5, <1>6, <1>7 DEF Ring!AlreadyInstalled, KeyJournal
    <2> QED  BY <1>1, <1>4, <1>7, <1>8, <1>13, <2>1 DEF Top, KeyAhead, Ahead, Roots
  <1>16. LedgerInv'
    BY <1>1, <1>3, <1>8, <1>15 DEF KeysInv, LedgerInv
  <1>17. RingInv'
    <2>1. \A rv \in ring'.revs : rv.key < k + 1
      <3>1. \A rv \in ring.revs : rv.key < k /\ rv.key \in Nat
        BY <1>5, <1>6 DEF KeysInv, RingInv, Revocations
      <3> QED  BY <1>6, <1>7, <1>8, <3>1
    <2>2. /\ \A i \in DOMAIN ledger : ledger[i].type = "KEY_ROTATION" =>
                \A rv \in ledger[i].revs : rv \in ring'.revs
          /\ \A rv : rv \in ring'.revs =>
                \E i \in DOMAIN ledger : ledger[i].type = "KEY_ROTATION" /\ rv \in ledger[i].revs
      BY <1>2, <1>8, <1>15 DEF KeysInv, RingInv
    <2>3. /\ \A i \in DOMAIN ledger : ledger[i].type = "ROOT_ROTATION" =>
                /\ ledger[i].root \in 2 .. Len(ring.roots)
                /\ ledger[i].since = ring.roots[ledger[i].root]
          /\ \A r \in 2 .. Len(ring.roots) : \E i \in DOMAIN ledger :
                ledger[i].type = "ROOT_ROTATION" /\ ledger[i].root = r
      BY <1>4, <1>15 DEF KeysInv, RingInv
    <2> QED  BY <1>3, <1>4, <1>8, <1>15, <2>1, <2>2, <2>3 DEF RingInv
  <1>18. TenureInv'
    <2>1. \A c, d \in ring'.certs : c.key = d.key => c.from = d.from
      <3>1. \A c, d \in ring.certs : c.key = d.key => c.from = d.from
        BY DEF KeysInv, TenureInv
      <3>2. \A c \in ring.certs : c.key # cert.key
        BY <1>6, <1>7, <1>9
      <3> QED  BY <1>8, <3>1, <3>2
    <2>2. \A i \in DOMAIN ledger : \A c \in ring'.certs : c.key = ledger[i].key => c.from <= ledger[i].at
      BY <1>1, <1>8, <1>15 DEF KeysInv, TenureInv
    <2>3. Ring!InTime(ring.roots, cert)
      <3>1. Ring!UntrustedFrom(ring.roots, cert.root) = MaxVenueTime + 1
        BY <1>6, <1>7 DEF Ring!UntrustedFrom
      <3>2. cert.at < MaxVenueTime + 1
        BY <1>6, <1>7, VenueTimeAssumption DEF Certs
      <3> QED  BY <3>1, <3>2 DEF Ring!InTime
    <2> QED  BY <1>3, <1>7, <1>8, <1>15, <2>1, <2>2, <2>3 DEF TenureInv, Ring!InTime, Ring!UntrustedFrom
  <1>19. \A rv, S : ~Before(rv, S)
    BY <1>1, <1>5, <1>6, <1>7 DEF Before, Working
  <1>20. \A rv \in Declared' :
            rv \in Declared \/ (/\ Before(rv, Resealed)' /\ Before(rv, Reattested)'
                                /\ Before(rv, Persisted)' /\ Before(rv, Reissued)')
    <2>1. ASSUME NEW rv \in Declared', rv \notin Declared PROVE Working(rv)'
      BY <1>1, <1>2, <1>3, <1>4, <1>7, <1>8, <2>1 DEF Declared, Working
    <2> QED  BY <1>3, <2>1 DEF Before, Resealed, Reattested, Persisted, Reissued
  <1>21. Declared \subseteq Declared'
    BY <1>8 DEF Declared
  <1>22. AffirmedInv'
    <2>1. \A rv \in Declared : Affirmed(rv)
      BY <1>19 DEF KeysInv, AffirmedInv
    <2>2. \A rv \in Declared : Affirmed(rv)'
      BY <1>3, <2>1 DEF Affirmed, Doubted, Affirms
    <2> QED  BY <1>20, <2>2 DEF AffirmedInv
  <1>23. AttestedInv'
    <2>1. ASSUME NEW a, a.key \in 1 .. ring.active, \A c \in ring.certs : c.key = a.key => c.from <= a.at
          PROVE  a.key \in 1 .. ring'.active /\ \A c \in ring'.certs : c.key = a.key => c.from <= a.at
      BY <1>5, <1>6, <1>7, <1>8, <2>1
    <2>2. Attesting(venueMem, Reattested) /\ Attesting(store, Persisted)
      BY DEF KeysInv, AttestedInv
    <2>3. Attesting(venueMem, Reattested)'
      BY <1>3, <1>19, <1>20, <2>1, <2>2 DEF Attesting
    <2>4. Attesting(store, Persisted)'
      BY <1>3, <1>19, <1>20, <2>1, <2>2 DEF Attesting
    <2> QED  BY <2>3, <2>4 DEF AttestedInv
  <1>24. CredentialInv'
    <2>1. venueCredential.key # 0 =>
            /\ venueCredential.key <= k + 1
            /\ \A c \in ring'.certs : c.key = venueCredential.key => c.from <= venueCredential.signed
      BY <1>5, <1>6, <1>7, <1>8 DEF KeysInv, CredentialInv
    <2> QED  BY <1>3, <1>8, <1>19, <1>20, <1>21, <2>1 DEF KeysInv, CredentialInv
  <1> QED  BY <1>10, <1>11, <1>12, <1>14, <1>16, <1>17, <1>18, <1>22, <1>23, <1>24 DEF KeysInv

LEMMA RemovesNext ==
    ASSUME KeysInv, Ring!RemoveNext
    PROVE  KeysInv'
  <1>1. /\ step = "ringed" /\ step' = "installed" /\ nextFile' = 0
        /\ UNCHANGED <<venueClock, ring, journal, ledger, venueCredential, store>>
        /\ UNCHANGED <<pending, order, venueMem, mode>>
    BY DEF Ring!RemoveNext, Ring!At, Ring!None
  <1>2. KeyJournal /\ journal.cert.key = ring.active /\ pending = 0
    BY <1>1 DEF KeysInv, StepInv, Applying, Ring!AlreadyInstalled, KeyJournal
  <1>3. RingTypes' /\ OrderInv' /\ KeyJournalInv' /\ RootJournalInv'
    BY <1>1, <1>2 DEF KeysInv, RingTypes, OrderInv, KeyJournalInv, RootJournalInv, KeyJournal, RootJournal,
                Steps, Applying
  <1>4. StepInv'
    BY <1>1 DEF KeysInv, StepInv, Applying, KeyJournal, RootJournal, Ring!Nothing, Ring!Recorded,
                Ring!On, Ring!AlreadyInstalled
  <1>5. LedgerInv' /\ RingInv' /\ TenureInv'
    BY <1>1, ChainStays DEF KeysInv, RingTypes, Instants
  <1>6. AffirmedInv' /\ AttestedInv' /\ CredentialInv'
    <2>1. \A rv : /\ Before(rv, Resealed) => Before(rv, Resealed)'
                  /\ Before(rv, Persisted) => Before(rv, Persisted)'
                  /\ Before(rv, Reattested) => Before(rv, Reattested)'
                  /\ Before(rv, Reissued) => Before(rv, Reissued)'
      BY <1>1 DEF Before, Working, KeyJournal, Resealed, Persisted, Reattested, Reissued
    <2> QED  BY <1>1, <2>1, DoubtStays DEF KeysInv, RingTypes, Instants
  <1> QED  BY <1>3, <1>4, <1>5, <1>6 DEF KeysInv


\* What the rotation under way says of the key it replaces
LEMMA WorkingSince ==
    ASSUME KeysInv
    PROVE  /\ \A rv \in Declared : Working(rv) =>
                 KeyJournal /\ Ring!Since = rv.since /\ Ring!Since # 0 /\ rv.key = journal.previous
           /\ KeyJournal /\ journal.cert.key = ring.active /\ Ring!Since # 0 =>
                 \E rv \in Declared : Working(rv)
  <1>1. KeyJournal => /\ \A rv, rw \in journal.revs : rv = rw
                      /\ \A rv \in journal.revs : rv.key = journal.previous
                      /\ journal.cert.key = ring.active => journal.revs \subseteq ring.revs
    BY DEF KeysInv, KeyJournalInv, OrderInv
  <1>2. ASSUME NEW rv \in Declared, Working(rv)
        PROVE  KeyJournal /\ Ring!Since = rv.since /\ Ring!Since # 0 /\ rv.key = journal.previous
    <2>1. KeyJournal /\ rv \in journal.revs /\ rv.since # 0
      BY <1>2 DEF Working, Declared
    <2>2. PICK c : c = CHOOSE x \in journal.revs : TRUE
      OBVIOUS
    <2>3. c \in journal.revs
      BY <2>1, <2>2
    <2>4. c = rv
      BY <1>1, <2>1, <2>3
    <2>5. Ring!Since = rv.since
      BY <2>1, <2>2, <2>4 DEF Ring!Since, Ring!None, KeyJournal
    <2> QED  BY <1>1, <2>1, <2>5
  <1>3. ASSUME KeyJournal, journal.cert.key = ring.active, Ring!Since # 0
        PROVE  \E rv \in Declared : Working(rv)
    <2>1. PICK rv \in journal.revs : rv.since # 0
      BY <1>3 DEF Ring!Since, Ring!None
    <2> QED  BY <1>1, <1>3, <2>1 DEF Declared, Working
  <1> QED  BY <1>2, <1>3

\* reissueUnder: a credential that is in doubt is signed by the new key
LEMMA ReissuesInDoubt ==
    ASSUME KeysInv, Ring!Reissue
    PROVE  KeysInv'
  <1>1. /\ step = "installed" /\ Ring!Since # 0 /\ step' = "reissued"
        /\ UNCHANGED <<venueClock, ring, nextFile, journal, ledger, store>>
        /\ UNCHANGED <<pending, order, mode>>
    BY DEF Ring!Reissue, Ring!At, Ring!None
  <1>2. \/ /\ Ring!SuspectCredential
           /\ venueCredential' = [venueCredential EXCEPT !.key = ring.active, !.signed = venueClock]
           /\ venueMem' = [venueMem EXCEPT !.owed = @ \cup {"CREDENTIAL_REISSUED"}]
        \/ ~Ring!SuspectCredential /\ UNCHANGED <<venueCredential, venueMem>>
    BY DEF Ring!Reissue
  <1>3. KeyJournal /\ journal.cert.key = ring.active
    <2>1. KeyJournal
      BY <1>1 DEF Ring!Since, Ring!None, KeyJournal
    <2> QED  BY <1>1, <2>1 DEF KeysInv, StepInv, Applying, Ring!AlreadyInstalled, KeyJournal
  <1>4. RingTypes' /\ OrderInv' /\ KeyJournalInv' /\ RootJournalInv'
    BY <1>1 DEF KeysInv, RingTypes, OrderInv, KeyJournalInv, RootJournalInv, KeyJournal, RootJournal,
                Steps, Applying
  <1>5. StepInv'
    BY <1>1, <1>3 DEF KeysInv, StepInv, Applying, KeyJournal, RootJournal, Ring!Nothing, Ring!Recorded,
                      Ring!On, Ring!AlreadyInstalled, Ring!Since
  <1>6. LedgerInv' /\ RingInv' /\ TenureInv'
    BY <1>1, ChainStays DEF KeysInv, RingTypes, Instants
  <1>7. Declared' = Declared /\ \A rv : Working(rv)' <=> Working(rv)
    BY <1>1 DEF Declared, Working, KeyJournal
  <1>8. \A rv : /\ Before(rv, Resealed)' <=> Before(rv, Resealed)
                /\ Before(rv, Reattested)' <=> Before(rv, Reattested)
                /\ Before(rv, Persisted)' <=> Before(rv, Persisted)
    BY <1>1, <1>7 DEF Before, Resealed, Reattested, Persisted
  <1>9. AffirmedInv'
    BY <1>1, <1>7, <1>8 DEF KeysInv, AffirmedInv, Affirmed, Doubted, Affirms
  <1>10. AttestedInv'
    <2>1. Attesting(venueMem, Reattested) /\ Attesting(store, Persisted)
      BY DEF KeysInv, AttestedInv
    <2>2. venueMem' \in [attested : SUBSET Marks, owed : SUBSET Owed] /\ venueMem'.attested = venueMem.attested
      <3>1. venueMem \in [attested : SUBSET Marks, owed : SUBSET Owed]
        BY <2>1 DEF Attesting
      <3>2. "CREDENTIAL_REISSUED" \in Owed
        BY DEF Owed
      <3> QED  BY <1>2, <3>1, <3>2
    <2>3. Attesting(venueMem, Reattested)'
      BY <1>1, <1>7, <1>8, <2>1, <2>2 DEF Attesting
    <2>4. Attesting(store, Persisted)'
      BY <1>1, <1>7, <1>8, <2>1 DEF Attesting
    <2> QED  BY <2>3, <2>4 DEF AttestedInv
  <1>11. \A rv \in Declared : rv.key < ring.active /\ rv.key \in Nat
    BY DEF Declared, KeysInv, RingInv, RingTypes, Revocations
  <1>12. PICK w \in Declared : Working(w)
    BY <1>1, <1>3, WorkingSince
  <1>13. \A rv \in Declared : Working(rv) => rv.key = journal.previous /\ rv.since = Ring!Since
    BY WorkingSince
  <1>14. CredentialInv'
    <2>1. venueCredential \in [key : Nat, issued : Nat, signed : Nat]
      BY DEF KeysInv, CredentialInv
    <2>2. CASE Ring!SuspectCredential
      <3>1. /\ venueCredential'.key = ring.active /\ venueCredential'.signed = venueClock
            /\ venueCredential' \in [key : Nat, issued : Nat, signed : Nat]
        <4>1. venueCredential' = [venueCredential EXCEPT !.key = ring.active, !.signed = venueClock]
          BY <1>2, <2>2, Zenon
        <4>2. ring.active \in Nat /\ venueClock \in Nat
          BY DEF KeysInv, RingTypes, Instants
        <4> QED  BY <2>1, <4>1, <4>2
      <3>2. ring.active \in Nat /\ venueClock \in Nat /\ \A c \in ring.certs : c.from <= venueClock
        BY DEF KeysInv, RingTypes, Instants
      <3>3. ring' = ring /\ venueClock' = venueClock /\ Declared' = Declared
        BY <1>1, <1>7
      <3>4. w \in Declared /\ w.key # ring.active /\ \A rv \in Declared : rv.key # ring.active
        BY <1>11, <1>12, <3>2
      <3> QED  BY <3>1, <3>2, <3>3, <3>4 DEF CredentialInv
    <2>3. CASE ~Ring!SuspectCredential
      <3>1. venueCredential' = venueCredential
        BY <1>2, <2>3
      <3>2. ASSUME NEW rv \in Declared, venueCredential.key # 0,
                   venueCredential.key = rv.key, venueCredential.issued >= rv.since
            PROVE  FALSE
        <4>1. Working(rv)
          BY <3>2 DEF KeysInv, CredentialInv, Before
        <4> QED  BY <1>13, <2>3, <3>2, <4>1 DEF Ring!SuspectCredential
      <3> QED  BY <1>1, <1>7, <3>1, <3>2 DEF KeysInv, CredentialInv
    <2> QED  BY <2>2, <2>3
  <1> QED  BY <1>4, <1>5, <1>6, <1>9, <1>10, <1>14 DEF KeysInv

\* reattestArtifact: so is the attestation of a commitment
LEMMA ReattestsInDoubt ==
    ASSUME KeysInv, Ring!Reattest
    PROVE  KeysInv'
  <1>1. /\ step = "reissued" /\ step' = "reattested"
        /\ UNCHANGED <<venueClock, ring, nextFile, journal, venueCredential, store>>
        /\ UNCHANGED <<pending, order, mode>>
    BY DEF Ring!Reattest, Ring!At
  <1>2. PICK a : a = [key |-> ring.active, at |-> venueClock]
    OBVIOUS
  <1>3. PICK e : e = Ring!Entry("REATTESTATION", ring.active)
    OBVIOUS
  <1>4. PICK anew \in BOOLEAN : anew <=> /\ \E x \in venueMem.attested : Ring!Suspect(x)
                                         /\ ~\E x \in venueMem.attested : x.key = ring.active
    OBVIOUS
  <1>5. /\ anew => /\ venueMem' = [venueMem EXCEPT !.attested = {a},
                                                    !.owed = @ \cup {"COMMITMENT_REATTESTED"}]
                    /\ ledger' = Append(ledger, e)
        /\ ~anew => UNCHANGED <<venueMem, ledger>>
    BY <1>2, <1>3, <1>4 DEF Ring!Reattest
  <1>6. KeyJournal /\ ~RootJournal /\ journal.cert.key = ring.active /\ Ring!Since # 0
        /\ ~KeyAhead /\ ~RootAhead /\ Ring!Recorded(journal) /\ journal.kind = "KEY_ROTATION"
    BY <1>1, RotationUnderWay DEF KeysInv, StepInv, Applying, KeyJournal, Ring!AlreadyInstalled
  <1>7. Declared' = Declared /\ \A rv : Working(rv)' <=> Working(rv)
    BY <1>1 DEF Declared, Working, KeyJournal
  <1>8. \A rv : /\ Before(rv, Resealed)' <=> Before(rv, Resealed)
                /\ Before(rv, Persisted)' <=> Before(rv, Persisted)
                /\ Before(rv, Reissued)' <=> Before(rv, Reissued)
    BY <1>1, <1>7 DEF Before, Resealed, Reissued, Persisted
  <1>9. /\ LedgerInv' /\ RingInv' /\ TenureInv' /\ Ring!Recorded(journal)'
        /\ \A rv \in Declared : Affirmed(rv) => Affirmed(rv)'
    <2>1. CASE anew
      <3>1. e.type = "REATTESTATION" /\ e.key = ring.active /\ e.at = venueClock
        BY <1>3 DEF Ring!Entry
      <3>2. ledger' = Append(ledger, e)
        BY <1>5, <2>1
      <3> QED  BY <1>1, <1>6, <3>1, <3>2, PlainEntry DEF KeysInv
    <2>2. CASE ~anew
      <3>1. ledger' = ledger
        BY <1>5, <2>2
      <3>2. LedgerInv' /\ RingInv' /\ TenureInv'
        BY <1>1, <3>1, ChainStays DEF KeysInv, RingTypes, Instants
      <3>3. Ring!Recorded(journal)'
        BY <1>1, <1>6, <3>1 DEF Ring!Recorded, Ring!On
      <3> QED  BY <3>1, <3>2, <3>3 DEF Affirmed, Doubted, Affirms
    <2> QED  BY <2>1, <2>2
  <1>10. RingTypes' /\ OrderInv' /\ KeyJournalInv' /\ RootJournalInv'
    BY <1>1 DEF KeysInv, RingTypes, OrderInv, KeyJournalInv, RootJournalInv, KeyJournal, RootJournal,
                Steps, Applying
  <1>11. StepInv'
    <2>1. Ring!AlreadyInstalled' /\ Ring!Since' # 0 /\ KeyJournal' /\ journal' # Ring!Nothing
      BY <1>1, <1>6 DEF Ring!AlreadyInstalled, Ring!Since, KeyJournal, Ring!Nothing
    <2> QED  BY <1>1, <1>9, <2>1 DEF StepInv, Applying
  <1>12. AffirmedInv'
    BY <1>7, <1>8, <1>9 DEF KeysInv, AffirmedInv
  <1>13. \A rv \in Declared : rv.key < ring.active /\ rv.key \in Nat
    BY DEF Declared, KeysInv, RingInv, RingTypes, Revocations
  <1>14. AttestedInv'
    <2>1. Attesting(venueMem, Reattested) /\ Attesting(store, Persisted)
      BY DEF KeysInv, AttestedInv
    <2>2. Attesting(store, Persisted)'
      BY <1>1, <1>7, <1>8, <2>1 DEF Attesting
    <2>3. Attesting(venueMem, Reattested)'
      <3>1. CASE anew
        <4>1. /\ ring.active \in Nat /\ ring.active >= 1 /\ venueClock \in Nat
              /\ \A c \in ring.certs : c.from <= venueClock
          BY DEF KeysInv, RingTypes, Instants
        <4>2. a \in Marks /\ a.key = ring.active /\ a.at = venueClock
          BY <1>2, <4>1 DEF Marks
        <4>3. venueMem \in [attested : SUBSET Marks, owed : SUBSET Owed]
          BY <2>1 DEF Attesting
        <4>4. "COMMITMENT_REATTESTED" \in Owed
          BY DEF Owed
        <4>5. venueMem' \in [attested : SUBSET Marks, owed : SUBSET Owed] /\ venueMem'.attested = {a}
          BY <1>5, <3>1, <4>2, <4>3, <4>4, ZenonT(60)
        <4> QED  BY <1>1, <1>7, <1>13, <4>1, <4>2, <4>5 DEF Attesting
      <3>2. CASE ~anew
        <4>1. venueMem' = venueMem
          BY <1>5, <3>2
        <4>2. ASSUME NEW x \in venueMem.attested, NEW rv \in Declared, x.key = rv.key, x.at >= rv.since
              PROVE  FALSE
          <5>1. Working(rv)
            BY <2>1, <4>2 DEF Attesting, Before
          <5>2. Ring!Suspect(x)
            BY <4>2, <5>1, WorkingSince DEF Ring!Suspect
          <5>3. PICK y \in venueMem.attested : y.key = ring.active
            BY <1>4, <3>2, <5>2
          <5>4. y = x
            BY <2>1, <5>3 DEF Attesting
          <5> QED  BY <1>13, <4>2, <5>3, <5>4
        <4> QED  BY <1>1, <1>7, <2>1, <4>1, <4>2 DEF Attesting
      <3> QED  BY <3>1, <3>2
    <2> QED  BY <2>2, <2>3 DEF AttestedInv
  <1>15. CredentialInv'
    BY <1>1, <1>7, <1>8 DEF KeysInv, CredentialInv
  <1> QED  BY <1>9, <1>10, <1>11, <1>12, <1>14, <1>15 DEF KeysInv

\* What is in doubt lies before the entry of the rotation
LEMMA DoubtedIsSuspect ==
    ASSUME KeysInv, step = "reattested", NEW rv \in Declared, Working(rv),
           NEW i \in DOMAIN ledger, Doubted(rv, i)
    PROVE  i \in Ring!SuspectEntries
  <1>1. KeyJournal /\ ~KeyAhead /\ Ring!Recorded(journal) /\ journal.cert.key = ring.active /\ Top = ring.active
    BY RotationUnderWay DEF KeysInv, StepInv, Applying, KeyJournal, Ring!AlreadyInstalled
  <1>2. PICK P : P = {j \in Ring!On("KEY_ROTATION") : ledger[j].cert.key = journal.cert.key}
    OBVIOUS
  <1>3. PICK n : n = Len(ledger)
    OBVIOUS
  <1>4. n \in Nat /\ DOMAIN ledger = 1 .. n
    BY <1>3 DEF KeysInv, LedgerInv
  <1>5. P \in SUBSET (1 .. n) /\ P # {}
    BY <1>1, <1>2, <1>4 DEF Ring!Recorded, Ring!On, KeyJournal
  <1>6. PICK p \in P : \A q \in P : p <= q
    BY <1>4, <1>5, LeastPlace
  <1>7. /\ Ring!RotationEntry \in Ring!On("KEY_ROTATION")
        /\ ledger[Ring!RotationEntry].cert.key = journal.cert.key
    BY <1>2, <1>6 DEF Ring!RotationEntry
  <1>8. PICK r : r = Ring!RotationEntry
    OBVIOUS
  <1>9. r \in DOMAIN ledger /\ r \in Nat /\ ledger[r].key = ring.active
    <2>1. r \in DOMAIN ledger /\ ledger[r].type \in Certifying
      BY <1>7, <1>8 DEF Ring!On, Certifying
    <2> QED  BY <1>1, <1>4, <1>7, <1>8, <2>1 DEF KeysInv, LedgerInv
  <1>10. ledger[i].key < ring.active /\ ledger[i].type # "KEY_ROTATION" /\ ledger[i].at >= Ring!Since
    BY WorkingSince DEF Doubted, Declared, KeysInv, RingInv
  <1>11. ledger[i].key \in Nat /\ ring.active \in Nat
    BY <1>1 DEF KeysInv, LedgerInv, RingTypes
  <1>12. ~(r <= i)
    <2>1. ASSUME r <= i PROVE ledger[r].key <= ledger[i].key
      BY <1>9, <2>1 DEF KeysInv, LedgerInv
    <2> QED  BY <1>9, <1>10, <1>11, <2>1
  <1>13. i \in 1 .. r - 1
    BY <1>4, <1>9, <1>12
  <1> QED  BY <1>8, <1>10, <1>13 DEF Ring!SuspectEntries

\* suspectSeqs: the new key affirms what the old one has signed
LEMMA Reseals ==
    ASSUME KeysInv, Ring!Reseal
    PROVE  KeysInv'
  <1>1. /\ step = "reattested" /\ step' = "resealed"
        /\ UNCHANGED <<venueClock, ring, nextFile, journal, venueCredential, store>>
        /\ UNCHANGED <<pending, order, venueMem, mode>>
    BY DEF Ring!Reseal, Ring!At
  <1>2. PICK P : P = Ring!SuspectEntries
    OBVIOUS
  <1>3. PICK e : e = [type |-> "RESEAL", key |-> ring.active, at |-> venueClock,
                      from |-> CHOOSE i \in P : \A j \in P : i <= j,
                      to |-> CHOOSE i \in P : \A j \in P : i >= j]
    OBVIOUS
  <1>4. IF P = {} THEN UNCHANGED ledger ELSE ledger' = Append(ledger, e)
    BY <1>2, <1>3 DEF Ring!Reseal
  <1>5. /\ e.type = "RESEAL" /\ e.key = ring.active /\ e.at = venueClock
        /\ e.from = (CHOOSE i \in P : \A j \in P : i <= j)
        /\ e.to = (CHOOSE i \in P : \A j \in P : i >= j)
    BY <1>3
  <1>6. KeyJournal /\ ~RootJournal /\ journal.cert.key = ring.active /\ Ring!Since # 0
        /\ ~KeyAhead /\ ~RootAhead /\ Ring!Recorded(journal) /\ journal.kind = "KEY_ROTATION"
    BY <1>1, RotationUnderWay DEF KeysInv, StepInv, Applying, KeyJournal, Ring!AlreadyInstalled
  <1>7. Declared' = Declared /\ \A rv : Working(rv)' <=> Working(rv)
    BY <1>1 DEF Declared, Working, KeyJournal
  <1>8. \A rv : /\ Before(rv, Reattested)' <=> Before(rv, Reattested)
                /\ Before(rv, Persisted)' <=> Before(rv, Persisted)
                /\ Before(rv, Reissued)' <=> Before(rv, Reissued)
    BY <1>1, <1>7 DEF Before, Reattested, Reissued, Persisted
  <1>9. /\ LedgerInv' /\ RingInv' /\ TenureInv' /\ Ring!Recorded(journal)'
        /\ \A rv \in Declared : Affirmed(rv) => Affirmed(rv)'
    <2>1. CASE P # {}
      <3>1. ledger' = Append(ledger, e)
        BY <1>4, <2>1
      <3> QED  BY <1>1, <1>5, <1>6, <3>1, PlainEntry DEF KeysInv
    <2>2. CASE P = {}
      <3>1. ledger' = ledger
        BY <1>4, <2>2
      <3>2. LedgerInv' /\ RingInv' /\ TenureInv'
        BY <1>1, <3>1, ChainStays DEF KeysInv, RingTypes, Instants
      <3>3. Ring!Recorded(journal)'
        BY <1>1, <1>6, <3>1 DEF Ring!Recorded, Ring!On
      <3> QED  BY <3>1, <3>2, <3>3 DEF Affirmed, Doubted, Affirms
    <2> QED  BY <2>1, <2>2
  <1>10. RingTypes' /\ OrderInv' /\ KeyJournalInv' /\ RootJournalInv'
    BY <1>1 DEF KeysInv, RingTypes, OrderInv, KeyJournalInv, RootJournalInv, KeyJournal, RootJournal,
                Steps, Applying
  <1>11. StepInv'
    <2>1. Ring!AlreadyInstalled' /\ Ring!Since' # 0 /\ KeyJournal' /\ journal' # Ring!Nothing
      BY <1>1, <1>6 DEF Ring!AlreadyInstalled, Ring!Since, KeyJournal, Ring!Nothing
    <2> QED  BY <1>1, <1>9, <2>1 DEF StepInv, Applying
  <1>12. ASSUME NEW rv \in Declared, Working(rv) PROVE Affirmed(rv)'
    <2>1. \A i \in DOMAIN ledger : Doubted(rv, i) => i \in P
      BY <1>1, <1>2, <1>12, DoubtedIsSuspect
    <2>2. rv.key < ring.active /\ rv.key \in Nat
      BY DEF Declared, KeysInv, RingInv, RingTypes, Revocations
    <2>3. CASE P = {}
      BY <1>4, <2>1, <2>3 DEF Affirmed, Doubted
    <2>4. CASE P # {}
      <3>1. PICK n : n = Len(ledger)
        OBVIOUS
      <3>2. /\ n \in Nat /\ DOMAIN ledger = 1 .. n /\ DOMAIN ledger' = DOMAIN ledger \cup {n + 1}
            /\ \A i \in DOMAIN ledger : ledger'[i] = ledger[i]
            /\ ledger'[n + 1] = e
        <4>1. ledger' = Append(ledger, e)
          BY <1>4, <2>4
        <4> QED  BY <3>1, <4>1, LedgerGrows DEF KeysInv
      <3>3. P \in SUBSET (1 .. n)
        <4>1. Ring!SuspectEntries \subseteq 1 .. Ring!RotationEntry - 1
          BY DEF Ring!SuspectEntries
        <4>2. PICK Q : Q = {j \in Ring!On("KEY_ROTATION") : ledger[j].cert.key = journal.cert.key}
          OBVIOUS
        <4>3. Q \in SUBSET (1 .. n) /\ Q # {}
          BY <1>6, <3>2, <4>2 DEF Ring!Recorded, Ring!On
        <4>4. PICK q \in Q : \A x \in Q : q <= x
          BY <3>2, <4>3, LeastPlace
        <4>5. Ring!RotationEntry \in Ring!On("KEY_ROTATION")
          BY <4>2, <4>4 DEF Ring!RotationEntry
        <4>6. PICK r : r = Ring!RotationEntry
          OBVIOUS
        <4>7. r \in 1 .. n
          BY <3>2, <4>5, <4>6 DEF Ring!On
        <4>8. \A x \in 1 .. r - 1 : x \in 1 .. n
          BY <3>2, <4>7
        <4> QED  BY <1>2, <4>1, <4>6, <4>8
      <3>4. e.from \in P /\ \A j \in P : e.from <= j
        <4>1. \E p \in P : \A j \in P : p <= j
          BY <2>4, <3>2, <3>3, LeastPlace
        <4> QED  BY <1>5, <4>1
      <3>5. e.to \in P /\ \A j \in P : j <= e.to
        <4>1. PICK p \in P : \A j \in P : j <= p
          BY <2>4, <3>2, <3>3, GreatestPlace
        <4>2. \A j \in P : p >= j
          BY <3>2, <3>3, <4>1, SMTT(60)
        <4>3. e.to \in P /\ \A j \in P : e.to >= j
          BY <1>5, <4>2
        <4> QED  BY <3>2, <3>3, <4>3
      <3>6. ASSUME NEW i \in DOMAIN ledger', Doubted(rv, i)'
            PROVE  \E s \in DOMAIN ledger' : Affirms(s, rv, i)'
        <4>1. i # n + 1
          BY <1>5, <2>2, <3>2, <3>6 DEF Doubted
        <4>2. i \in P
          BY <2>1, <3>2, <3>6, <4>1 DEF Doubted
        <4>3. i \in e.from .. e.to
          BY <3>2, <3>3, <3>4, <3>5, <4>2
        <4>4. n + 1 \in DOMAIN ledger'
          BY <3>2
        <4> QED  BY <1>5, <2>2, <3>2, <4>3, <4>4 DEF Affirms
      <3> QED  BY <3>6 DEF Affirmed
    <2> QED  BY <2>3, <2>4
  <1>13. AffirmedInv'
    <2>1. \A rv \in Declared : Working(rv) \/ Affirmed(rv)
      BY DEF KeysInv, AffirmedInv, Before
    <2>2. \A rv \in Declared : Affirmed(rv)'
      BY <1>9, <1>12, <2>1, SMTT(60)
    <2> QED  BY <1>7, <2>2, SMTT(60) DEF AffirmedInv
  <1>14. AttestedInv'
    <2>1. Attesting(venueMem, Reattested) /\ Attesting(store, Persisted)
      BY DEF KeysInv, AttestedInv
    <2>2. Attesting(venueMem, Reattested)'
      BY <1>1, <1>7, <1>8, <2>1 DEF Attesting
    <2>3. Attesting(store, Persisted)'
      BY <1>1, <1>7, <1>8, <2>1 DEF Attesting
    <2> QED  BY <2>2, <2>3 DEF AttestedInv
  <1>15. CredentialInv'
    BY <1>1, <1>7, <1>8 DEF KeysInv, CredentialInv
  <1> QED  BY <1>9, <1>10, <1>11, <1>13, <1>14, <1>15 DEF KeysInv


LEMMA Persists ==
    ASSUME KeysInv, Ring!Persist
    PROVE  KeysInv'
  <1>1. /\ step = "resealed" \/ (step = "installed" /\ Ring!Since = 0)
        /\ step' = "persisted" /\ store' = venueMem
        /\ UNCHANGED <<venueClock, ring, nextFile, journal, ledger, venueCredential>>
        /\ UNCHANGED <<pending, order, venueMem, mode>>
    BY DEF Ring!Persist, Ring!At, Ring!None
  <1>2. RingTypes' /\ OrderInv' /\ KeyJournalInv' /\ RootJournalInv'
    BY <1>1 DEF KeysInv, RingTypes, OrderInv, KeyJournalInv, RootJournalInv, KeyJournal, RootJournal,
                Steps, Applying
  <1>3. StepInv'
    BY <1>1 DEF KeysInv, StepInv, Applying, KeyJournal, RootJournal, Ring!Nothing, Ring!Recorded,
                Ring!On, Ring!AlreadyInstalled
  <1>4. LedgerInv' /\ RingInv' /\ TenureInv'
    BY <1>1, ChainStays DEF KeysInv, RingTypes, Instants
  <1>5. \A rv \in Declared : /\ ~Before(rv, Resealed) /\ ~Before(rv, Reattested)
                             /\ ~Before(rv, Reissued)
    <2>1. CASE step = "resealed"
      BY <2>1 DEF Before, Resealed, Reattested, Reissued
    <2>2. CASE Ring!Since = 0
      BY <2>2, WorkingSince DEF Before
    <2> QED  BY <1>1, <2>1, <2>2
  <1>6. Declared' = Declared
    BY <1>1 DEF Declared
  <1>7. AffirmedInv'
    <2>1. \A rv \in Declared : Affirmed(rv)
      BY <1>5 DEF KeysInv, AffirmedInv
    <2> QED  BY <1>1, <1>6, <2>1 DEF AffirmedInv, Affirmed, Doubted, Affirms
  <1>8. AttestedInv'
    <2>1. Attesting(venueMem, Reattested)
      BY DEF KeysInv, AttestedInv
    <2>2. Attesting(venueMem, Reattested)'
      BY <1>1, <1>5, <1>6, <2>1 DEF Attesting
    <2>3. Attesting(store, Persisted)'
      BY <1>1, <1>5, <1>6, <2>1 DEF Attesting
    <2> QED  BY <2>2, <2>3 DEF AttestedInv
  <1>9. CredentialInv'
    BY <1>1, <1>5, <1>6 DEF KeysInv, CredentialInv
  <1> QED  BY <1>2, <1>3, <1>4, <1>7, <1>8, <1>9 DEF KeysInv

LEMMA Finishes ==
    ASSUME KeysInv, Ring!Finish
    PROVE  KeysInv'
  <1>1. /\ step = "persisted" /\ journal' = Ring!Nothing /\ step' = "idle" /\ mode' = "serving"
        /\ order' \in {Ring!Nothing, order}
        /\ UNCHANGED <<venueClock, ring, nextFile, ledger, venueCredential, store>>
        /\ UNCHANGED <<pending, venueMem>>
    BY DEF Ring!Finish, Ring!At
  <1>2. ~KeyAhead /\ ~RootAhead
    BY <1>1, RotationUnderWay DEF Applying
  <1>3. ~KeyJournal' /\ ~RootJournal' /\ ~KeyAhead' /\ ~RootAhead'
    BY <1>1 DEF KeyJournal, RootJournal, KeyAhead, RootAhead, Ring!Nothing
  <1>4. RingTypes' /\ OrderInv'
    BY <1>1 DEF KeysInv, RingTypes, OrderInv, Steps
  <1>5. KeyJournalInv' /\ RootJournalInv' /\ StepInv'
    BY <1>1, <1>3 DEF KeyJournalInv, RootJournalInv, StepInv, Applying
  <1>6. LedgerInv' /\ RingInv' /\ TenureInv'
    BY <1>1, <1>2, <1>3, ChainStays DEF KeysInv, RingTypes, Instants
  <1>7. AffirmedInv' /\ AttestedInv' /\ CredentialInv'
    <2>1. \A rv : /\ ~Before(rv, Resealed) /\ ~Before(rv, Persisted)
                  /\ ~Before(rv, Reattested) /\ ~Before(rv, Reissued)
      BY <1>1 DEF Before, Resealed, Persisted, Reattested, Reissued
    <2> QED  BY <1>1, <2>1, DoubtStays DEF KeysInv, RingTypes, Instants
  <1> QED  BY <1>4, <1>5, <1>6, <1>7 DEF KeysInv

\* recover: the rotation of the active key is recorded, so that none is dropped that
\* has been installed
LEMMA VenueRecovers ==
    ASSUME KeysInv, Ring!Recover
    PROVE  KeysInv'
  <1>1. /\ step = "idle" /\ mode = "recovering"
        /\ UNCHANGED <<venueClock, ring, nextFile, ledger, venueCredential, store>>
        /\ UNCHANGED <<pending, order, venueMem>>
    BY DEF Ring!Recover
  <1>2. RingTypes' /\ OrderInv'
    <2>1. mode' \in {"recovering", "serving"} /\ step' \in {"appended", "idle"}
      BY <1>1 DEF Ring!Recover
    <2> QED  BY <1>1, <2>1 DEF KeysInv, RingTypes, OrderInv, Steps
  <1>3. CASE journal # Ring!Nothing /\ Ring!Recorded(journal)
    <2>1. step' = "appended" /\ UNCHANGED <<journal, mode>>
      BY <1>3 DEF Ring!Recover
    <2>2. KeyJournalInv' /\ RootJournalInv'
      BY <1>1, <2>1 DEF KeysInv, KeyJournalInv, RootJournalInv, KeyJournal, RootJournal
    <2>3. StepInv'
      BY <1>1, <1>3, <2>1 DEF KeysInv, StepInv, Applying, KeyJournal, RootJournal, Ring!Nothing,
                              Ring!Recorded, Ring!On
    <2>4. LedgerInv' /\ RingInv' /\ TenureInv'
      BY <1>1, <2>1, ChainStays DEF KeysInv, RingTypes, Instants
    <2>5. AffirmedInv' /\ AttestedInv' /\ CredentialInv'
      <3>1. \A rv : /\ Before(rv, Resealed) => Before(rv, Resealed)'
                    /\ Before(rv, Persisted) => Before(rv, Persisted)'
                    /\ Before(rv, Reattested) => Before(rv, Reattested)'
                    /\ Before(rv, Reissued) => Before(rv, Reissued)'
        BY <1>1, <2>1 DEF Before, Working, KeyJournal, Resealed, Persisted, Reattested, Reissued
      <3> QED  BY <1>1, <3>1, DoubtStays DEF KeysInv, RingTypes, Instants
    <2> QED  BY <1>2, <2>2, <2>3, <2>4, <2>5 DEF KeysInv
  <1>4. CASE ~(journal # Ring!Nothing /\ Ring!Recorded(journal))
    <2>1. journal' = Ring!Nothing /\ mode' = "serving" /\ step' = "idle"
      BY <1>1, <1>4 DEF Ring!Recover
    <2>2. ~KeyAhead /\ ~RootAhead
      BY <1>4 DEF KeyAhead, RootAhead, Ahead, KeyJournal, RootJournal, Ring!Nothing
    <2>3. ~KeyJournal' /\ ~RootJournal' /\ ~KeyAhead' /\ ~RootAhead'
      BY <2>1 DEF KeyJournal, RootJournal, KeyAhead, RootAhead, Ring!Nothing
    <2>4. KeyJournalInv' /\ RootJournalInv' /\ StepInv'
      BY <2>1, <2>3 DEF KeyJournalInv, RootJournalInv, StepInv, Applying
    <2>5. LedgerInv' /\ RingInv' /\ TenureInv'
      BY <1>1, <2>2, <2>3, ChainStays DEF KeysInv, RingTypes, Instants
    <2>6. ASSUME KeyJournal, journal.cert.key = ring.active PROVE FALSE
      <3>1. ring.active \in Nat /\ ring.active >= 2 /\ Top = ring.active
        BY <2>2, <2>6 DEF KeysInv, KeyJournalInv, OrderInv, RingTypes, Top
      <3>2. PICK i \in DOMAIN ledger : ledger[i].type \in Certifying /\ ledger[i].key = ring.active
        BY <3>1, SMTT(60) DEF KeysInv, LedgerInv
      <3>3. PICK o \in DOMAIN ledger : ledger[o].key = 1
        BY <3>1 DEF KeysInv, LedgerInv
      <3>4. i # 1
        <4>1. o \in Nat /\ 1 <= o
          BY <3>3 DEF KeysInv, LedgerInv
        <4>2. i = 1 => ledger[i].key <= ledger[o].key
          BY <3>2, <3>3, <4>1 DEF KeysInv, LedgerInv
        <4> QED  BY <3>1, <3>2, <3>3, <4>2
      <3>5. ledger[i].type = "KEY_ROTATION" /\ ledger[i].cert.key = journal.cert.key
        BY <2>6, <3>2, <3>4 DEF KeysInv, LedgerInv, Certifying
      <3>6. Ring!Recorded(journal)
        BY <2>6, <3>2, <3>5 DEF Ring!Recorded, Ring!On, KeyJournal
      <3> QED  BY <1>4, <2>6, <3>6 DEF KeyJournal, Ring!Nothing
    <2>7. AffirmedInv' /\ AttestedInv' /\ CredentialInv'
      <3>1. \A rv, S : ~Before(rv, S)
        BY <2>6 DEF Before, Working
      <3> QED  BY <1>1, <3>1, DoubtStays DEF KeysInv, RingTypes, Instants
    <2> QED  BY <1>2, <2>4, <2>5, <2>7 DEF KeysInv
  <1> QED  BY <1>3, <1>4

LEMMA VenueKeysStep ==
    ASSUME KeysInv, [Ring!Next]_venueKeys
    PROVE  KeysInv'
  <1>1. CASE Ring!Next
    <2>1. ASSUME Ring!AppendEntry PROVE KeysInv'
      <3>1. KeyJournal \/ RootJournal
        BY <2>1 DEF Ring!AppendEntry, Ring!At, KeysInv, StepInv
      <3> QED  BY <2>1, <3>1, RecordsKeyRotation, RecordsRootRotation
    <2> QED  BY <1>1, <2>1, VenueTicks, Commits, Issues, Prepares, Certifies, VenueCrashes,
                StartsKeyRotation, StartsRootRotation, SkipsInstall, InstallsRoot, InstallsKey,
                InstallsRing, RemovesNext, ReissuesInDoubt, ReattestsInDoubt, Reseals, Persists,
                Finishes, VenueRecovers DEF Ring!Next
  <1>2. CASE UNCHANGED venueKeys
    <2>1. /\ UNCHANGED <<venueClock, ring, nextFile, journal, ledger, venueCredential, store>>
          /\ UNCHANGED <<pending, order, venueMem, mode, step>>
      BY <1>2 DEF venueKeys
    <2>2. RingTypes' /\ OrderInv' /\ KeyJournalInv' /\ RootJournalInv' /\ StepInv'
      BY <2>1 DEF KeysInv, RingTypes, OrderInv, KeyJournalInv, RootJournalInv, StepInv, KeyJournal,
                  RootJournal, Ring!Recorded, Ring!On, Ring!AlreadyInstalled, Ring!Since, Ring!Nothing
    <2>3. LedgerInv' /\ RingInv' /\ TenureInv'
      BY <2>1, ChainStays DEF KeysInv, RingTypes, Instants
    <2>4. AffirmedInv' /\ AttestedInv' /\ CredentialInv'
      <3>1. \A rv, S : Before(rv, S) => Before(rv, S)'
        BY <2>1 DEF Before, Working, KeyJournal
      <3> QED  BY <2>1, <3>1, DoubtStays DEF KeysInv, RingTypes, Instants
    <2> QED  BY <2>2, <2>3, <2>4 DEF KeysInv
  <1> QED  BY <1>1, <1>2

----------------------------------------------------------------------------
(* What the invariant says of signatures                                   *)

LEMMA SignerIsTrusted == KeysInv => Ring!SignerTrusted
  <1> SUFFICES ASSUME KeysInv, NEW i \in DOMAIN ledger, ledger[i].key = ring.active
               PROVE  Ring!TrustedAt(ring, ring.active, ledger[i].at)
    BY DEF Ring!SignerTrusted
  <1>1. PICK c \in ring.certs : c.key = ring.active /\ Ring!InTime(ring.roots, c)
    BY DEF KeysInv, TenureInv
  <1>2. c.from <= ledger[i].at /\ c.from \in Nat /\ ledger[i].at \in Nat
    <2>1. c.from <= ledger[i].at
      BY <1>1 DEF KeysInv, TenureInv
    <2>2. c \in Certs /\ venueClock \in Nat
      BY DEF KeysInv, RingTypes, Instants
    <2>3. ledger[i].at \in Nat
      BY <2>2 DEF KeysInv, LedgerInv
    <2>4. c.from \in Nat
      BY <2>2 DEF Certs
    <2> QED  BY <2>1, <2>3, <2>4
  <1>3. c \in Ring!Usable(ring, ring.active)
    BY <1>1 DEF Ring!Usable
  <1>4. \A rv \in ring.revs : rv.key # ring.active
    BY DEF KeysInv, RingInv, RingTypes, Revocations
  <1> QED  BY <1>2, <1>3, <1>4 DEF Ring!TrustedAt

\* The ring, rebuilt from the chain
LEMMA ChainShowsRing ==
    ASSUME KeysInv, Ring!Serving
    PROVE  /\ Ring!ChainView.roots = ring.roots /\ Ring!ChainView.revs = ring.revs
           /\ Ring!ChainView.certs \subseteq ring.certs
           /\ \A i \in DOMAIN ledger : ledger[i].type \in Certifying =>
                 ledger[i].cert \in Ring!ChainView.certs
  <1>1. ~KeyAhead /\ ~RootAhead /\ Top = ring.active /\ Roots = Len(ring.roots)
    BY NoneUnderWay
  <1>2. PICK m : m = Len(ring.roots)
    OBVIOUS
  <1>3. ring.roots \in Seq(Nat) /\ m \in Nat /\ m >= 1 /\ ring.roots[1] = 0 /\ DOMAIN ring.roots = 1 .. m
    BY <1>2 DEF KeysInv, RingTypes
  <1>4. PICK D : D = {1} \cup {ledger[i].root : i \in Ring!On("ROOT_ROTATION")}
    OBVIOUS
  <1>5. PICK F : F = [r \in D |->
            IF r = 1 THEN 0
            ELSE ledger[CHOOSE i \in Ring!On("ROOT_ROTATION") : ledger[i].root = r].since]
    OBVIOUS
  <1>6. /\ Ring!ChainView.roots = F
        /\ Ring!ChainView.certs = {ledger[i].cert : i \in Ring!On("GENESIS") \cup Ring!On("KEY_ROTATION")}
        /\ Ring!ChainView.revs = UNION {ledger[i].revs : i \in Ring!On("KEY_ROTATION")}
    BY <1>4, <1>5 DEF Ring!ChainView, Ring!None
  <1>7. \A i \in Ring!On("ROOT_ROTATION") :
           ledger[i].root \in 2 .. m /\ ledger[i].since = ring.roots[ledger[i].root]
    BY <1>1, <1>2 DEF KeysInv, RingInv, Ring!On
  <1>8. \A r \in 2 .. m : \E i \in Ring!On("ROOT_ROTATION") : ledger[i].root = r
    BY <1>1, <1>2 DEF KeysInv, RingInv, Ring!On
  <1>9. D = 1 .. m
    <2>1. \A r \in D : r \in 1 .. m
      BY <1>3, <1>4, <1>7
    <2>2. ASSUME NEW r \in 1 .. m PROVE r \in D
      <3>1. CASE r = 1
        BY <1>4, <3>1
      <3>2. CASE r # 1
        <4>1. r \in 2 .. m
          BY <1>3, <3>2
        <4> QED  BY <1>4, <1>8, <4>1
      <3> QED  BY <3>1, <3>2
    <2> QED  BY <2>1, <2>2
  <1>10. ASSUME NEW r \in 1 .. m PROVE F[r] = ring.roots[r]
    <2>1. CASE r = 1
      BY <1>3, <1>5, <1>9, <2>1
    <2>2. CASE r # 1
      <3>1. PICK i : i = CHOOSE j \in Ring!On("ROOT_ROTATION") : ledger[j].root = r
        OBVIOUS
      <3>2. r \in 2 .. m
        BY <1>3, <2>2
      <3>3. i \in Ring!On("ROOT_ROTATION") /\ ledger[i].root = r
        BY <1>8, <3>1, <3>2
      <3>4. F[r] = ledger[i].since
        BY <1>5, <1>9, <2>2, <3>1
      <3> QED  BY <1>7, <3>3, <3>4
    <2> QED  BY <2>1, <2>2
  <1>11. F = ring.roots
    <2>1. F = [r \in 1 .. m |-> F[r]]
      BY <1>5, <1>9
    <2>2. ring.roots = [r \in 1 .. m |-> ring.roots[r]]
      BY <1>3
    <2> QED  BY <1>10, <2>1, <2>2
  <1>12. Ring!ChainView.revs = ring.revs
    <2>1. \A i \in Ring!On("KEY_ROTATION") : \A rv \in ledger[i].revs : rv \in ring.revs
      BY <1>1 DEF KeysInv, RingInv, Ring!On
    <2>2. \A rv \in ring.revs : \E i \in Ring!On("KEY_ROTATION") : rv \in ledger[i].revs
      BY <1>1 DEF KeysInv, RingInv, Ring!On
    <2>3. \A rv : rv \in Ring!ChainView.revs <=> \E i \in Ring!On("KEY_ROTATION") : rv \in ledger[i].revs
      BY <1>6
    <2> QED  BY <2>1, <2>2, <2>3
  <1>13. /\ Ring!ChainView.certs \subseteq ring.certs
         /\ \A i \in DOMAIN ledger : ledger[i].type \in Certifying => ledger[i].cert \in Ring!ChainView.certs
    <2>1. \A i \in DOMAIN ledger : ledger[i].type \in Certifying => ledger[i].cert \in ring.certs
      BY <1>1 DEF KeysInv, LedgerInv
    <2> QED  BY <1>6, <2>1 DEF Ring!On, Certifying
  <1> QED  BY <1>6, <1>11, <1>12, <1>13

LEMMA RingIsFollowing == KeysInv => Ring!RingFollowsLedger
  <1> SUFFICES ASSUME KeysInv, Ring!Serving PROVE Ring!RingFollowsLedger
    BY DEF Ring!RingFollowsLedger
  <1>1. PICK P : P = Ring!On("GENESIS") \cup Ring!On("KEY_ROTATION")
    OBVIOUS
  <1>2. PICK n : n = Len(ledger)
    OBVIOUS
  <1>3. n \in Nat /\ n >= 1 /\ DOMAIN ledger = 1 .. n
    BY <1>2 DEF KeysInv, LedgerInv
  <1>4. Top = ring.active /\ ~KeyAhead /\ ring.active \in Nat /\ ring.active >= 1
    BY NoneUnderWay DEF KeysInv, RingTypes
  <1>5. P \in SUBSET (1 .. n) /\ P # {}
    <2>1. ledger[1].type = "GENESIS"
      BY <1>3 DEF KeysInv, LedgerInv
    <2> QED  BY <1>1, <1>3, <2>1 DEF Ring!On
  <1>6. PICK p \in P : \A q \in P : q <= p
    BY <1>3, <1>5, GreatestPlace
  <1>7. PICK l : l = CHOOSE i \in P : \A j \in Ring!On("KEY_ROTATION") : j <= i
    OBVIOUS
  <1>8. l \in P /\ \A j \in Ring!On("KEY_ROTATION") : j <= l
    <2>1. \A j \in Ring!On("KEY_ROTATION") : j <= p
      BY <1>1, <1>6
    <2> QED  BY <1>6, <1>7, <2>1
  <1>9. l \in DOMAIN ledger /\ ledger[l].type \in Certifying /\ ledger[l].cert.key = ledger[l].key
        /\ ledger[l].key \in 1 .. ring.active
    BY <1>1, <1>4, <1>8 DEF KeysInv, LedgerInv, Ring!On, Certifying
  <1>10. ledger[l].key = ring.active
    <2>1. PICK i \in DOMAIN ledger : ledger[i].type \in Certifying /\ ledger[i].key = ring.active
      BY <1>4, SMTT(60) DEF KeysInv, LedgerInv
    <2>2. i <= l
      <3>1. CASE ledger[i].type = "KEY_ROTATION"
        BY <1>8, <2>1, <3>1 DEF Ring!On
      <3>2. CASE ledger[i].type = "GENESIS"
        <4>1. i = 1
          BY <2>1, <3>2 DEF KeysInv, LedgerInv
        <4> QED  BY <1>3, <1>9, <4>1
      <3> QED  BY <2>1, <3>1, <3>2 DEF Certifying
    <2>3. ledger[i].key <= ledger[l].key
      BY <1>9, <2>1, <2>2 DEF KeysInv, LedgerInv
    <2> QED  BY <1>4, <1>9, <2>1, <2>3
  <1>11. ring.active = ledger[l].cert.key
    BY <1>9, <1>10
  <1> QED  BY <1>1, <1>7, <1>11, ChainShowsRing DEF Ring!RingFollowsLedger

LEMMA ChainIsVerified == KeysInv => Ring!ChainVerifies
  <1> SUFFICES ASSUME KeysInv, Ring!Serving, ~Ring!Backdated, ~Ring!Repeated
               PROVE  Ring!VerifyChain(Ring!ChainView)
    BY DEF Ring!ChainVerifies
  <1>1. PICK v : v = Ring!ChainView
    OBVIOUS
  <1>2. /\ v.roots = ring.roots /\ v.revs = ring.revs /\ v.certs \subseteq ring.certs
        /\ \A i \in DOMAIN ledger : ledger[i].type \in Certifying => ledger[i].cert \in v.certs
    BY <1>1, ChainShowsRing
  <1>3. \A x \in ring.certs \cup ring.revs : Ring!InTime(ring.roots, x)
    BY DEF Ring!Backdated
  <1>4. Top = ring.active /\ \A rv, S : ~Before(rv, S)
    BY NoneUnderWay
  <1>5. ASSUME NEW i \in DOMAIN ledger
        PROVE  \E c \in Ring!Usable(v, ledger[i].key) : ledger[i].at >= c.from
    <2>1. ledger[i].key \in 1 .. ring.active /\ ledger[i].at \in Nat
      BY <1>4 DEF KeysInv, LedgerInv, RingTypes, Instants
    <2>2. PICK j \in DOMAIN ledger : ledger[j].type \in Certifying /\ ledger[j].key = ledger[i].key
      BY <1>4, <2>1 DEF KeysInv, LedgerInv
    <2>3. PICK c : c = ledger[j].cert
      OBVIOUS
    <2>4. c \in v.certs /\ c \in ring.certs /\ c.key = ledger[i].key
      BY <1>2, <2>2, <2>3 DEF KeysInv, LedgerInv
    <2>5. Ring!InTime(v.roots, c)
      BY <1>2, <1>3, <2>4
    <2>6. c.from <= ledger[i].at /\ c.from \in Nat
      BY <2>4 DEF KeysInv, TenureInv, RingTypes, Certs
    <2> QED  BY <2>1, <2>4, <2>5, <2>6 DEF Ring!Usable
  <1>6. ASSUME NEW i \in DOMAIN ledger, ledger[i].type # "KEY_ROTATION",
               ~Ring!TrustedAt(v, ledger[i].key, ledger[i].at)
        PROVE  i \in Ring!Resealed(v)
    <2>1. PICK rv \in ring.revs : rv.key = ledger[i].key /\ rv.since # 0 /\ ledger[i].at >= rv.since
      BY <1>2, <1>5, <1>6 DEF Ring!TrustedAt, Ring!None
    <2>2. rv \in Declared /\ Doubted(rv, i)
      BY <1>6, <2>1 DEF Declared, Doubted
    <2>3. PICK s \in DOMAIN ledger : Affirms(s, rv, i)
      BY <1>4, <2>2 DEF KeysInv, AffirmedInv, Affirmed
    <2>4. ledger[s].type = "RESEAL" /\ ledger[s].key > rv.key /\ i \in ledger[s].from .. ledger[s].to
          /\ ledger[s].key \in Nat /\ rv.key \in Nat
      BY <2>3 DEF Affirms, KeysInv, LedgerInv, RingTypes, Revocations
    <2>5. \A rw \in ring.revs : rw.key = ledger[s].key => rw.since = 0
      BY <2>1, <2>4 DEF Ring!Repeated, Ring!None
    <2>6. Ring!TrustedAt(v, ledger[s].key, ledger[s].at)
      BY <1>2, <1>5, <2>5 DEF Ring!TrustedAt, Ring!None
    <2>7. s \in {j \in Ring!On("RESEAL") : Ring!TrustedAt(v, ledger[j].key, ledger[j].at)}
      BY <2>4, <2>6 DEF Ring!On
    <2> QED  BY <2>4, <2>7 DEF Ring!Resealed
  <1>7. \A rv \in v.revs : Ring!InTime(v.roots, rv)
    BY <1>2, <1>3
  <1> QED  BY <1>1, <1>5, <1>6, <1>7 DEF Ring!VerifyChain

LEMMA ReliedOnIsTrusted == KeysInv => Ring!StillTrusted
  <1> SUFFICES ASSUME KeysInv, Ring!Serving, ~Ring!Backdated PROVE Ring!StillTrusted
    BY DEF Ring!StillTrusted
  <1>1. \A x \in ring.certs \cup ring.revs : Ring!InTime(ring.roots, x)
    BY DEF Ring!Backdated
  <1>2. \A rv, S : ~Before(rv, S)
    BY NoneUnderWay
  <1>3. ASSUME NEW k \in 1 .. ring.active, NEW at \in Nat,
               \A c \in ring.certs : c.key = k => c.from <= at,
               \A rv \in Declared : ~(rv.key = k /\ at >= rv.since)
        PROVE  Ring!TrustedAt(ring, k, at)
    <2>1. PICK c \in ring.certs : c.key = k
      BY DEF KeysInv, RingTypes
    <2>2. c \in Ring!Usable(ring, k) /\ at >= c.from
      BY <1>1, <1>3, <2>1 DEF Ring!Usable, KeysInv, RingTypes, Certs
    <2> QED  BY <1>3, <2>2 DEF Ring!TrustedAt, Declared, Ring!None
  <1>4. ASSUME venueMem.attested # {}
        PROVE  \E a \in venueMem.attested : Ring!TrustedAt(ring, a.key, a.at)
    <2>1. Attesting(venueMem, Reattested)
      BY DEF KeysInv, AttestedInv
    <2>2. PICK a \in venueMem.attested : TRUE
      BY <1>4
    <2>3. /\ a.key \in 1 .. ring.active /\ a.at \in Nat
          /\ \A c \in ring.certs : c.key = a.key => c.from <= a.at
          /\ \A rv \in Declared : ~(rv.key = a.key /\ a.at >= rv.since)
      BY <1>2, <2>1, <2>2 DEF Attesting, Marks
    <2> QED  BY <1>3, <2>2, <2>3
  <1>5. ASSUME venueCredential.key # 0, ~Ring!Repeated
        PROVE  Ring!TrustedAt(ring, venueCredential.key, venueCredential.signed)
    <2>1. /\ venueCredential.key \in 1 .. ring.active /\ venueCredential.signed \in Nat
          /\ \A c \in ring.certs : c.key = venueCredential.key => c.from <= venueCredential.signed
      BY <1>5 DEF KeysInv, CredentialInv, RingTypes
    <2>2. ASSUME NEW rv \in Declared, rv.key = venueCredential.key, venueCredential.signed >= rv.since
          PROVE  FALSE
      <3>1. CASE venueCredential.signed = venueCredential.issued
        BY <1>2, <1>5, <2>2, <3>1 DEF KeysInv, CredentialInv
      <3>2. CASE venueCredential.signed # venueCredential.issued
        <4>1. PICK rw \in Declared : rw.key # venueCredential.key
          BY <1>5, <3>2 DEF KeysInv, CredentialInv
        <4> QED  BY <1>5, <2>2, <4>1 DEF Ring!Repeated, Ring!None, Declared
      <3> QED  BY <3>1, <3>2
    <2> QED  BY <1>3, <2>1, <2>2
  <1> QED  BY <1>4, <1>5 DEF Ring!StillTrusted, Ring!None

\* What the venue signs with is certified by its root, what it has signed stays trusted,
\* its chain verifies with the ring it shows, and the ring follows the ledger, whatever
\* is rotated, declared compromised, cut short by a crash and taken up again
\* (applyKeyRotation, install, installRoot, suspectSeqs, reattestArtifact, recover)
THEOREM SignaturesAlwaysTrusted == MCSpec => []SignaturesTrusted
  <1>1. MCInit => KeysInv
    BY VenueKeysStart DEF MCInit
  <1>2. KeysInv /\ [MCNext]_<<part, vars, deal, pin, own, venueKeys>> => KeysInv'
    <2>1. [MCNext]_<<part, vars, deal, pin, own, venueKeys>> => [Ring!Next]_venueKeys
      BY DEF MCNext
    <2> QED  BY <2>1, VenueKeysStep
  <1>3. KeysInv => SignaturesTrusted
    BY SignerIsTrusted, ReliedOnIsTrusted, ChainIsVerified, RingIsFollowing DEF SignaturesTrusted
  <1> QED  BY <1>1, <1>2, <1>3, PTL DEF MCSpec

=============================================================================
