-------------------------- MODULE MCIdentity_proofs --------------------------
(***************************************************************************)
(* Theorems about the parts of MCIdentity, each of which moves while the   *)
(* others stand still: the venue's database, its watchlist, its process,   *)
(* its vetting provider, the messages it takes in, the directory of filers *)
(* and the company's keys and credentials.  A part has its inductive       *)
(* invariant; the last section puts the parts together.                    *)
(***************************************************************************)
EXTENDS MCIdentity, FiniteSetTheorems, SequenceTheorems, WellFoundedInduction, TLAPS
----------------------------------------------------------------------------
(* The store                                                               *)

StoreTypes ==
    /\ rows \in [Rows -> Nat] /\ written \in [Rows -> Nat] /\ disk \in [Rows -> Nat]
    /\ last \in [Rows -> Nat]
    /\ legacy \in {Store!NoFile} \cup [Rows -> Nat]
    /\ writing \in [todo : SUBSET Rows, rows : [Rows -> Nat], open : BOOLEAN]
    /\ phase \in {"down", "loaded", "up"} /\ failed \in BOOLEAN

\* What the process remembers to have written is on disk, and while a transaction is
\* under way on disk or in it, as long as no write has failed.  snapshot.json is there
\* only until the database has its rows, and the heartbeat with them
StoreInv ==
    /\ StoreTypes
    /\ legacy # Store!NoFile =>
        /\ disk = Store!NoRows \/ disk[Alive] # 0
        /\ phase = "up" => disk[Alive] # 0
    /\ writing.open =>
        /\ phase # "down" /\ rows[Alive] # 0
        /\ disk[Alive] # 0 => writing.rows[Alive] # 0
    /\ phase = "loaded" => ~failed
    /\ ~failed =>
        /\ Store!Restored = last
        /\ ~writing.open /\ phase # "down" => written = disk
        /\ writing.open => \A r \in Rows :
              IF r \in writing.todo THEN writing.rows[r] = disk[r] /\ written[r] = disk[r]
              ELSE writing.rows[r] = rows[r] /\ written[r] = rows[r]

LEMMA StoreStarts == Store!StoreInit => StoreInv
  <1> SUFFICES ASSUME Store!StoreInit PROVE StoreInv
    OBVIOUS
  <1> USE RowsAssumption DEF Store!StoreInit, Store!NoRows, Store!NotWriting
  <1>1. StoreTypes
    <2>1. Store!NoRows \in [Rows -> Nat] /\ [r \in Rows |-> 1] \in [Rows -> Nat]
      OBVIOUS
    <2>2. writing \in [todo : SUBSET Rows, rows : [Rows -> Nat], open : BOOLEAN]
      BY <2>1
    <2> QED  BY <2>1, <2>2 DEF StoreTypes
  <1>2. Store!Restored = last
    <2>1. legacy # Store!NoFile => Store!WithLegacy
      BY DEF Store!WithLegacy
    <2>2. legacy = Store!NoFile => ~Store!WithLegacy
      BY DEF Store!WithLegacy
    <2> QED  BY <2>1, <2>2 DEF Store!Restored
  <1> QED  BY <1>1, <1>2 DEF StoreInv

LEMMA StoreStep ==
    ASSUME StoreInv, [Store!StoreNext]_(Store!storeVars)
    PROVE  StoreInv'
  <1> USE RowsAssumption
  <1> StoreTypes
    BY DEF StoreInv
  <1>1. CASE Store!Work
    <2>1. PICK r \in Rows \ {Alive}, v \in 0 .. MaxVersions : rows' = [rows EXCEPT ![r] = v]
      BY <1>1 DEF Store!Work
    <2>2. rows' \in [Rows -> Nat] /\ rows'[Alive] = rows[Alive]
      BY <2>1 DEF StoreTypes
    <2>3. UNCHANGED <<written, disk, legacy, phase, writing, last, failed>> /\ ~writing.open
      BY <1>1 DEF Store!Work
    <2> QED
      BY <2>2, <2>3 DEF StoreInv, StoreTypes, Store!Restored, Store!WithLegacy
  <1>2. CASE Store!Persist
    <2>1. /\ rows' \in [Rows -> Nat] /\ rows'[Alive] # 0
      BY <1>2 DEF Store!Persist, StoreTypes
    <2>2. /\ UNCHANGED <<written, disk, legacy, phase, last, failed>>
          /\ phase # "down" /\ ~writing.open
          /\ writing' = [todo |-> Rows, rows |-> disk, open |-> TRUE]
      BY <1>2 DEF Store!Persist
    <2>3. StoreTypes'
      BY <2>1, <2>2 DEF StoreTypes
    <2> QED
      BY <2>1, <2>2, <2>3 DEF StoreInv, Store!Restored, Store!WithLegacy
  <1>3. CASE Store!WriteRow
    <2>1. PICK r \in writing.todo :
            /\ writing' = [writing EXCEPT !.todo = @ \ {r},
                              !.rows[r] = IF written[r] = rows[r] THEN @ ELSE rows[r]]
            /\ written' = [written EXCEPT ![r] = rows[r]]
      BY <1>3 DEF Store!WriteRow
    <2>2. UNCHANGED <<rows, disk, legacy, phase, last, failed>> /\ writing.open
      BY <1>3 DEF Store!WriteRow
    <2>3. /\ r \in Rows
          /\ writing'.todo = writing.todo \ {r} /\ writing'.open
          /\ writing'.rows = [writing.rows EXCEPT ![r] = IF written[r] = rows[r] THEN @ ELSE rows[r]]
          /\ writing' \in [todo : SUBSET Rows, rows : [Rows -> Nat], open : BOOLEAN]
      BY <2>1, <2>2 DEF StoreTypes
    <2>4. StoreTypes'
      BY <2>1, <2>2, <2>3 DEF StoreTypes
    <2>5. ASSUME ~failed, NEW q \in Rows
          PROVE  IF q \in writing'.todo THEN writing'.rows[q] = disk[q] /\ written'[q] = disk[q]
                 ELSE writing'.rows[q] = rows[q] /\ written'[q] = rows[q]
      <3>1. CASE q = r
        BY <2>1, <2>2, <2>3, <2>5, <3>1 DEF StoreInv, StoreTypes
      <3>2. CASE q # r
        BY <2>1, <2>2, <2>3, <2>5, <3>2 DEF StoreInv, StoreTypes
      <3> QED  BY <3>1, <3>2
    <2> QED
      BY <2>2, <2>3, <2>4, <2>5 DEF StoreInv, Store!Restored, Store!WithLegacy
  <1>4. CASE Store!Commit
    <2>1. /\ writing.open /\ writing.todo = {} /\ disk' = writing.rows /\ last' = rows
          /\ writing' = Store!NotWriting
          /\ UNCHANGED <<rows, written, legacy, phase, failed>>
      BY <1>4 DEF Store!Commit
    <2>2. StoreTypes'
      BY <2>1 DEF StoreTypes, Store!NotWriting, Store!NoRows
    <2>3. ~failed => disk' = rows /\ written = rows
      BY <2>1 DEF StoreInv, StoreTypes
    <2>4. ~failed => disk'[Alive] # 0
      BY <2>1, <2>3 DEF StoreInv
    <2>5. legacy # Store!NoFile => disk'[Alive] # 0
      BY <2>1, <2>4 DEF StoreInv, StoreTypes
    <2>6. ~failed => Store!Restored' = last'
      BY <2>1, <2>3, <2>4 DEF Store!Restored, Store!WithLegacy
    <2>7. ~writing'.open
      BY <2>1 DEF Store!NotWriting
    <2> QED
      BY <2>1, <2>2, <2>3, <2>5, <2>6, <2>7 DEF StoreInv
  <1>5. CASE Store!Rollback
    <2>1. /\ failed' = TRUE /\ UNCHANGED <<rows, written, disk, legacy, last>>
          /\ writing' = Store!NotWriting
          /\ phase' = IF phase = "loaded" THEN "down" ELSE phase
      BY <1>5 DEF Store!Rollback
    <2> QED
      BY <2>1 DEF StoreInv, StoreTypes, Store!NotWriting, Store!NoRows
  <1>6. CASE Store!Crash
    <2>1. /\ phase' = "down" /\ UNCHANGED <<rows, written, disk, legacy, last, failed>>
          /\ writing' = Store!NotWriting
      BY <1>6 DEF Store!Crash
    <2> QED
      BY <2>1 DEF StoreInv, StoreTypes, Store!NotWriting, Store!NoRows, Store!Restored, Store!WithLegacy
  <1>7. CASE Store!Start
    <2>0. ~writing.open
      BY <1>7 DEF Store!Start, StoreInv
    <2>1. /\ phase = "down" /\ failed' = FALSE /\ last' = (IF failed THEN rows' ELSE last)
          /\ UNCHANGED <<disk, legacy, writing>>
          /\ IF Store!WithLegacy
             THEN rows' = legacy /\ written' = Store!NoRows /\ phase' = "loaded"
             ELSE rows' = disk /\ written' = disk /\ phase' = "up"
      BY <1>7 DEF Store!Start, Store!Loaded
    <2>2. StoreTypes'
      <3>1. Store!NoRows \in [Rows -> Nat] /\ failed' \in BOOLEAN
        BY <2>1 DEF Store!NoRows
      <3>2. CASE Store!WithLegacy
        BY <2>1, <3>1, <3>2 DEF StoreTypes, Store!WithLegacy
      <3>3. CASE ~Store!WithLegacy
        BY <2>1, <3>1, <3>3 DEF StoreTypes
      <3> QED  BY <3>2, <3>3
    <2>3. rows' = Store!Restored /\ Store!Restored' = Store!Restored
      BY <2>1 DEF Store!Restored, Store!WithLegacy
    <2>4. Store!WithLegacy => disk = Store!NoRows
      BY DEF StoreInv, Store!WithLegacy
    <2>5. phase' = "up" /\ legacy # Store!NoFile => disk[Alive] # 0
      BY <2>1 DEF Store!WithLegacy
    <2> QED
      BY <2>0, <2>1, <2>2, <2>3, <2>4, <2>5 DEF StoreInv
  <1>8. CASE Store!Unlink
    <2>1. /\ phase = "loaded" /\ disk[Alive] # 0 /\ phase' = "up" /\ legacy' = Store!NoFile
          /\ UNCHANGED <<rows, written, disk, writing, last, failed>>
      BY <1>8 DEF Store!Unlink
    <2> QED
      BY <2>1 DEF StoreInv, StoreTypes, Store!Restored, Store!WithLegacy
  <1>9. CASE UNCHANGED Store!storeVars
    BY <1>9 DEF StoreInv, StoreTypes, Store!storeVars, Store!Restored, Store!WithLegacy
  <1> QED  BY <1>1, <1>2, <1>3, <1>4, <1>5, <1>6, <1>7, <1>8, <1>9 DEF Store!StoreNext

LEMMA StoreKept == StoreInv => Store!RestoredAsPersisted
  BY DEF StoreInv, Store!RestoredAsPersisted

----------------------------------------------------------------------------
(* The watchlist                                                           *)

Later == \A a, b \in Nat : a <= b => News!Day(a) <= News!Day(b)

\* A later hour is of no earlier day
LEMMA DaysPass == Later
  <1> SUFFICES ASSUME NEW a \in Nat, NEW b \in Nat, a <= b PROVE News!Day(a) <= News!Day(b)
    BY DEF Later
  <1> DEFINE p == a \div HoursADay
             q == b \div HoursADay
  <1>1. /\ HoursADay \in Nat /\ HoursADay >= 1
        /\ p \in Int /\ HoursADay * p <= a /\ a < HoursADay * p + HoursADay
        /\ q \in Int /\ HoursADay * q <= b /\ b < HoursADay * q + HoursADay
    BY HoursAssumption, SMTT(30)
  <1> HIDE DEF p, q
  <1>2. CASE q < p
    <2>1. q + 1 <= p
      BY <1>1, <1>2
    <2>2. HoursADay * (q + 1) <= HoursADay * p
      BY <1>1, <2>1, SMTT(30)
    <2>3. HoursADay * (q + 1) = HoursADay * q + HoursADay
      BY <1>1
    <2> QED  BY <1>1, <2>2, <2>3
  <1> QED  BY <1>1, <1>2 DEF p, q, News!Day

\* What changes of a company that is watched changes on no earlier day than the next
\* sweep asks from, or the sweep under way has been told of it
NewsInv ==
    /\ hour \in Nat /\ hour # 0 /\ since \in 0 .. hour /\ watched \in BOOLEAN
    /\ \A n \in news : n.at \in 0 .. hour /\ n.followed \in BOOLEAN
    /\ sweep.stage \in {"none", "watch", "changes", "told"}
    /\ sweep.stage # "none" => sweep.began \in 1 .. hour
    /\ \A n \in news : n.followed =>
          /\ watched /\ since # 0 /\ News!Day(n.at) >= News!Day(since)
          /\ sweep.stage = "told" /\ n \notin sweep.told =>
                News!Day(n.at) >= News!Day(sweep.began)

LEMMA NewsStarts == News!WatchlistInit => NewsInv
  <1> SUFFICES ASSUME News!WatchlistInit PROVE NewsInv
    OBVIOUS
  <1>1. hour \in Nat /\ hour # 0 /\ news = {} /\ since = 0 /\ watched = FALSE
    BY HoursAssumption DEF News!WatchlistInit
  <1>2. sweep.stage = "none"
    BY DEF News!WatchlistInit, News!NoSweep
  <1>3. hour \in Nat /\ hour # 0 /\ since \in 0 .. hour
    BY <1>1
  <1>4. news = {} /\ watched \in BOOLEAN
    BY <1>1, Zenon
  <1> QED  BY <1>2, <1>3, <1>4 DEF NewsInv

LEMMA NewsStep ==
    ASSUME NewsInv, [News!WatchlistNext]_newsVars
    PROVE  NewsInv'
  <1> USE DEF NewsInv
  <1>1. CASE News!Tick
    BY <1>1 DEF News!Tick
  <1>2. CASE News!Deals
    BY <1>2 DEF News!Deals
  <1>3. CASE News!Changes
    <2> DEFINE n == [at |-> hour, followed |-> watched /\ since # 0]
    <2>1. /\ news' = news \cup {n}
          /\ UNCHANGED <<hour, live, watched, since, sweep>>
      BY <1>3 DEF News!Changes
    <2>2. /\ n.at = hour /\ n.followed = (watched /\ since # 0) /\ n.followed \in BOOLEAN
      OBVIOUS
    <2> HIDE DEF n
    <2>3. since # 0 => News!Day(hour) >= News!Day(since)
      <3>1. since \in Nat /\ hour \in Nat /\ since <= hour
        OBVIOUS
      <3> HIDE DEF NewsInv
      <3> QED  BY <3>1, DaysPass DEF Later
    <2>4. sweep.stage = "told" => News!Day(hour) >= News!Day(sweep.began)
      <3> SUFFICES ASSUME sweep.stage = "told" PROVE News!Day(hour) >= News!Day(sweep.began)
        OBVIOUS
      <3>1. sweep.began \in Nat /\ hour \in Nat /\ sweep.began <= hour
        OBVIOUS
      <3> HIDE DEF NewsInv
      <3> QED  BY <3>1, DaysPass DEF Later
    <2>5. ASSUME NEW m \in news', m.followed
          PROVE  /\ watched /\ since # 0 /\ News!Day(m.at) >= News!Day(since)
                 /\ sweep.stage = "told" /\ m \notin sweep.told =>
                       News!Day(m.at) >= News!Day(sweep.began)
      <3>1. CASE m = n
        <4>1. m.at = hour /\ watched /\ since # 0
          BY <2>2, <2>5, <3>1
        <4> QED  BY <2>3, <2>4, <4>1
      <3>2. CASE m # n
        BY <2>1, <2>5, <3>2
      <3> QED  BY <3>1, <3>2
    <2>6. n.at \in 0 .. hour
      BY <2>2
    <2>7. ASSUME NEW m \in news' PROVE m.at \in 0 .. hour
      <3>1. CASE m = n
        BY <2>6, <3>1
      <3>2. CASE m # n
        BY <2>1, <2>7, <3>2
      <3> QED  BY <3>1, <3>2
    <2>8. ASSUME NEW m \in news' PROVE m.followed \in BOOLEAN
      BY <2>1, <2>2, <2>8, Zenon
    <2> QED  BY <2>1, <2>5, <2>7, <2>8
  <1>4. CASE News!Begin
    BY <1>4 DEF News!Begin
  <1>5. CASE News!Watch
    <2>1. /\ sweep.stage = "watch" /\ sweep' = [sweep EXCEPT !.stage = "changes"]
          /\ watched' \in BOOLEAN /\ (watched => watched')
          /\ UNCHANGED <<hour, live, news, since, happened>>
      BY <1>5 DEF News!Watch
    <2> QED  BY <2>1
  <1>6. CASE News!Look
    <2>1. /\ sweep.stage = "changes"
          /\ sweep' = [sweep EXCEPT !.stage = "told",
                          !.told = {n \in news : watched /\ News!Day(n.at) >= News!Day(News!From)}]
          /\ UNCHANGED <<hour, live, watched, news, since, happened>>
      BY <1>6 DEF News!Look
    <2>2. sweep'.stage = "told" /\ sweep'.began = sweep.began
      BY <2>1
    <2>3. ASSUME NEW n \in news, n.followed, n \notin sweep'.told PROVE FALSE
      BY <2>1, <2>3 DEF News!From
    <2> QED  BY <2>1, <2>2, <2>3
  <1>7. CASE News!Told
    BY <1>7 DEF News!Told, News!AskedFrom, News!NoSweep
  <1>8. CASE News!Fails
    BY <1>8 DEF News!Fails, News!NoSweep
  <1>9. CASE UNCHANGED newsVars
    BY <1>9 DEF newsVars
  <1> QED  BY <1>1, <1>2, <1>3, <1>4, <1>5, <1>6, <1>7, <1>8, <1>9 DEF News!WatchlistNext

LEMMA NewsKept == NewsInv => News!NoNewsLost
  <1> SUFFICES ASSUME NewsInv, NEW n \in news, n.followed, since # 0,
                      News!Day(n.at) < News!Day(since)
               PROVE  FALSE
    BY DEF News!NoNewsLost, News!NotAskedFor
  <1>1. News!Day(n.at) >= News!Day(since)
    BY DEF NewsInv
  <1>2. News!Day(n.at) \in Int /\ News!Day(since) \in Int
    BY HoursAssumption DEF NewsInv, News!Day
  <1> QED  BY <1>1, <1>2

----------------------------------------------------------------------------
(* The venue's process                                                     *)

\* A run under way is marked, once.  A bucket holds no more than it can; what a caller
\* that is watched was admitted, and the tokens it has left, are no more than a full
\* bucket and the refill since
ServerInv ==
    /\ tick \in Nat
    /\ running \in [Jobs -> BOOLEAN] /\ runs \in [Jobs -> Nat]
    /\ \A j \in Jobs : runs[j] = IF running[j] THEN 1 ELSE 0
    /\ bucket \in [Callers -> {Process!NoBucket} \cup [at : 0 .. tick, tokens : 0 .. Capacity]]
    /\ \/ window = Process!NoWindow
       \/ /\ window \in [caller : Callers, from : 0 .. tick, admitted : Nat]
          /\ window.admitted + Process!Tokens(window.caller) <= Capacity + (tick - window.from)

LEMMA ServerStarts == Process!ServerInit => ServerInv
  BY RateAssumption
     DEF Process!ServerInit, ServerInv, Process!Fresh, Process!NoBucket, Process!NoWindow

\* A bucket has between none and all of its tokens, and what is forgotten is a full one
LEMMA TokensHeld ==
    ASSUME ServerInv, NEW c \in Callers
    PROVE  /\ Process!Tokens(c) \in 0 .. Capacity
           /\ bucket[c] # Process!NoBucket =>
                /\ bucket[c].at \in 0 .. tick /\ bucket[c].tokens \in 0 .. Capacity
                /\ Process!Stale(bucket[c]) => Process!Tokens(c) = Capacity
  <1>1. CASE bucket[c] = Process!NoBucket
    BY <1>1, RateAssumption DEF Process!Tokens
  <1>2. CASE bucket[c] # Process!NoBucket
    <2>1. bucket[c].at \in 0 .. tick /\ bucket[c].tokens \in 0 .. Capacity
      BY <1>2 DEF ServerInv
    <2>2. Process!Tokens(c) = Process!Lesser(Capacity, bucket[c].tokens + (tick - bucket[c].at))
      BY <1>2 DEF Process!Tokens
    <2> QED
      BY <1>2, <2>1, <2>2, RateAssumption DEF Process!Lesser, Process!Stale, ServerInv
  <1> QED  BY <1>1, <1>2

LEMMA ServerStep ==
    ASSUME ServerInv, [Process!ServerNext]_processVars
    PROVE  ServerInv'
  <1> USE RateAssumption
  <1>0. /\ Process!NoWindow.caller = "none" /\ tick \in Nat
        /\ \A t : Process!NoBucket # [at |-> tick, tokens |-> t]
    BY DEF Process!NoWindow, ServerInv, Process!NoBucket
  <1>1. CASE Process!Start \/ Process!Recovered
    <2>1. UNCHANGED <<running, runs, tick, bucket, window>>
      BY <1>1 DEF Process!Start, Process!Recovered
    <2> QED  BY <2>1 DEF ServerInv, Process!Tokens
  <1>2. CASE Process!Stop
    BY <1>2 DEF Process!Stop, ServerInv, Process!Fresh, Process!NoBucket, Process!NoWindow
  <1>3. CASE Process!Tick
    <2>1. tick' = tick + 1 /\ UNCHANGED <<stage, running, runs, bucket, window, ends>>
      BY <1>3 DEF Process!Tick
    <2>2. ASSUME NEW c \in Callers PROVE Process!Tokens(c)' <= Process!Tokens(c) + 1
      BY <1>0, <2>1, TokensHeld DEF Process!Tokens, Process!Lesser
    <2>3. bucket' \in [Callers -> {Process!NoBucket} \cup [at : 0 .. tick', tokens : 0 .. Capacity]]
      BY <2>1 DEF ServerInv
    <2>4. ASSUME NEW c \in Callers PROVE Process!Tokens(c)' \in Int /\ Process!Tokens(c) \in Int
      BY <1>0, <2>1, TokensHeld DEF Process!Tokens, Process!Lesser
    <2> QED  BY <2>1, <2>2, <2>3, <2>4 DEF ServerInv
  <1>4. ASSUME NEW j \in Jobs, Process!Due(j) PROVE ServerInv'
    <2>1. /\ ~running[j] /\ running' = [running EXCEPT ![j] = TRUE]
          /\ runs' = [runs EXCEPT ![j] = @ + 1] /\ UNCHANGED <<tick, bucket, window>>
      BY <1>4 DEF Process!Due, Process!Free
    <2> QED  BY <2>1 DEF ServerInv, Process!Tokens
  <1>5. ASSUME NEW j \in Jobs, NEW ok \in BOOLEAN, Process!End(j, ok) PROVE ServerInv'
    <2>1. /\ runs[j] > 0 /\ running' = [running EXCEPT ![j] = FALSE]
          /\ runs' = [runs EXCEPT ![j] = @ - 1] /\ UNCHANGED <<tick, bucket, window>>
      BY <1>5 DEF Process!End, Process!Ended
    <2> QED  BY <2>1 DEF ServerInv, Process!Tokens
  <1>6. ASSUME NEW c \in Callers, Process!Admit(c) PROVE ServerInv'
    <2> DEFINE taken == [bucket EXCEPT ![c] = [at |-> tick, tokens |-> Process!Tokens(c) - 1]]
    <2>1. /\ Process!Tokens(c) >= 1
          /\ bucket' \in {taken, [d \in Callers |-> IF Process!Stale(taken[d]) THEN Process!NoBucket
                                                    ELSE taken[d]]}
          /\ window' = IF window.caller = c THEN [window EXCEPT !.admitted = @ + 1] ELSE window
          /\ UNCHANGED <<running, runs, tick>>
      BY <1>6 DEF Process!Admit
    <2>2. Process!Tokens(c) \in 1 .. Capacity
      BY <2>1, TokensHeld
    <2>3. /\ taken[c] = [at |-> tick, tokens |-> Process!Tokens(c) - 1]
          /\ taken[c].at = tick /\ taken[c].tokens = Process!Tokens(c) - 1
          /\ taken[c] # Process!NoBucket /\ ~Process!Stale(taken[c])
      <3>1. taken[c] = [at |-> tick, tokens |-> Process!Tokens(c) - 1]
        BY DEF ServerInv
      <3>2. taken[c].at = tick /\ taken[c].tokens = Process!Tokens(c) - 1
        BY <3>1
      <3> HIDE DEF taken
      <3>3. ~Process!Stale(taken[c])
        BY <1>0, <3>2 DEF Process!Stale
      <3> QED  BY <1>0, <3>1, <3>2, <3>3
    <2>4. taken \in [Callers -> {Process!NoBucket} \cup [at : 0 .. tick, tokens : 0 .. Capacity]]
      BY <1>0, <2>2 DEF ServerInv
    <2>5. \A d \in Callers : d # c => taken[d] = bucket[d]
      BY DEF ServerInv
    <2> HIDE DEF taken
    <2>6. bucket' \in [Callers -> {Process!NoBucket} \cup [at : 0 .. tick, tokens : 0 .. Capacity]]
      BY <2>1, <2>4
    <2>7. /\ bucket'[c] = taken[c]
          /\ \A d \in Callers : d # c =>
                bucket'[d] = bucket[d] \/ (Process!Stale(bucket[d]) /\ bucket'[d] = Process!NoBucket)
      BY <2>1, <2>3, <2>4, <2>5
    <2>8. Process!Tokens(c)' = Process!Tokens(c) - 1
      BY <1>0, <2>1, <2>2, <2>3, <2>7 DEF Process!Tokens, Process!Lesser
    <2>9. ASSUME NEW d \in Callers, d # c PROVE Process!Tokens(d)' = Process!Tokens(d)
      <3>1. CASE bucket'[d] = bucket[d]
        BY <2>1, <3>1 DEF Process!Tokens
      <3>2. CASE bucket'[d] # bucket[d]
        <4>1. /\ bucket[d] # Process!NoBucket /\ Process!Stale(bucket[d])
              /\ bucket'[d] = Process!NoBucket
          BY <2>7, <2>9, <3>2 DEF Process!Stale
        <4> QED  BY <2>1, <4>1, TokensHeld DEF Process!Tokens
      <3> QED  BY <3>1, <3>2
    <2>10. CASE window = Process!NoWindow
      <3>1. UNCHANGED window
        BY <1>0, <2>1, <2>10 DEF Process!NoWindow
      <3> QED  BY <2>1, <2>6, <2>10, <3>1 DEF ServerInv
    <2>11. CASE window # Process!NoWindow
      <3>1. /\ window \in [caller : Callers, from : 0 .. tick, admitted : Nat]
            /\ window.admitted + Process!Tokens(window.caller) <= Capacity + (tick - window.from)
        BY <2>11 DEF ServerInv
      <3>2. CASE window.caller = c
        BY <2>1, <2>2, <2>6, <2>8, <3>1, <3>2 DEF ServerInv
      <3>3. CASE window.caller # c
        BY <2>1, <2>6, <2>9, <3>1, <3>3 DEF ServerInv
      <3> QED  BY <3>2, <3>3
    <2> QED  BY <2>10, <2>11
  <1>7. ASSUME NEW c \in Callers, Process!Refuse(c) PROVE ServerInv'
    <2>1. /\ bucket' = [bucket EXCEPT ![c] = [at |-> tick, tokens |-> Process!Tokens(c)]]
          /\ UNCHANGED <<running, runs, tick, window>>
      BY <1>7 DEF Process!Refuse
    <2>2. Process!Tokens(c) \in 0 .. Capacity
      BY TokensHeld
    <2>3. bucket' \in [Callers -> {Process!NoBucket} \cup [at : 0 .. tick, tokens : 0 .. Capacity]]
      BY <1>0, <2>1, <2>2 DEF ServerInv
    <2>4. /\ bucket'[c].at = tick /\ bucket'[c].tokens = Process!Tokens(c)
          /\ bucket'[c] # Process!NoBucket
          /\ \A d \in Callers : d # c => bucket'[d] = bucket[d]
      BY <2>1 DEF ServerInv, Process!NoBucket
    <2>5. ASSUME NEW d \in Callers PROVE Process!Tokens(d)' = Process!Tokens(d)
      <3>1. CASE d = c
        BY <1>0, <2>1, <2>2, <2>4, <3>1 DEF Process!Tokens, Process!Lesser
      <3>2. CASE d # c
        BY <2>1, <2>4, <3>2 DEF Process!Tokens
      <3> QED  BY <3>1, <3>2
    <2> QED  BY <2>1, <2>3, <2>5 DEF ServerInv
  <1>8. ASSUME NEW c \in Callers, Process!Observe(c) PROVE ServerInv'
    <2>1. /\ window' = [caller |-> c, from |-> tick, admitted |-> 0]
          /\ UNCHANGED <<running, runs, tick, bucket>>
      BY <1>8 DEF Process!Observe
    <2>2. Process!Tokens(c)' = Process!Tokens(c) /\ Process!Tokens(c) \in 0 .. Capacity
      BY <2>1, TokensHeld DEF Process!Tokens
    <2> QED  BY <1>0, <2>1, <2>2 DEF ServerInv
  <1>9. CASE UNCHANGED processVars
    BY <1>9 DEF processVars, ServerInv, Process!Tokens
  <1> QED  BY <1>1, <1>2, <1>3, <1>4, <1>5, <1>6, <1>7, <1>8, <1>9 DEF Process!ServerNext

LEMMA ServerKept == ServerInv => Process!AdmittedWithinRate /\ Process!JobsRunAgain
  <1> SUFFICES ASSUME ServerInv PROVE Process!AdmittedWithinRate /\ Process!JobsRunAgain
    OBVIOUS
  <1>1. Process!JobsRunAgain
    BY DEF ServerInv, Process!JobsRunAgain
  <1>2. ASSUME window # Process!NoWindow
        PROVE  window.admitted <= Capacity + (tick - window.from)
    <2>1. /\ window \in [caller : Callers, from : 0 .. tick, admitted : Nat]
          /\ window.admitted + Process!Tokens(window.caller) <= Capacity + (tick - window.from)
          /\ tick \in Nat
      BY <1>2 DEF ServerInv
    <2>2. Process!Tokens(window.caller) \in 0 .. Capacity
      BY <2>1, TokensHeld
    <2> QED  BY <2>1, <2>2, RateAssumption
  <1> QED  BY <1>1, <1>2 DEF Process!AdmittedWithinRate


----------------------------------------------------------------------------
(* The vetting provider                                                    *)

\* A record that the provider held at some time from one on, and that made an answer
Held(rec, from) == \E u \in from .. clock : rec \in past[u]
Given(v, at) == \E rec \in Provider!Record :
    /\ v = Provider!Assessed(rec)
    /\ \E u \in 0 .. at : at <= u + Timeout /\ rec \in past[u]

\* A request that waits has waited no longer than the timeout, and the record read
\* for it was held since it asked; the answer kept was given by one held that short
\* before it came
VettingInv ==
    /\ clock \in 0 .. MaxNow
    /\ past \in [0 .. MaxNow -> SUBSET Provider!Record] /\ record \in past[clock]
    /\ asked \in [Requests -> {Provider!Idle} \cup
                     [kind : Provider!Kinds, at : 0 .. clock, said : SUBSET Provider!Record]]
    /\ \A r \in Requests : asked[r] # Provider!Idle =>
          /\ clock <= asked[r].at + Timeout
          /\ \A rec \in asked[r].said : Held(rec, asked[r].at)
    /\ cache # Provider!NotCached => cache.at \in 0 .. clock /\ Given(cache.answer, cache.at)

LEMMA AssessedRightly ==
    ASSUME RiskScoresSet, NEW rec \in Provider!Record
    PROVE  /\ Provider!Posts(Provider!Assessed(rec)) => ~rec.listed \/ ~rec.shared
           /\ Provider!Issues(Provider!Assessed(rec)) => rec.listed /\ rec.grounds = {}
  <1>1. rec.grounds \subseteq Policy \cup {Provider!Risky}
    BY DEF Provider!Record, Provider!Grounds
  <1>2. CASE ~rec.listed
    BY <1>2 DEF Provider!Assessed, Provider!NotFound, Provider!Issues
  <1>3. CASE rec.listed
    <2>1. Provider!Assessed(rec) =
              [kind |-> "assessed",
               block |-> Provider!BlocksOn(rec) \/ Provider!Risky \in rec.grounds,
               shared |-> IF rec.shared THEN "shared" ELSE "exclusive"]
      BY <1>3 DEF Provider!Assessed
    <2>2. Provider!Posts(Provider!Assessed(rec)) => ~rec.shared
      BY <2>1 DEF Provider!Posts
    <2>3. Provider!Issues(Provider!Assessed(rec)) =>
              ~Provider!BlocksOn(rec) /\ Provider!Risky \notin rec.grounds
      <3> DEFINE blocks == Provider!BlocksOn(rec) \/ Provider!Risky \in rec.grounds
      <3>1. Provider!Assessed(rec).block = blocks
        BY <2>1
      <3>2. Provider!Issues(Provider!Assessed(rec)) => ~blocks
        <4> HIDE DEF blocks
        <4> QED  BY <3>1, Zenon DEF Provider!Issues
      <3> QED  BY <3>2
    <2>4. ~Provider!BlocksOn(rec) /\ Provider!Risky \notin rec.grounds => rec.grounds = {}
      BY <1>1 DEF Provider!BlocksOn
    <2> QED  BY <1>3, <2>2, <2>3, <2>4
  <1> QED  BY <1>2, <1>3

\* What an answer no older than it may be lets through is vetted
LEMMA ActsVetted ==
    ASSUME RiskScoresSet, VettingInv, UNCHANGED past,
           NEW kind \in Provider!Kinds, NEW v, NEW at \in 0 .. clock,
           v = Provider!NoAnswer \/ (Given(v, at) /\ clock <= at + CacheTtl),
           Provider!ActOn(kind, v)
    PROVE  Provider!VettedLately'
  <1> USE VettingAssumption
  <1> SUFFICES ASSUME NEW a \in acted', ~a.unheard
               PROVE  \E rec \in Provider!Lately(a.at)' :
                          IF a.kind = "post" THEN ~rec.listed \/ ~rec.shared
                          ELSE rec.listed /\ rec.grounds = {}
    BY Zenon DEF Provider!VettedLately
  <1>1. /\ (kind = "post" /\ Provider!Posts(v)) \/ (kind = "issue" /\ Provider!Issues(v))
        /\ a = [kind |-> kind, at |-> clock, unheard |-> v = Provider!NoAnswer]
    <2> DEFINE allowed == (kind = "post" /\ Provider!Posts(v)) \/ (kind = "issue" /\ Provider!Issues(v))
               act == [kind |-> kind, at |-> clock, unheard |-> v = Provider!NoAnswer]
    <2>1. acted' = IF allowed THEN {act} ELSE {}
      BY DEF Provider!ActOn
    <2> HIDE DEF allowed, act
    <2>2. allowed /\ a = act
      BY <2>1
    <2> QED  BY <2>2 DEF allowed, act
  <1>2. v # Provider!NoAnswer /\ a.kind = kind /\ a.at = clock
    BY <1>1
  <1>3. PICK rec \in Provider!Record, u \in 0 .. at :
            v = Provider!Assessed(rec) /\ at <= u + Timeout /\ rec \in past[u]
    BY <1>2 DEF Given
  <1>4. rec \in Provider!Lately(a.at)'
    <2>1. u \in 0 .. clock /\ clock <= u + CacheTtl + Timeout
      BY <1>2, <1>3 DEF VettingInv
    <2> QED  BY <1>2, <1>3, <2>1 DEF Provider!Lately
  <1> QED  BY <1>1, <1>2, <1>3, <1>4, AssessedRightly

LEMMA VettingStarts == Provider!VettingInit => VettingInv /\ Provider!VettedLately
  <1> SUFFICES ASSUME Provider!VettingInit PROVE VettingInv /\ Provider!VettedLately
    OBVIOUS
  <1>1. /\ clock = 0 /\ record \in Provider!Record /\ cache = Provider!NotCached /\ acted = {}
        /\ past = [t \in 0 .. MaxNow |-> IF t = 0 THEN {record} ELSE {}]
        /\ asked = [r \in Requests |-> Provider!Idle]
    BY DEF Provider!VettingInit
  <1>2. past \in [0 .. MaxNow -> SUBSET Provider!Record] /\ 0 \in 0 .. MaxNow
    BY <1>1, VettingAssumption
  <1>3. VettingInv
    BY <1>1, <1>2 DEF VettingInv
  <1>4. Provider!VettedLately
    BY <1>1 DEF Provider!VettedLately
  <1> QED  BY <1>3, <1>4

\* What was held is held in the history for good
LEMMA HistoryGrows ==
    ASSUME VettingInv, clock' \in clock .. MaxNow,
           \A u \in 0 .. clock : past[u] \subseteq past'[u]
    PROVE  /\ \A rec : \A from \in 0 .. clock : Held(rec, from) => Held(rec, from)'
           /\ \A v : \A at \in 0 .. clock : Given(v, at) => Given(v, at)'
  <1>1. clock \in Nat /\ clock' \in Nat /\ clock <= clock'
    BY VettingAssumption DEF VettingInv
  <1>2. ASSUME NEW rec, NEW from \in 0 .. clock, Held(rec, from) PROVE Held(rec, from)'
    <2>1. PICK u \in from .. clock : rec \in past[u]
      BY <1>2 DEF Held
    <2> QED  BY <1>1, <2>1 DEF Held
  <1>3. ASSUME NEW v, NEW at \in 0 .. clock, Given(v, at) PROVE Given(v, at)'
    <2>1. PICK rec \in Provider!Record, u \in 0 .. at :
              v = Provider!Assessed(rec) /\ at <= u + Timeout /\ rec \in past[u]
      BY <1>3 DEF Given
    <2>2. rec \in past'[u]
      BY <1>1, <2>1
    <2>3. Provider!Assessed(rec)' = Provider!Assessed(rec) /\ Provider!Record' = Provider!Record
      OBVIOUS
    <2> QED  BY <2>1, <2>2, <2>3 DEF Given
  <1> QED  BY <1>2, <1>3

LEMMA VettingStep ==
    ASSUME RiskScoresSet, VettingInv, Provider!VettedLately,
           [Provider!VettingNext]_providerVars
    PROVE  VettingInv' /\ Provider!VettedLately'
  <1> USE VettingAssumption
  <1>0. clock \in Nat /\ MaxNow \in Nat /\ clock \in 0 .. MaxNow
    BY DEF VettingInv
  <1>1. CASE Provider!Change
    <2>1. /\ record' \in Provider!Record /\ past' = [past EXCEPT ![clock] = @ \cup {record'}]
          /\ acted' = {} /\ UNCHANGED <<clock, cache, asked>>
      BY <1>1 DEF Provider!Change
    <2>2. \A u \in 0 .. clock : past[u] \subseteq past'[u]
      BY <2>1 DEF VettingInv
    <2>3. past' \in [0 .. MaxNow -> SUBSET Provider!Record] /\ record' \in past'[clock]
      BY <2>1 DEF VettingInv
    <2>4. Provider!VettedLately'
      BY <2>1 DEF Provider!VettedLately
    <2>5. clock' \in clock .. MaxNow
      BY <1>0, <2>1
    <2> QED  BY <1>0, <2>1, <2>2, <2>3, <2>4, <2>5, HistoryGrows DEF VettingInv
  <1>2. CASE Provider!Tick
    <2>1. /\ clock' = clock + 1 /\ clock < MaxNow
          /\ past' = [past EXCEPT ![clock'] = {record}]
          /\ acted' = {} /\ UNCHANGED <<record, cache, asked>>
          /\ \A r \in Requests : asked[r] # Provider!Idle => clock' <= asked[r].at + Timeout
      BY <1>2 DEF Provider!Tick
    <2>2. \A u \in 0 .. clock : past'[u] = past[u]
      BY <1>0, <2>1 DEF VettingInv
    <2>3. record \in Provider!Record
      BY <1>0 DEF VettingInv
    <2>4. /\ clock' \in clock .. MaxNow /\ clock' \in 0 .. MaxNow
          /\ past' \in [0 .. MaxNow -> SUBSET Provider!Record] /\ record \in past'[clock']
      BY <1>0, <2>1, <2>3 DEF VettingInv
    <2>5. Provider!VettedLately'
      BY <2>1 DEF Provider!VettedLately
    <2>6. asked' \in [Requests -> {Provider!Idle} \cup
                     [kind : Provider!Kinds, at : 0 .. clock', said : SUBSET Provider!Record]]
      BY <1>0, <2>1 DEF VettingInv
    <2>7. ASSUME NEW r \in Requests, asked[r] # Provider!Idle
          PROVE  \A rec \in asked[r].said : Held(rec, asked[r].at)'
      <3>1. asked[r].at \in 0 .. clock /\ \A rec \in asked[r].said : Held(rec, asked[r].at)
        BY <2>7 DEF VettingInv
      <3>2. \A rec : Held(rec, asked[r].at) => \E u \in asked[r].at .. clock' : rec \in past'[u]
        BY <2>2, <2>4, <3>1, HistoryGrows DEF Held
      <3> QED  BY <2>1, <3>1, <3>2 DEF Held
    <2>8. cache # Provider!NotCached =>
              cache.at \in 0 .. clock' /\ Given(cache.answer, cache.at)'
      BY <1>0, <2>1, <2>2, <2>4, HistoryGrows DEF VettingInv
    <2> QED  BY <2>1, <2>4, <2>5, <2>6, <2>7, <2>8 DEF VettingInv
  <1>3. ASSUME NEW r \in Requests, Provider!Read(r)
        PROVE  VettingInv' /\ Provider!VettedLately'
    <2>1. /\ asked[r].kind \in Provider!Kinds
          /\ asked' = [asked EXCEPT ![r].said = {record}]
          /\ acted' = {} /\ UNCHANGED <<clock, record, past, cache>>
      BY <1>3 DEF Provider!Read
    <2>2. asked[r] # Provider!Idle
      BY <2>1 DEF Provider!Idle, Provider!Kinds
    <2>3. asked[r] \in [kind : Provider!Kinds, at : 0 .. clock, said : SUBSET Provider!Record]
      BY <2>2 DEF VettingInv
    <2>4. record \in Provider!Record
      BY <1>0 DEF VettingInv
    <2>5. /\ asked'[r] = [kind |-> asked[r].kind, at |-> asked[r].at, said |-> {record}]
          /\ \A q \in Requests : q # r => asked'[q] = asked[q]
      BY <2>1, <2>3 DEF VettingInv
    <2>6. asked' \in [Requests -> {Provider!Idle} \cup
                     [kind : Provider!Kinds, at : 0 .. clock, said : SUBSET Provider!Record]]
      BY <2>1, <2>3, <2>4 DEF VettingInv
    <2>7. Held(record, asked[r].at)
      BY <1>0, <2>3 DEF VettingInv, Held
    <2>8. ASSUME NEW q \in Requests, asked'[q] # Provider!Idle
          PROVE  /\ clock <= asked'[q].at + Timeout
                 /\ \A rec \in asked'[q].said : Held(rec, asked'[q].at)
      <3>1. CASE q = r
        BY <2>2, <2>5, <2>7, <3>1 DEF VettingInv
      <3>2. CASE q # r
        BY <2>5, <2>8, <3>2 DEF VettingInv
      <3> QED  BY <3>1, <3>2
    <2>9. Provider!VettedLately'
      BY <2>1 DEF Provider!VettedLately
    <2> QED  BY <2>1, <2>6, <2>8, <2>9 DEF VettingInv, Held, Given
  <1>4. ASSUME NEW r \in Requests, NEW kind \in Provider!Kinds, Provider!Ask(r, kind)
        PROVE  VettingInv' /\ Provider!VettedLately'
    <2>1. UNCHANGED <<clock, record, past, cache>>
      BY <1>4 DEF Provider!Ask
    <2>2. CASE Provider!Cached /\ Provider!ActOn(kind, cache.answer) /\ UNCHANGED asked
      <3>1. /\ cache.at \in 0 .. clock /\ Given(cache.answer, cache.at)
            /\ clock <= cache.at + CacheTtl
        BY <1>0, <2>2 DEF VettingInv, Provider!Cached
      <3>2. Provider!VettedLately'
        BY <2>1, <2>2, <3>1, ActsVetted
      <3> QED  BY <2>1, <2>2, <3>2 DEF VettingInv, Held, Given
    <2>3. CASE /\ ~Provider!Cached /\ acted' = {}
               /\ asked' = [asked EXCEPT ![r] = [kind |-> kind, at |-> clock, said |-> {}]]
      <3>1. Provider!VettedLately'
        BY <2>3 DEF Provider!VettedLately
      <3>2. asked' \in [Requests -> {Provider!Idle} \cup
                     [kind : Provider!Kinds, at : 0 .. clock, said : SUBSET Provider!Record]]
        BY <1>0, <2>3 DEF VettingInv
      <3>3. ASSUME NEW q \in Requests, asked'[q] # Provider!Idle
            PROVE  /\ clock <= asked'[q].at + Timeout
                   /\ \A rec \in asked'[q].said : Held(rec, asked'[q].at)
        BY <1>0, <2>3, <3>3 DEF VettingInv
      <3> QED  BY <2>1, <3>1, <3>2, <3>3 DEF VettingInv, Held, Given
    <2> QED  BY <1>4, <2>2, <2>3 DEF Provider!Ask
  <1>5. ASSUME NEW r \in Requests, NEW v, Provider!Goes(r, v), asked[r].kind \in Provider!Kinds,
               v = Provider!NoAnswer \/ Given(v, clock)
        PROVE  VettingInv' /\ Provider!VettedLately'
    <2>1. /\ Provider!ActOn(asked[r].kind, v)
          /\ cache' = IF Provider!Kept(v) THEN [kind |-> "kept", at |-> clock, answer |-> v]
                      ELSE cache
          /\ asked' = [asked EXCEPT ![r] = Provider!Idle]
          /\ UNCHANGED <<clock, record, past>>
      BY <1>5 DEF Provider!Goes
    <2>2. Provider!VettedLately'
      BY <1>0, <1>5, <2>1, ActsVetted
    <2>3. cache' = cache \/ /\ cache'.at = clock /\ cache'.answer = v /\ Given(v, clock)
      BY <1>5, <2>1 DEF Provider!Kept, Provider!NoAnswer
    <2>4. asked' \in [Requests -> {Provider!Idle} \cup
                   [kind : Provider!Kinds, at : 0 .. clock, said : SUBSET Provider!Record]]
      BY <2>1 DEF VettingInv
    <2>5. ASSUME NEW q \in Requests, asked'[q] # Provider!Idle
          PROVE  /\ clock <= asked'[q].at + Timeout
                 /\ \A rec \in asked'[q].said : Held(rec, asked'[q].at)
      BY <2>1, <2>5 DEF VettingInv
    <2> QED  BY <1>0, <2>1, <2>2, <2>3, <2>4, <2>5 DEF VettingInv, Held, Given
  <1>6. ASSUME NEW r \in Requests, Provider!Answer(r)
        PROVE  VettingInv' /\ Provider!VettedLately'
    <2>1. PICK rec \in asked[r].said : Provider!Goes(r, Provider!Assessed(rec))
      BY <1>6 DEF Provider!Answer
    <2>2. asked[r].kind \in Provider!Kinds /\ asked[r] # Provider!Idle
      BY <1>6 DEF Provider!Answer, Provider!Idle, Provider!Kinds
    <2>3. /\ asked[r] \in [kind : Provider!Kinds, at : 0 .. clock, said : SUBSET Provider!Record]
          /\ clock <= asked[r].at + Timeout /\ Held(rec, asked[r].at)
      BY <2>1, <2>2 DEF VettingInv
    <2>4. PICK u \in asked[r].at .. clock : rec \in past[u]
      BY <2>3 DEF Held
    <2>5. u \in 0 .. clock /\ clock <= u + Timeout /\ rec \in Provider!Record
      BY <1>0, <2>1, <2>3, <2>4
    <2>6. Given(Provider!Assessed(rec), clock)
      BY <2>4, <2>5 DEF Given
    <2> QED  BY <1>5, <2>1, <2>2, <2>6
  <1>7. ASSUME NEW r \in Requests, Provider!Fails(r)
        PROVE  VettingInv' /\ Provider!VettedLately'
    BY <1>5, <1>7 DEF Provider!Fails
  <1>8. CASE UNCHANGED providerVars
    BY <1>8, ZenonT(60) DEF providerVars, VettingInv, Held, Given, Provider!VettedLately, Provider!Lately
  <1> QED  BY <1>1, <1>2, <1>3, <1>4, <1>6, <1>7, <1>8 DEF Provider!VettingNext

----------------------------------------------------------------------------
(* Messages taken in                                                       *)

Row(m) == [nonce |-> m.nonce, ts |-> m.ts]
Way == wire \cup handling
Status == {"ACTIVE", "ROUTINE", "COMPROMISE", "REVOKED"}
Cred == [status : Status, at : Nat, graceUntil : Nat]

CredsInv ==
    /\ minute \in Nat /\ ahead \in -1 .. 1
    /\ creds \in Seq(Cred)
    /\ \A i \in DOMAIN creds : creds[i].status = "ROUTINE" => creds[i].graceUntil = creds[i].at + 4
    /\ spoken.cred \in DOMAIN creds /\ signing \in [key : Nat, cred : DOMAIN creds]
    /\ \A m \in Way : m.cred \in DOMAIN creds

\* One message is known by each nonce; one that is handled, or was, has its nonce
\* among the rows, or is so old that it is stale for good.  What is refused for a key
\* changed in routine was signed after the change, unless it is stale
NoncesInv ==
    /\ sent \in 0 .. MaxSent /\ handled \in [1 .. MaxSent -> 0 .. 1]
    /\ \A m \in Way : m.nonce \in 1 .. sent /\ m.ts \in Int
    /\ \A m, n \in Way : m.nonce = n.nonce => m = n
    /\ \A row \in nonces : row.nonce \in 1 .. sent
    /\ \A n \in 1 .. MaxSent : n > sent => handled[n] = 0
    /\ \A m \in handling : handled[m.nonce] = 0
    /\ \A m \in Way :
          m \in handling \/ handled[m.nonce] > 0 => Row(m) \in nonces \/ m.ts < minute - 4

RefusedInv ==
    \A r \in refused : r.why = "ROUTINE" =>
        /\ r.m.cred \in DOMAIN creds /\ creds[r.m.cred].status = "ROUTINE"
        /\ r.fresh => Taking!SignedAt(r.m) > creds[r.m.cred].at

IntakeInv == CredsInv /\ NoncesInv /\ RefusedInv

LEMMA CredsTyped ==
    ASSUME CredsInv
    PROVE  \A i \in DOMAIN creds : creds[i] \in Cred
  <1>1. creds \in Seq(Cred)
    BY DEF CredsInv
  <1> QED  BY <1>1, ElementOfSeq, LenProperties

LEMMA IntakeStarts == Taking!Init => IntakeInv
  <1> USE IntakeAssumption
  <1> SUFFICES ASSUME Taking!Init PROVE IntakeInv
    OBVIOUS
  <1>1. /\ minute = 0 /\ ahead \in -1 .. 1 /\ sent = 0 /\ wire = {} /\ handling = {}
        /\ nonces = {} /\ refused = {} /\ spoken.cred = 1 /\ signing = [key |-> 1, cred |-> 1]
        /\ creds = <<Taking!Credential>> /\ handled = [n \in 1 .. MaxSent |-> 0]
    BY DEF Taking!Init, Taking!Clock
  <1>2. Taking!Credential = [status |-> "ACTIVE", at |-> 0, graceUntil |-> 0]
    BY <1>1 DEF Taking!Credential
  <1>3. CredsInv
    BY <1>1, <1>2 DEF CredsInv, Cred, Status, Way
  <1> QED  BY <1>1, <1>3 DEF IntakeInv, NoncesInv, RefusedInv, Way

\* A credential that was superseded in routine stays so
LEMMA CredsKept ==
    ASSUME CredsInv, RefusedInv, creds' \in Seq(Cred),
           UNCHANGED <<minute, ahead, wire, handling, refused>>,
           spoken'.cred \in DOMAIN creds', signing' \in [key : Nat, cred : DOMAIN creds'],
           Len(creds') >= Len(creds),
           \A i \in DOMAIN creds : creds[i].status = "ROUTINE" => creds'[i] = creds[i],
           \A i \in DOMAIN creds' : creds'[i].status = "ROUTINE" =>
               creds'[i].graceUntil = creds'[i].at + 4
    PROVE  CredsInv' /\ RefusedInv'
  <1>1. DOMAIN creds \subseteq DOMAIN creds'
    BY DEF CredsInv
  <1>2. CredsInv'
    BY <1>1 DEF CredsInv, Way
  <1>3. RefusedInv'
    <2> SUFFICES ASSUME NEW r \in refused, r.why = "ROUTINE"
                 PROVE  /\ r.m.cred \in DOMAIN creds' /\ creds'[r.m.cred].status = "ROUTINE"
                        /\ r.fresh => Taking!SignedAt(r.m)' > creds'[r.m.cred].at
      BY DEF RefusedInv
    <2>1. /\ r.m.cred \in DOMAIN creds /\ creds[r.m.cred].status = "ROUTINE"
          /\ r.fresh => Taking!SignedAt(r.m) > creds[r.m.cred].at
      BY DEF RefusedInv
    <2>2. creds'[r.m.cred] = creds[r.m.cred] /\ r.m.cred \in DOMAIN creds'
      BY <1>1, <2>1
    <2> QED  BY <2>1, <2>2 DEF Taking!SignedAt
  <1> QED  BY <1>2, <1>3

\* A message that is fresh was signed three moments ago at most; what is refused for
\* its credential's routine end comes four moments after that end
LEMMA RefusedLate ==
    ASSUME CredsInv, NEW m, m.ts \in Int, m.cred \in DOMAIN creds,
           ~Taking!Credentialed(m), creds[m.cred].status = "ROUTINE", Taking!Fresh(m)
    PROVE  Taking!SignedAt(m) > creds[m.cred].at
  <1>1. /\ creds[m.cred].at \in Nat /\ creds[m.cred].graceUntil = creds[m.cred].at + 4
        /\ minute \in Nat /\ ahead \in -1 .. 1
    <2>1. creds[m.cred] \in Cred
      BY CredsTyped
    <2> QED  BY <2>1 DEF CredsInv, Cred
  <1>2. minute >= creds[m.cred].graceUntil
    BY <1>1 DEF Taking!Credentialed
  <1>3. minute - m.ts <= 2
    BY <1>1 DEF Taking!Fresh, Taking!Clock
  <1> QED  BY <1>1, <1>2, <1>3 DEF Taking!SignedAt

\* A message that was taken in before is not taken in
LEMMA TakenOnce ==
    ASSUME IntakeInv, NEW m \in wire, Taking!Objection(m) = "none"
    PROVE  m \notin handling /\ handled[m.nonce] = 0
  <1>0. creds[m.cred].status # "none"
    <2>1. m \in Way /\ CredsInv
      BY DEF IntakeInv, Way
    <2>2. creds[m.cred] \in Cred
      BY <2>1, CredsTyped DEF CredsInv
    <2> QED  BY <2>2 DEF Status, Cred
  <1>1. (\A row \in nonces : row.nonce # m.nonce) /\ Taking!Fresh(m)
    <2> DEFINE used == \E row \in nonces : row.nonce = m.nonce
    <2>1. Taking!Objection(m) = CASE used -> "NONCE_REUSED"
                                  [] ~Taking!Fresh(m) -> "MESSAGE_STALE"
                                  [] ~Taking!Credentialed(m) -> creds[m.cred].status
                                  [] ~Taking!Presents(m) -> "IDENTITY_KEY_MISMATCH"
                                  [] ~Taking!Registered(m) -> "CREDENTIAL_UNKNOWN"
                                  [] OTHER -> "none"
      BY DEF Taking!Objection
    <2>2. ~used /\ Taking!Fresh(m)
      <3> HIDE DEF used
      <3> QED  BY <1>0, <2>1
    <2> QED  BY <2>2
  <1>2. minute - m.ts <= 2 /\ minute \in Nat /\ m.ts \in Int
    BY <1>1 DEF Taking!Fresh, Taking!Clock, IntakeInv, CredsInv, NoncesInv, Way
  <1>3. Row(m) \notin nonces
    BY <1>1 DEF Row
  <1>4. /\ m \in Way /\ m.nonce \in 1 .. MaxSent /\ handled[m.nonce] \in 0 .. 1
        /\ m \in handling \/ handled[m.nonce] > 0 => Row(m) \in nonces \/ m.ts < minute - 4
    BY IntakeAssumption DEF IntakeInv, NoncesInv, Way
  <1> QED  BY <1>2, <1>3, <1>4

\* What is refused, with RefusedLate
LEMMA RefusalKept ==
    ASSUME IntakeInv, NEW m \in wire, NEW why,
           why = "ROUTINE" => ~Taking!Credentialed(m) /\ creds[m.cred].status = "ROUTINE",
           refused' = refused \cup {[m |-> m, fresh |-> Taking!Fresh(m), why |-> why]},
           UNCHANGED <<creds, ahead>>
    PROVE  RefusedInv'
  <1> DEFINE new == [m |-> m, fresh |-> Taking!Fresh(m), why |-> why]
  <1>1. ASSUME NEW r \in refused, r.why = "ROUTINE"
        PROVE  /\ r.m.cred \in DOMAIN creds /\ creds[r.m.cred].status = "ROUTINE"
               /\ r.fresh => Taking!SignedAt(r.m) > creds[r.m.cred].at
    BY <1>1 DEF IntakeInv, RefusedInv
  <1>2. m.ts \in Int /\ m.cred \in DOMAIN creds /\ CredsInv
    BY DEF IntakeInv, NoncesInv, CredsInv, Way
  <1>3. why = "ROUTINE" /\ Taking!Fresh(m) => Taking!SignedAt(m) > creds[m.cred].at
    BY <1>2, RefusedLate
  <1>4. new.m = m /\ new.why = why /\ (new.fresh <=> Taking!Fresh(m))
    BY Zenon
  <1> HIDE DEF new
  <1>5. refused' = refused \cup {new}
    BY DEF new
  <1>6. ASSUME NEW r \in refused', r.why = "ROUTINE"
        PROVE  /\ r.m.cred \in DOMAIN creds /\ creds[r.m.cred].status = "ROUTINE"
               /\ r.fresh => Taking!SignedAt(r.m) > creds[r.m.cred].at
    <2>1. CASE r = new
      BY <1>2, <1>3, <1>4, <1>6, <2>1, Zenon
    <2>2. CASE r # new
      BY <1>1, <1>5, <1>6, <2>2
    <2> QED  BY <2>1, <2>2
  <1> QED  BY <1>6 DEF RefusedInv, Taking!SignedAt

\* The agent's credentials changed one at a time
LEMMA CredChanges ==
    ASSUME IntakeInv, NEW c \in Cred, c.status = "ROUTINE" => c.graceUntil = c.at + 4,
           NEW a \in DOMAIN creds, creds[a].status # "ROUTINE", NEW s,
           s = [creds EXCEPT ![a] = c]
    PROVE  /\ s \in Seq(Cred) /\ Len(s) = Len(creds)
           /\ \A i \in DOMAIN creds : creds[i].status = "ROUTINE" => s[i] = creds[i]
           /\ \A i \in DOMAIN s : s[i].status = "ROUTINE" => s[i].graceUntil = s[i].at + 4
  <1>1. creds \in Seq(Cred) /\ CredsInv
    BY DEF IntakeInv, CredsInv
  <1>2. s \in Seq(Cred) /\ Len(s) = Len(creds)
    BY <1>1, ExceptSeq
  <1>3. /\ DOMAIN s = DOMAIN creds /\ s[a] = c
        /\ \A i \in DOMAIN creds : i # a => s[i] = creds[i]
    BY <1>1
  <1> QED  BY <1>1, <1>2, <1>3 DEF CredsInv

LEMMA NewCred ==
    ASSUME CredsInv
    PROVE  Taking!Credential \in Cred /\ Taking!Credential.status = "ACTIVE"
  BY DEF CredsInv, Taking!Credential, Cred, Status

LEMMA CredAdded ==
    ASSUME NEW s \in Seq(Cred), NEW c \in Cred, c.status # "ROUTINE", NEW t, t = Append(s, c),
           \A i \in DOMAIN s : s[i].status = "ROUTINE" => s[i].graceUntil = s[i].at + 4
    PROVE  /\ t \in Seq(Cred) /\ Len(t) = Len(s) + 1 /\ Len(t) \in DOMAIN t
           /\ \A i \in DOMAIN s : t[i] = s[i]
           /\ \A i \in DOMAIN t : t[i].status = "ROUTINE" => t[i].graceUntil = t[i].at + 4
  <1>1. t \in Seq(Cred) /\ Len(t) = Len(s) + 1 /\ t[Len(t)] = c
    BY AppendProperties
  <1>2. DOMAIN t = 1 .. Len(t) /\ DOMAIN s = 1 .. Len(s) /\ Len(s) \in Nat
    BY <1>1, LenProperties
  <1>3. \A i \in DOMAIN s : t[i] = s[i]
    BY <1>2, AppendProperties
  <1>4. ASSUME NEW i \in DOMAIN t, t[i].status = "ROUTINE"
        PROVE  t[i].graceUntil = t[i].at + 4
    <2>1. i # Len(t)
      BY <1>1, <1>4
    <2>2. i \in DOMAIN s
      BY <1>1, <1>2, <2>1
    <2> QED  BY <1>3, <1>4, <2>2
  <1> QED  BY <1>1, <1>2, <1>3, <1>4

\* What does not touch messages leaves what is known of them
LEMMA NoncesKept ==
    ASSUME NoncesInv, UNCHANGED <<minute, sent, wire, nonces, handling, handled>>
    PROVE  NoncesInv'
  BY DEF NoncesInv, Way, Row

LEMMA IntakeStep ==
    ASSUME IntakeInv, [Taking!Next]_intakeVars
    PROVE  IntakeInv'
  <1> USE IntakeAssumption
  <1>0. /\ minute \in Nat /\ sent \in 0 .. MaxSent /\ CredsInv /\ NoncesInv /\ RefusedInv
        /\ creds \in Seq(Cred) /\ spoken.cred \in DOMAIN creds /\ signing \in [key : Nat, cred : DOMAIN creds]
    BY DEF IntakeInv, CredsInv, NoncesInv
  <1>1. CASE Taking!Tick
    <2>1. /\ minute' = minute + 1
          /\ UNCHANGED <<ahead, creds, spoken, signing, sent, wire, nonces, handling, handled,
                         refused>>
      BY <1>1 DEF Taking!Tick, Taking!credVars, Taking!agentVars
    <2>2. CredsInv' /\ RefusedInv'
      BY <1>0, <2>1 DEF CredsInv, RefusedInv, Way, Taking!SignedAt
    <2>3. NoncesInv'
      BY <1>0, <2>1 DEF NoncesInv, Way, Row
    <2> QED  BY <2>2, <2>3 DEF IntakeInv
  <1>2. ASSUME NEW kind \in {"message", "bearer"}, Taking!Send(kind) PROVE IntakeInv'
    <2> DEFINE m == [nonce |-> sent', kind |-> kind, ts |-> minute + ahead,
                     cred |-> signing.cred, key |-> signing.key]
    <2>1. /\ sent < MaxSent /\ sent' = sent + 1 /\ wire' = wire \cup {m}
          /\ UNCHANGED <<minute, ahead, creds, spoken, signing, nonces, handling, handled, refused>>
      BY <1>2 DEF Taking!Send, Taking!credVars
    <2>2. m.nonce = sent + 1 /\ m.ts \in Int /\ m.cred = signing.cred
      BY <1>0, <2>1 DEF CredsInv
    <2> HIDE DEF m
    <2>3. Way' = Way \cup {m} /\ sent + 1 \in 1 .. MaxSent /\ sent' \in 0 .. MaxSent
      BY <1>0, <2>1 DEF Way
    <2>4. handled[sent + 1] = 0 /\ \A h \in handling : h.nonce # sent + 1
      BY <1>0, <2>3 DEF NoncesInv, Way
    <2>5. CredsInv' /\ RefusedInv'
      BY <1>0, <2>1, <2>2, <2>3 DEF CredsInv, RefusedInv, Taking!SignedAt
    <2>6. NoncesInv'
      <3>1. \A h \in Way' : h.nonce \in 1 .. sent' /\ h.ts \in Int
        BY <1>0, <2>1, <2>2, <2>3 DEF NoncesInv
      <3>2. \A h, n \in Way' : h.nonce = n.nonce => h = n
        BY <1>0, <2>2, <2>3 DEF NoncesInv
      <3>3. \A h \in Way' :
                h \in handling \/ handled[h.nonce] > 0 => Row(h) \in nonces \/ h.ts < minute - 4
        BY <1>0, <2>2, <2>3, <2>4 DEF NoncesInv
      <3>4. /\ \A row \in nonces : row.nonce \in 1 .. sent'
            /\ \A n \in 1 .. MaxSent : n > sent' => handled[n] = 0
            /\ handled \in [1 .. MaxSent -> 0 .. 1] /\ \A h \in handling : handled[h.nonce] = 0
        BY <1>0, <2>1 DEF NoncesInv
      <3> QED  BY <2>1, <2>3, <3>1, <3>2, <3>3, <3>4 DEF NoncesInv, Row
    <2> QED  BY <2>5, <2>6 DEF IntakeInv
  <1>3. CASE Taking!HearsOfRotation
    <2>1. /\ signing' \in [key : Nat, cred : DOMAIN creds]
          /\ UNCHANGED <<minute, ahead, creds, spoken, sent, wire, nonces, handling, handled, refused>>
      BY <1>0, <1>3 DEF CredsInv, Taking!HearsOfRotation, Taking!credVars
    <2> QED  BY <1>0, <2>1, NoncesKept, CredsKept DEF IntakeInv, CredsInv
  <1>4. ASSUME NEW reason \in {"ROUTINE", "COMPROMISE"}, Taking!Rotate(reason) PROVE IntakeInv'
    <2> DEFINE until == Taking!GraceUntil(creds[spoken.cred], reason)
               c == [creds[spoken.cred] EXCEPT !.status = reason, !.at = minute,
                                               !.graceUntil = until]
               s == [creds EXCEPT ![spoken.cred] = c]
    <2>1. /\ creds[spoken.cred].status = "ACTIVE" /\ creds' = Append(s, Taking!Credential)
          /\ spoken'.cred = Len(creds')
          /\ UNCHANGED <<minute, ahead, signing, sent, wire, nonces, handling, handled, refused>>
      BY <1>4 DEF Taking!Rotate, Taking!agentVars
    <2>2. until \in Nat /\ (reason = "ROUTINE" => until = minute + 4)
      BY <1>0 DEF Taking!GraceUntil, Taking!Clock
    <2>3. creds[spoken.cred] \in Cred
      BY <1>0, CredsTyped
    <2> HIDE DEF until
    <2>4. c \in Cred /\ (c.status = "ROUTINE" => c.graceUntil = c.at + 4)
      BY <1>0, <2>2, <2>3 DEF Cred, Status
    <2> HIDE DEF c
    <2>5. /\ s \in Seq(Cred) /\ Len(s) = Len(creds)
          /\ \A i \in DOMAIN creds : creds[i].status = "ROUTINE" => s[i] = creds[i]
          /\ \A i \in DOMAIN s : s[i].status = "ROUTINE" => s[i].graceUntil = s[i].at + 4
      BY <1>0, <2>1, <2>4, CredChanges
    <2> HIDE DEF s
    <2>6. Taking!Credential \in Cred /\ Taking!Credential.status # "ROUTINE"
      BY <1>0, NewCred
    <2>7. /\ creds' \in Seq(Cred) /\ Len(creds') = Len(s) + 1 /\ Len(creds') \in DOMAIN creds'
          /\ \A i \in DOMAIN s : creds'[i] = s[i]
          /\ \A i \in DOMAIN creds' : creds'[i].status = "ROUTINE" =>
                creds'[i].graceUntil = creds'[i].at + 4
      BY <2>1, <2>5, <2>6, CredAdded
    <2>8. DOMAIN s = DOMAIN creds /\ DOMAIN creds \subseteq DOMAIN creds' /\ Len(creds) \in Nat
      BY <1>0, <2>5, <2>7, LenProperties
    <2>9. CredsInv' /\ RefusedInv'
      BY <1>0, <2>1, <2>5, <2>7, <2>8, CredsKept
    <2> QED  BY <1>0, <2>1, <2>9, NoncesKept DEF IntakeInv
  <1>5. CASE Taking!OnboardAgain
    <2>1. /\ creds' = Append(creds, Taking!Credential)
          /\ spoken'.cred = Len(creds') /\ signing' = [key |-> Len(creds'), cred |-> Len(creds')]
          /\ UNCHANGED <<minute, ahead, sent, wire, nonces, handling, handled, refused>>
      BY <1>5 DEF Taking!OnboardAgain
    <2>2. Taking!Credential \in Cred /\ Taking!Credential.status # "ROUTINE"
      BY <1>0, NewCred
    <2>3. /\ creds' \in Seq(Cred) /\ Len(creds') = Len(creds) + 1 /\ Len(creds') \in DOMAIN creds'
          /\ \A i \in DOMAIN creds : creds'[i] = creds[i]
          /\ \A i \in DOMAIN creds' : creds'[i].status = "ROUTINE" =>
                creds'[i].graceUntil = creds'[i].at + 4
      BY <1>0, <2>1, <2>2, CredAdded DEF CredsInv
    <2>4. Len(creds) \in Nat
      BY <1>0, LenProperties
    <2>5. CredsInv' /\ RefusedInv'
      BY <1>0, <2>1, <2>3, <2>4, CredsKept
    <2> QED  BY <1>0, <2>1, <2>5, NoncesKept DEF IntakeInv
  <1>6. CASE Taking!Revoke
    <2> DEFINE c == [creds[spoken.cred] EXCEPT !.status = "REVOKED", !.at = minute]
    <2>1. /\ creds[spoken.cred].status = "ACTIVE" /\ creds' = [creds EXCEPT ![spoken.cred] = c]
          /\ UNCHANGED <<minute, ahead, spoken, signing, sent, wire, nonces, handling, handled,
                         refused>>
      BY <1>6 DEF Taking!Revoke, Taking!agentVars
    <2>2. creds[spoken.cred] \in Cred
      BY <1>0, CredsTyped
    <2>3. c \in Cred /\ c.status # "ROUTINE"
      BY <1>0, <2>2 DEF Cred, Status
    <2> HIDE DEF c
    <2>4. /\ creds' \in Seq(Cred) /\ Len(creds') = Len(creds)
          /\ \A i \in DOMAIN creds : creds[i].status = "ROUTINE" => creds'[i] = creds[i]
          /\ \A i \in DOMAIN creds' : creds'[i].status = "ROUTINE" =>
                creds'[i].graceUntil = creds'[i].at + 4
      BY <1>0, <2>1, <2>3, CredChanges, SMTT(60)
    <2>5. DOMAIN creds = DOMAIN creds' /\ Len(creds) \in Nat
      BY <1>0, <2>4, LenProperties
    <2>6. CredsInv' /\ RefusedInv'
      BY <1>0, <2>1, <2>4, <2>5, CredsKept
    <2> QED  BY <1>0, <2>1, <2>6, NoncesKept DEF IntakeInv
  <1>7. ASSUME NEW m \in wire, Taking!Ingest(m) PROVE IntakeInv'
    <2>1. /\ wire' \in {wire, wire \ {m}}
          /\ UNCHANGED <<minute, ahead, creds, spoken, signing, sent, handled>>
      BY <1>7 DEF Taking!Ingest, Taking!Arrives, Taking!credVars, Taking!agentVars
    <2>2. CASE Taking!Objection(m) = "none"
      <3>1. /\ nonces' = nonces \cup {Row(m)} /\ handling' = handling \cup {m} /\ UNCHANGED refused
        BY <1>7, <2>2 DEF Taking!Ingest, Taking!Records, Row
      <3>2. m \notin handling /\ handled[m.nonce] = 0
        BY <2>2, TakenOnce
      <3>3. Way' \subseteq Way /\ m \in Way
        BY <2>1, <3>1 DEF Way
      <3>4. CredsInv' /\ RefusedInv'
        BY <1>0, <2>1, <3>1, <3>3 DEF CredsInv, RefusedInv, Taking!SignedAt
      <3>5. \A row \in nonces' : row.nonce \in 1 .. sent
        BY <1>0, <3>1, <3>3 DEF NoncesInv, Row
      <3>6. \A h \in Way' :
                h \in handling' \/ handled[h.nonce] > 0 => Row(h) \in nonces' \/ h.ts < minute - 4
        BY <1>0, <3>1, <3>3 DEF NoncesInv
      <3>7. NoncesInv'
        BY <1>0, <2>1, <3>1, <3>2, <3>3, <3>5, <3>6 DEF NoncesInv, Row
      <3> QED  BY <3>4, <3>7 DEF IntakeInv
    <2>3. CASE Taking!Objection(m) # "none"
      <3>1. /\ UNCHANGED <<nonces, handling>>
            /\ refused' = refused \cup {[m |-> m, fresh |-> Taking!Fresh(m),
                                         why |-> Taking!Objection(m)]}
        BY <1>7, <2>3 DEF Taking!Ingest
      <3>2. Taking!Objection(m) = "ROUTINE" =>
                ~Taking!Credentialed(m) /\ creds[m.cred].status = "ROUTINE"
        BY DEF Taking!Objection
      <3>3. Way' \subseteq Way
        BY <2>1, <3>1 DEF Way
      <3>4. RefusedInv'
        BY <2>1, <3>1, <3>2, RefusalKept
      <3>5. CredsInv'
        BY <1>0, <2>1, <3>3 DEF CredsInv
      <3>6. NoncesInv'
        BY <1>0, <2>1, <3>1, <3>3 DEF NoncesInv, Row
      <3> QED  BY <3>4, <3>5, <3>6 DEF IntakeInv
    <2> QED  BY <2>2, <2>3
  <1>8. ASSUME NEW m \in wire, Taking!Bearer(m) PROVE IntakeInv'
    <2>1. /\ wire' \in {wire, wire \ {m}}
          /\ UNCHANGED <<minute, ahead, creds, spoken, signing, sent, nonces, handling, handled>>
          /\ \/ refused' = refused
             \/ refused' = refused \cup {[m |-> m, fresh |-> Taking!Fresh(m),
                                          why |-> Taking!BearerObjection(m)]}
      BY <1>8 DEF Taking!Bearer, Taking!Arrives, Taking!credVars, Taking!agentVars
    <2>2. Taking!BearerObjection(m) = "ROUTINE" =>
              ~Taking!Credentialed(m) /\ creds[m.cred].status = "ROUTINE"
      BY DEF Taking!BearerObjection
    <2>3. Way' \subseteq Way
      BY <2>1 DEF Way
    <2>4. RefusedInv'
      <3>1. CASE refused' = refused
        BY <1>0, <2>1, <3>1 DEF RefusedInv, Taking!SignedAt
      <3>2. CASE refused' # refused
        BY <2>1, <2>2, <3>2, RefusalKept
      <3> QED  BY <3>1, <3>2
    <2>5. CredsInv'
      BY <1>0, <2>1, <2>3 DEF CredsInv
    <2>6. NoncesInv'
      BY <1>0, <2>1, <2>3 DEF NoncesInv, Row
    <2> QED  BY <2>4, <2>5, <2>6 DEF IntakeInv
  <1>9. ASSUME NEW m \in handling, Taking!Finish(m) PROVE IntakeInv'
    <2>1. /\ handling' = handling \ {m} /\ handled' = [handled EXCEPT ![m.nonce] = @ + 1]
          /\ UNCHANGED <<minute, ahead, creds, spoken, signing, sent, wire, nonces, refused>>
      BY <1>9 DEF Taking!Finish, Taking!credVars, Taking!agentVars
    <2>2. m \in Way /\ m.nonce \in 1 .. sent /\ handled[m.nonce] = 0 /\ m.nonce \in 1 .. MaxSent
      BY <1>0 DEF NoncesInv, Way
    <2>3. /\ handled' \in [1 .. MaxSent -> 0 .. 1] /\ handled'[m.nonce] = 1
          /\ \A n \in 1 .. MaxSent : n # m.nonce => handled'[n] = handled[n]
      BY <1>0, <2>1, <2>2 DEF NoncesInv
    <2>4. Way' \subseteq Way
      BY <2>1 DEF Way
    <2>5. CredsInv' /\ RefusedInv'
      BY <1>0, <2>1, <2>4 DEF CredsInv, RefusedInv, Taking!SignedAt
    <2>6. ASSUME NEW h \in Way', h \in handling' \/ handled'[h.nonce] > 0
          PROVE  Row(h) \in nonces \/ h.ts < minute - 4
      <3>1. CASE h = m
        BY <1>0, <2>2, <3>1 DEF NoncesInv
      <3>2. CASE h # m
        <4>1. h \in Way /\ h.nonce # m.nonce /\ h.nonce \in 1 .. MaxSent
          BY <1>0, <2>2, <2>4, <3>2 DEF NoncesInv
        <4> QED  BY <1>0, <2>1, <2>3, <2>6, <4>1 DEF NoncesInv
      <3> QED  BY <3>1, <3>2
    <2>7. ASSUME NEW h \in handling' PROVE handled'[h.nonce] = 0
      <3>1. h \in Way /\ h \in handling /\ h.nonce # m.nonce /\ h.nonce \in 1 .. MaxSent
        BY <1>0, <2>1, <2>2 DEF NoncesInv, Way
      <3> QED  BY <1>0, <2>3, <3>1 DEF NoncesInv
    <2>8. \A n \in 1 .. MaxSent : n > sent => handled'[n] = 0
      BY <1>0, <2>2, <2>3 DEF NoncesInv
    <2>9. NoncesInv'
      BY <1>0, <2>1, <2>3, <2>4, <2>6, <2>7, <2>8 DEF NoncesInv, Row
    <2> QED  BY <2>5, <2>9 DEF IntakeInv
  <1>10. CASE Taking!Sweep
    <2>1. /\ nonces' = {row \in nonces : ~Taking!Swept(row)}
          /\ UNCHANGED <<minute, ahead, creds, spoken, signing, sent, wire, handling, handled,
                         refused>>
      BY <1>10 DEF Taking!Sweep, Taking!credVars, Taking!agentVars
    <2>2. CredsInv' /\ RefusedInv'
      BY <1>0, <2>1 DEF CredsInv, RefusedInv, Way, Taking!SignedAt
    <2>3. ASSUME NEW m \in Way, Row(m) \in nonces
          PROVE  Row(m) \in nonces' \/ m.ts < minute - 4
      <3>1. Row(m).ts = m.ts /\ m.ts \in Int
        BY <1>0 DEF Row, NoncesInv
      <3>2. Taking!Swept(Row(m)) => m.ts < minute - 4
        BY <1>0, <3>1 DEF Taking!Swept, Taking!Clock
      <3> QED  BY <2>1, <2>3, <3>2
    <2>4. NoncesInv'
      BY <1>0, <2>1, <2>3 DEF NoncesInv, Way, Row
    <2> QED  BY <2>2, <2>4 DEF IntakeInv
  <1>11. CASE Taking!Dies
    <2>1. /\ handling' = {}
          /\ UNCHANGED <<minute, ahead, creds, spoken, signing, sent, wire, nonces, handled, refused>>
      BY <1>11 DEF Taking!Dies, Taking!credVars, Taking!agentVars
    <2>2. Way' \subseteq Way
      BY <2>1 DEF Way
    <2>3. CredsInv' /\ RefusedInv'
      BY <1>0, <2>1, <2>2 DEF CredsInv, RefusedInv, Taking!SignedAt
    <2>4. NoncesInv'
      BY <1>0, <2>1, <2>2 DEF NoncesInv, Row
    <2> QED  BY <2>3, <2>4 DEF IntakeInv
  <1>12. CASE UNCHANGED intakeVars
    BY <1>12 DEF intakeVars, IntakeInv, CredsInv, NoncesInv, RefusedInv, Way, Row, Taking!SignedAt
  <1> QED
    BY <1>1, <1>2, <1>3, <1>4, <1>5, <1>6, <1>7, <1>8, <1>9, <1>10, <1>11, <1>12
       DEF Taking!Next

LEMMA IntakeKept == IntakeInv => Taking!TakenInFairly
  <1> SUFFICES ASSUME IntakeInv PROVE Taking!TakenInFairly
    OBVIOUS
  <1>1. Taking!HandledOnce
    BY IntakeAssumption DEF IntakeInv, NoncesInv, Taking!HandledOnce
  <1>2. Taking!GraceCoversFlight
    BY DEF IntakeInv, RefusedInv, Taking!GraceCoversFlight
  <1> QED  BY <1>1, <1>2 DEF Taking!TakenInFairly

----------------------------------------------------------------------------
(* The directory of filers                                                 *)

Revocation == [key : Nat, since : 0 .. DirectoryTime, at : 0 .. DirectoryTime]
DirectoryInv ==
    /\ today \in 0 .. DirectoryTime
    /\ \E Some : keys \in Seq(Some)
    /\ revocations \in Seq(Revocation)

LEMMA DirectoryStarts == Directory!Init => DirectoryInv
  <1> SUFFICES ASSUME Directory!Init PROVE DirectoryInv
    OBVIOUS
  <1> DEFINE k == [from |-> 0, root |-> 1, licensed |-> 0]
  <1>1. keys = <<k>> /\ revocations = <<>> /\ today = 0
    BY DEF Directory!Init
  <1> HIDE DEF k
  <1>2. keys \in Seq({k})
    BY <1>1
  <1>3. revocations \in Seq(Revocation) /\ today \in 0 .. DirectoryTime
    BY <1>1, DirectoryAssumption
  <1> QED  BY <1>2, <1>3 DEF DirectoryInv

LEMMA DirectoryStep ==
    ASSUME DirectoryInv, [Directory!Next]_directory
    PROVE  DirectoryInv'
  <1> USE DirectoryAssumption DEF DirectoryInv
  <1>1. CASE Directory!Tick
    BY <1>1 DEF Directory!Tick
  <1>2. CASE Directory!AcceptRegulatorEvent
    BY <1>2 DEF Directory!AcceptRegulatorEvent
  <1>3. CASE Directory!RotateFilerKey
    <2>1. PICK k : keys' = Append(keys, k) /\ UNCHANGED <<today, revocations>>
      BY <1>3 DEF Directory!RotateFilerKey
    <2>2. PICK Some : keys \in Seq(Some)
      OBVIOUS
    <2>3. keys \in Seq(Some \cup {k})
      BY <2>2
    <2>4. keys' \in Seq(Some \cup {k})
      BY <2>1, <2>3, AppendProperties
    <2> QED  BY <2>1, <2>4
  <1>4. CASE Directory!RevokeFilerKey
    <2>1. PICK k \in DOMAIN keys, from \in 0 .. today :
              /\ revocations' = Append(revocations, [key |-> k, since |-> from, at |-> today])
              /\ UNCHANGED <<today, keys>>
      BY <1>4 DEF Directory!RevokeFilerKey
    <2>2. k \in Nat
      BY LenProperties
    <2>3. [key |-> k, since |-> from, at |-> today] \in Revocation
      BY <2>2 DEF Revocation
    <2> QED  BY <2>1, <2>3, AppendProperties
  <1>5. CASE Directory!CheckWord
    BY <1>5 DEF Directory!CheckWord
  <1>6. CASE UNCHANGED directory
    BY <1>6 DEF directory
  <1> QED  BY <1>1, <1>2, <1>3, <1>4, <1>5, <1>6 DEF Directory!Next

\* Among some of the numbers up to one there is the largest
LEMMA LargestNatural ==
    ASSUME NEW n \in Nat, NEW S \in SUBSET (0 .. n), S # {}
    PROVE  \E x \in S : \A y \in S : y <= x
  <1> DEFINE T == {n - x : x \in S}
  <1>1. T \in SUBSET Nat /\ T # {}
    <2>1. PICK x : x \in S
      OBVIOUS
    <2>2. n - x \in T
      BY <2>1
    <2>3. \A y \in S : y \in Nat /\ n - y \in Nat
      OBVIOUS
    <2> QED  BY <2>2, <2>3
  <1>2. PICK t \in T : \A u \in T : t <= u
    <2> HIDE DEF T
    <2>1. PICK t \in T : \A u \in T : ~(<<u, t>> \in OpToRel(<, Nat))
      BY <1>1, NatLessThanWellFounded, WFMin, Zenon
    <2>2. ASSUME NEW u \in T PROVE t <= u
      <3>1. t \in Nat /\ u \in Nat /\ ~(u < t)
        BY <1>1, <2>1 DEF OpToRel
      <3> QED  BY <3>1
    <2> QED  BY <2>2
  <1>3. PICK x \in S : t = n - x
    OBVIOUS
  <1>4. ASSUME NEW y \in S PROVE y <= x
    <2>1. n - y \in T
      OBVIOUS
    <2>2. t <= n - y
      BY <1>2, <2>1
    <2>3. x \in Nat /\ y \in Nat
      OBVIOUS
    <2>4. n - x <= n - y
      BY <1>3, <2>2
    <2> HIDE DEF T
    <2> QED  BY <2>3, <2>4
  <1> QED  BY <1>4

\* The revocations of a key that a copy of a time shows
Shown(k, t) == {i \in DOMAIN revocations : revocations[i].key = k /\ revocations[i].at <= t}

\* What a copy says of a key is the last revocation it shows, if any
LEMMA ShownLast ==
    ASSUME DirectoryInv, NEW k, NEW t, Shown(k, t) # {}
    PROVE  \E i \in Shown(k, t) :
              /\ \A j \in Shown(k, t) : j <= i
              /\ Directory!KeyAt(k, t) = [since |-> revocations[i].since, declared |-> revocations[i].at]
  <1> DEFINE S == Shown(k, t)
             Last == CHOOSE i \in S : \A j \in S : j <= i
  <1>1. DOMAIN revocations = 1 .. Len(revocations) /\ Len(revocations) \in Nat
    BY LenProperties DEF DirectoryInv
  <1>2. S \in SUBSET (0 .. Len(revocations))
    BY <1>1 DEF Shown
  <1>3. \E i \in S : \A j \in S : j <= i
    <2> HIDE DEF S
    <2>1. S # {}
      BY DEF S
    <2> QED  BY <1>1, <1>2, <2>1, LargestNatural
  <1>4. Last \in S /\ \A j \in S : j <= Last
    <2> HIDE DEF S
    <2> QED  BY <1>3
  <1>5. Directory!KeyAt(k, t) = [since |-> revocations[Last].since, declared |-> revocations[Last].at]
    BY DEF Directory!KeyAt, Shown
  <1> HIDE DEF Last
  <1> QED  BY <1>4, <1>5

LEMMA DirectoryKept == DirectoryInv => Directory!FilersNeverAccused
  <1> SUFFICES ASSUME DirectoryInv, ~Directory!Postponed,
                      NEW k \in DOMAIN keys, NEW copy \in 0 .. today, NEW other \in 0 .. today,
                      Directory!KeyAt(k, other).since # Directory!Never,
                      Directory!FilerContradictedBy(k, copy, copy, Directory!KeyAt(k, other))
               PROVE  FALSE
    BY DEF Directory!FilersNeverAccused
  <1>1. Shown(k, other) # {}
    BY DEF Shown, Directory!KeyAt
  <1>2. PICK i \in Shown(k, other) :
            Directory!KeyAt(k, other) = [since |-> revocations[i].since, declared |-> revocations[i].at]
    BY <1>1, ShownLast
  <1>3. /\ i \in DOMAIN revocations /\ revocations[i].key = k
        /\ revocations[i] \in Revocation
    BY ElementOfSeq, LenProperties DEF Shown, DirectoryInv
  <1>4. revocations[i].at < copy /\ Directory!KeyAt(k, copy).since > revocations[i].since
    BY <1>2 DEF Directory!FilerContradictedBy
  <1>5. i \in Shown(k, copy)
    BY <1>3, <1>4 DEF Shown, Revocation, DirectoryInv
  <1>6. PICK l \in Shown(k, copy) :
            /\ \A j \in Shown(k, copy) : j <= l
            /\ Directory!KeyAt(k, copy) = [since |-> revocations[l].since, declared |-> revocations[l].at]
    BY <1>5, ShownLast
  <1>7. /\ i <= l /\ l \in DOMAIN revocations /\ revocations[l].key = k
        /\ revocations[l] \in Revocation /\ i \in Nat /\ l \in Nat
    BY <1>3, <1>5, <1>6, ElementOfSeq, LenProperties DEF Shown, DirectoryInv
  <1>8. revocations[l].since > revocations[i].since
    BY <1>4, <1>6
  <1>9. i # l
    BY <1>3, <1>8 DEF Revocation
  <1>10. i < l
    BY <1>7, <1>9
  <1>11. revocations[i].since < revocations[l].since
    BY <1>3, <1>7, <1>8 DEF Revocation
  <1> QED  BY <1>3, <1>7, <1>10, <1>11 DEF Directory!Postponed

\* The signature accepted is good by the copy of each mirror that is asked, an honest
\* one's is recent
LEMMA HonestAsked == Directory!Next => (Directory!Heard =>
    \E t \in Directory!Recent : Directory!FilerKeyAt(signature'.key, t, signature'.at))
  <1> SUFFICES ASSUME Directory!Next, Directory!Heard
               PROVE  \E t \in Directory!Recent :
                          Directory!FilerKeyAt(signature'.key, t, signature'.at)
    OBVIOUS
  <1>1. signature' # signature /\ \E m \in truthful : m \in signature'.by
    BY DEF Directory!Heard
  <1>2. Directory!CheckWord
    BY <1>1 DEF Directory!Next, Directory!Tick, Directory!AcceptRegulatorEvent,
                Directory!RotateFilerKey, Directory!RevokeFilerKey
  <1>3. Directory!FilerKeyOfRecord(signature'.key, signature'.at, signature'.by)
    BY <1>2 DEF Directory!CheckWord
  <1>4. PICK m \in truthful : m \in signature'.by
    BY <1>1
  <1>5. \E t \in Directory!Fresh(m) : Directory!FilerKeyAt(signature'.key, t, signature'.at)
    BY <1>3, <1>4 DEF Directory!FilerKeyOfRecord
  <1> QED  BY <1>4, <1>5 DEF Directory!Fresh, Directory!Recent

----------------------------------------------------------------------------
(* Keys and credentials                                                    *)

FcnOn(f, S) == f = [x \in S |-> f[x]]
Spent(control, p) ==
    /\ p \in Challenges => control.rows[p] # NoRow /\ control.rows[p].consumed
    /\ p \in Attestations => p \in control.spent
\* A proof was given by who held the key, in its time
Showed(p, k) ==
    /\ p \in Challenges => <<p, k>> \in answered
    /\ p \in Attestations => Attested[p].key = k

RowType == [key : Keys \cup {k1}, at : Nat, tries : Nat,
            satisfied : BOOLEAN, consumed : BOOLEAN, dead : BOOLEAN]

\* A challenge that was posted has its row, and the row knows when, who answered it and
\* no fewer wrong answers than were told
RowFits(c, row) ==
    IF row = NoRow THEN told[c] = 0 /\ \A p \in posted : p[1] # c
    ELSE /\ \A p \in posted : p[1] = c => p[2] = row.at
         /\ row.satisfied => <<c, row.key>> \in answered
         /\ told[c] <= row.tries
         /\ told[c] < MaxAttempts \/ (told[c] = MaxAttempts /\ row.dead)

RowsFit(control) ==
    /\ control = [rows |-> control.rows, spent |-> control.spent]
    /\ control.rows \in [Challenges -> RowType \cup {NoRow}] /\ control.spent \subseteq Attestations
    /\ \A c \in Challenges : RowFits(c, control.rows[c])

Credentials == [key : Keys \cup {k1}, proof : Proofs \cup {Principal}, old : Nat, at : Nat]
CredFits(c, i) ==
    /\ Showed(c.proof, c.key)
    /\ c.old = None \/ c.old \in 1 .. i - 1
    /\ c.proof = Principal => c.old # None
CredsFit(list) ==
    /\ list \in Seq(Credentials) /\ Len(list) <= MaxCredentials
    /\ \A i \in DOMAIN list : CredFits(list[i], i)

Spends(list, control) == \A i \in DOMAIN list : Spent(control, list[i].proof)
Revoked == [Active EXCEPT !.kind = "REVOKED"]
Superseded == [kind : {"SUPERSEDED"}, heir : Nat \ {0}, grace : Nat, since : {None} \cup Declared]
Heirs(status, list) ==
    /\ status \in [Ids -> {Active, Revoked} \cup Superseded]
    /\ \A i \in Ids : status[i].kind = "SUPERSEDED" =>
          status[i].heir \in DOMAIN list /\ list[status[i].heir].old = i

VenueFits(f) ==
    /\ f = [control |-> f.control, creds |-> f.creds, status |-> f.status, agent |-> f.agent]
    /\ RowsFit(f.control) /\ CredsFit(f.creds)
    /\ Spends(f.creds, f.control) /\ Heirs(f.status, f.creds)
    /\ f.agent.current \in DOMAIN f.creds \cup {None}

\* A request that waits has shown its proof, which is spent when it asks for a rotation
RequestFits(q) ==
    \/ q = NoRequest
    \/ /\ q \in [kind : {"onboard"}, key : Keys, proof : Proofs, at : Nat]
       /\ Showed(q.proof, q.key)
       /\ q.proof \in Challenges => mem.control.rows[q.proof] # NoRow
    \/ q \in [kind : {"present"}, cred : DOMAIN mem.creds]
    \/ /\ q \in [kind : {"rotate"}, key : Keys, proof : Proofs \cup {Principal},
                 old : DOMAIN mem.creds, since : {None} \cup Declared, at : Nat]
       /\ Showed(q.proof, q.key) /\ Spent(mem.control, q.proof)

\* The files are written in this order, and one that is not left to write is written
Plans == {<<>>, <<"control", "creds">>, <<"creds">>, <<"agent">>,
          <<"creds", "status", "agent">>, <<"status", "agent">>,
          <<"creds", "status", "agent", "void">>, <<"status", "agent", "void">>,
          <<"agent", "void">>, <<"void">>}
Left == {unwritten[i] : i \in DOMAIN unwritten}
WritesFit ==
    /\ unwritten \in Plans
    /\ "control" \notin Left => files.control = mem.control
    /\ "creds" \notin Left => files.creds = mem.creds
    /\ "status" \notin Left => files.status = mem.status
    /\ "agent" \notin Left => files.agent = mem.agent
    /\ Len(files.creds) <= Len(mem.creds)
    /\ \A i \in DOMAIN files.creds : files.creds[i] = mem.creds[i]

PostsFit ==
    /\ posted \subseteq Challenges \X Nat /\ CodesRationed
    /\ told \in [Challenges -> Nat]

IdInv ==
    /\ now \in Nat
    /\ VenueFits(mem) /\ VenueFits(files)
    /\ FcnOn(request, Requests) /\ \A r \in Requests : RequestFits(request[r])
    /\ WritesFit /\ PostsFit


USE IdentityAssumption, OnboardedAssumption

LEMMA NoRowApart == NoRow \notin RowType
  <1>1. DOMAIN NoRow = {"key"}
    BY DEF NoRow
  <1>2. \A row \in RowType : "at" \in DOMAIN row
    BY DEF RowType
  <1> QED  BY <1>1, <1>2

AnsweredRow == [key |-> k1, at |-> 1, tries |-> 1, satisfied |-> TRUE, consumed |-> TRUE, dead |-> FALSE]
DeadRow == [key |-> k1, at |-> 1, tries |-> 1, satisfied |-> FALSE, consumed |-> FALSE, dead |-> TRUE]

LEMMA UsedUp ==
    /\ \A d : d # 1 => Used(d # 1) = DeadRow
    /\ Used(1 # 1) = AnsweredRow
    /\ DeadRow \in RowType /\ DeadRow # NoRow /\ DeadRow.tries = 1 /\ ~DeadRow.satisfied
    /\ AnsweredRow \in RowType /\ AnsweredRow # NoRow /\ AnsweredRow.tries = 1
    /\ AnsweredRow.key = k1 /\ AnsweredRow.consumed
  <1>1. Used(TRUE) = DeadRow
    BY DEF Used, DeadRow
  <1>2. Used(FALSE) = AnsweredRow
    BY DEF Used, AnsweredRow
  <1>3. ASSUME NEW d, d # 1 PROVE Used(d # 1) = DeadRow
    <2>1. (d # 1) = TRUE
      BY <1>3
    <2> QED  BY <1>1, <2>1, Zenon
  <1>4. Used(1 # 1) = AnsweredRow
    <2>1. (1 # 1) = FALSE
      OBVIOUS
    <2> QED  BY <1>2, <2>1, Zenon
  <1>5. DeadRow \in RowType /\ DeadRow.tries = 1 /\ ~DeadRow.satisfied
    BY DEF DeadRow, RowType
  <1>6. /\ AnsweredRow \in RowType /\ AnsweredRow.tries = 1
        /\ AnsweredRow.key = k1 /\ AnsweredRow.consumed
    BY DEF AnsweredRow, RowType
  <1> QED  BY <1>3, <1>4, <1>5, <1>6, NoRowApart

\* The onboarded company starts with one challenge answered, and its proof spent
LEMMA OnboardedFits ==
    ASSUME StartsWith(Onboarded, NoDeal, {<<1, k1>>})
    PROVE  IdInv
  <1> DEFINE c == [key |-> k1, proof |-> 1, old |-> None, at |-> 1]
  <1>1. /\ now = 1 /\ mem = Onboarded /\ files = Onboarded /\ unwritten = <<>>
        /\ request = [r \in Requests |-> NoRequest]
        /\ posted = {} /\ told = [d \in Challenges |-> 0] /\ answered = {<<1, k1>>}
    BY DEF StartsWith
  <1>2. /\ Onboarded = [control |-> Onboarded.control, creds |-> Onboarded.creds,
                        status |-> Onboarded.status, agent |-> Onboarded.agent]
        /\ Onboarded.control = [rows |-> [d \in Challenges |-> Used(d # 1)], spent |-> {}]
        /\ Onboarded.creds = <<c>> /\ Onboarded.status = [i \in Ids |-> Active]
        /\ Onboarded.agent.current = 1
    <2> DEFINE table == [d \in Challenges |-> Used(d # 1)]
               none == [d \in Challenges |-> NoRow]
               statuses == [i \in Ids |-> Active]
               list == <<c>>
               venue == [control |-> [rows |-> none, spent |-> {}], creds |-> <<>>,
                         status |-> statuses, agent |-> [current |-> None, previous |-> {}]]
    <2>1. NewVenue = venue
      BY DEF NewVenue
    <2>2. Onboarded = [venue EXCEPT !.control.rows = table, !.creds = list, !.agent.current = 1]
      <3> HIDE DEF venue
      <3> QED  BY <2>1, Zenon DEF Onboarded
    <2> HIDE DEF table, none, statuses, list
    <2>3. venue.control = [rows |-> none, spent |-> {}] /\ venue.agent = [current |-> None, previous |-> {}]
      OBVIOUS
    <2>4. /\ [venue.control EXCEPT !.rows = table] = [rows |-> table, spent |-> {}]
          /\ [venue.agent EXCEPT !.current = 1] = [current |-> 1, previous |-> {}]
      BY <2>3
    <2>5. Onboarded = [control |-> [rows |-> table, spent |-> {}], creds |-> list,
                       status |-> statuses, agent |-> [current |-> 1, previous |-> {}]]
      BY <2>2, <2>4
    <2> QED  BY <2>5 DEF table, list, statuses
  <1>3. ASSUME NEW d \in Challenges
        PROVE  RowFits(d, Used(d # 1)) /\ Used(d # 1) # NoRow /\ Used(d # 1) \in RowType
    <2>1. CASE d = 1
      <3>1. Used(d # 1) = AnsweredRow
        BY <2>1, UsedUp, Zenon
      <3> QED  BY <1>1, <2>1, <3>1, UsedUp DEF RowFits
    <2>2. CASE d # 1
      <3>1. Used(d # 1) = DeadRow
        BY <2>2, UsedUp, Zenon
      <3> QED  BY <1>1, <2>2, <3>1, UsedUp DEF RowFits
    <2> QED  BY <2>1, <2>2
  <1>4. RowsFit(Onboarded.control)
    BY <1>2, <1>3 DEF RowsFit
  <1>5. Used(1 # 1).consumed
    BY UsedUp
  <1>6. Spent(Onboarded.control, 1)
    BY <1>2, <1>3, <1>5 DEF Spent
  <1>7. c \in Credentials /\ CredFits(c, 1) /\ c.proof = 1
    BY <1>1 DEF Credentials, CredFits, Showed, Proofs, Principal, None
  <1> HIDE DEF c
  <1>8. CredsFit(Onboarded.creds) /\ Spends(Onboarded.creds, Onboarded.control)
    <2>1. DOMAIN Onboarded.creds = {1} /\ Onboarded.creds[1] = c
      BY <1>2
    <2>2. Onboarded.creds \in Seq(Credentials) /\ Len(Onboarded.creds) = 1
      BY <1>2, <1>7
    <2> QED  BY <1>6, <1>7, <2>1, <2>2 DEF CredsFit, Spends
  <1>9. Heirs(Onboarded.status, Onboarded.creds)
    BY <1>2 DEF Heirs, Active
  <1>10. VenueFits(Onboarded)
    BY <1>2, <1>4, <1>8, <1>9 DEF VenueFits
  <1>11. WritesFit
    BY <1>1, <1>2, <1>7 DEF WritesFit, Plans, CredsFit
  <1>12. PostsFit
    BY <1>1 DEF PostsFit, CodesRationed
  <1>13. \A r \in Requests : RequestFits(request[r])
    BY <1>1 DEF RequestFits
  <1> QED  BY <1>1, <1>10, <1>11, <1>12, <1>13 DEF IdInv, FcnOn

LEMMA NewFits ==
    ASSUME StartsWith(NewVenue, NoDealAhead, {})
    PROVE  IdInv
  <1>1. /\ now = 1 /\ mem = NewVenue /\ files = NewVenue /\ unwritten = <<>>
        /\ request = [r \in Requests |-> NoRequest]
        /\ posted = {} /\ told = [d \in Challenges |-> 0] /\ answered = {}
    BY DEF StartsWith
  <1>2. /\ NewVenue = [control |-> NewVenue.control, creds |-> NewVenue.creds,
                       status |-> NewVenue.status, agent |-> NewVenue.agent]
        /\ NewVenue.control = [rows |-> [d \in Challenges |-> NoRow], spent |-> {}]
        /\ NewVenue.creds = <<>> /\ NewVenue.status = [i \in Ids |-> Active]
        /\ NewVenue.agent.current = None
    BY DEF NewVenue
  <1>3. RowsFit(NewVenue.control)
    BY <1>1, <1>2 DEF RowsFit, RowFits
  <1>4. CredsFit(NewVenue.creds) /\ Spends(NewVenue.creds, NewVenue.control)
    BY <1>2 DEF CredsFit, Spends
  <1>5. Heirs(NewVenue.status, NewVenue.creds)
    BY <1>2 DEF Heirs, Active
  <1>6. VenueFits(NewVenue)
    BY <1>2, <1>3, <1>4, <1>5 DEF VenueFits
  <1>7. WritesFit
    BY <1>1, <1>2 DEF WritesFit, Plans
  <1>8. PostsFit
    BY <1>1 DEF PostsFit, CodesRationed
  <1>9. \A r \in Requests : RequestFits(request[r])
    BY <1>1 DEF RequestFits
  <1> QED  BY <1>1, <1>6, <1>7, <1>8, <1>9 DEF IdInv, FcnOn

\* When no handler is at work the files are the memory
LEMMA ServingSame ==
    ASSUME IdInv, Serving
    PROVE  files = mem /\ Left = {}
  <1>1. Left = {}
    BY DEF Serving, Left
  <1>2. /\ files.control = mem.control /\ files.creds = mem.creds
        /\ files.status = mem.status /\ files.agent = mem.agent
    BY <1>1 DEF IdInv, WritesFit
  <1> QED  BY <1>1, <1>2 DEF IdInv, VenueFits

\* A request that waits is not touched by proofs shown and spent and credentials issued
LEMMA RequestKept ==
    ASSUME NEW q, RequestFits(q), answered \subseteq answered',
           DOMAIN mem.creds \subseteq DOMAIN mem'.creds,
           \A p \in Proofs : Spent(mem.control, p) => Spent(mem'.control, p),
           \A c \in Challenges : mem.control.rows[c] # NoRow => mem'.control.rows[c] # NoRow
    PROVE  RequestFits(q)'
  <1>1. ASSUME NEW p, NEW k, Showed(p, k) PROVE Showed(p, k)'
    BY <1>1 DEF Showed
  <1>2. Spent(mem.control, Principal) /\ Spent(mem'.control, Principal)
    BY DEF Spent, Principal
  <1>3. CASE q = NoRequest
    BY <1>3 DEF RequestFits
  <1>4. CASE /\ q \in [kind : {"onboard"}, key : Keys, proof : Proofs, at : Nat]
             /\ Showed(q.proof, q.key)
             /\ q.proof \in Challenges => mem.control.rows[q.proof] # NoRow
    <2>1. Showed(q.proof, q.key)' /\ (q.proof \in Challenges => mem'.control.rows[q.proof] # NoRow)
      BY <1>1, <1>4
    <2> QED  BY <1>4, <2>1 DEF RequestFits
  <1>5. CASE q \in [kind : {"present"}, cred : DOMAIN mem.creds]
    <2>1. q \in [kind : {"present"}, cred : DOMAIN mem'.creds]
      BY <1>5
    <2> QED  BY <2>1 DEF RequestFits
  <1>6. CASE /\ q \in [kind : {"rotate"}, key : Keys, proof : Proofs \cup {Principal},
                       old : DOMAIN mem.creds, since : {None} \cup Declared, at : Nat]
             /\ Showed(q.proof, q.key) /\ Spent(mem.control, q.proof)
    <2>1. q \in [kind : {"rotate"}, key : Keys, proof : Proofs \cup {Principal},
                 old : DOMAIN mem'.creds, since : {None} \cup Declared, at : Nat]
      BY <1>6
    <2>2. Showed(q.proof, q.key)' /\ Spent(mem'.control, q.proof)
      BY <1>1, <1>2, <1>6, <2>1
    <2>3. Spent(mem.control, q.proof)'
      BY <2>2 DEF Spent
    <2> QED  BY <2>1, <2>2, <2>3 DEF RequestFits
  <1> QED  BY <1>3, <1>4, <1>5, <1>6 DEF RequestFits

\* The challenges change, and no proof that was spent comes back
LEMMA ControlSaved ==
    ASSUME IdInv, Serving, UNCHANGED unwritten, NEW control, Saved(control), RowsFit(control)',
           answered \subseteq answered',
           \A p \in Proofs : Spent(mem.control, p) => Spent(control, p)
    PROVE  /\ VenueFits(mem)' /\ VenueFits(files)' /\ WritesFit'
           /\ mem'.control = control /\ mem'.creds = mem.creds
  <1>1. /\ mem = [control |-> mem.control, creds |-> mem.creds, status |-> mem.status,
                  agent |-> mem.agent]
        /\ files = mem /\ Left = {}
    BY ServingSame DEF IdInv, VenueFits
  <1>2. mem' = [control |-> control, creds |-> mem.creds, status |-> mem.status, agent |-> mem.agent]
    BY <1>1 DEF Saved
  <1>3. files' = mem'
    BY <1>1 DEF Saved
  <1>4. /\ CredsFit(mem.creds) /\ Spends(mem.creds, mem.control)
        /\ Heirs(mem.status, mem.creds) /\ mem.agent.current \in DOMAIN mem.creds \cup {None}
    BY DEF IdInv, VenueFits
  <1>5. \A p, k : Showed(p, k) => Showed(p, k)'
    BY DEF Showed
  <1>6. \A c : \A i : CredFits(c, i) => CredFits(c, i)'
    BY <1>5 DEF CredFits
  <1>7. CredsFit(mem.creds)'
    BY <1>2, <1>4, <1>6 DEF CredsFit
  <1>8. \A i \in DOMAIN mem.creds : Spent(control, mem.creds[i].proof)
    <2> SUFFICES ASSUME NEW i \in DOMAIN mem.creds PROVE Spent(control, mem.creds[i].proof)
      OBVIOUS
    <2>1. CASE mem.creds[i].proof \in Proofs
      BY <1>4, <2>1 DEF Spends
    <2>2. CASE mem.creds[i].proof \notin Proofs
      BY <2>2 DEF Spent, Proofs
    <2> QED  BY <2>1, <2>2
  <1>9. Spends(mem.creds, mem.control)'
    BY <1>2, <1>8 DEF Spends, Spent
  <1>10. Heirs(mem.status, mem.creds)' /\ mem'.agent.current \in DOMAIN mem'.creds \cup {None}
    BY <1>2, <1>4 DEF Heirs
  <1>11. RowsFit(mem.control)'
    BY <1>2 DEF RowsFit, RowFits
  <1>12. VenueFits(mem)'
    BY <1>2, <1>7, <1>9, <1>10, <1>11 DEF VenueFits
  <1>13. VenueFits(files)'
    <2>1. RowsFit(files.control)'
      BY <1>3, <1>11 DEF RowsFit, RowFits
    <2>2. CredsFit(files.creds)'
      BY <1>2, <1>3, <1>7, ZenonT(60) DEF CredsFit, CredFits, Showed
    <2>3. Spends(files.creds, files.control)'
      BY <1>2, <1>3, <1>9 DEF Spends, Spent
    <2>4. Heirs(files.status, files.creds)'
      BY <1>3, <1>10 DEF Heirs
    <2> QED  BY <1>2, <1>3, <1>10, <2>1, <2>2, <2>3, <2>4 DEF VenueFits
  <1>14. WritesFit'
    <2>1. Len(mem.creds) \in Nat
      BY <1>4, LenProperties DEF CredsFit
    <2>2. unwritten' \in Plans /\ Left' = {}
      BY <1>1 DEF IdInv, WritesFit, Left
    <2> QED  BY <1>2, <1>3, <2>1, <2>2 DEF WritesFit
  <1> QED  BY <1>2, <1>12, <1>13, <1>14

\* One row changes, and is consumed as before
LEMMA RowSaved ==
    ASSUME IdInv, NEW c \in Challenges, NEW row \in RowType, NEW control,
           control = [mem.control EXCEPT !.rows[c] = row],
           RowFits(c, row)',
           \A d \in Challenges : \A v : d # c /\ RowFits(d, v) => RowFits(d, v)',
           Spent(mem.control, c) => row.consumed
    PROVE  /\ RowsFit(control)'
           /\ \A p \in Proofs : Spent(mem.control, p) => Spent(control, p)
           /\ \A d \in Challenges : mem.control.rows[d] # NoRow => control.rows[d] # NoRow
  <1>1. /\ mem.control = [rows |-> mem.control.rows, spent |-> mem.control.spent]
        /\ mem.control.rows \in [Challenges -> RowType \cup {NoRow}]
        /\ mem.control.spent \subseteq Attestations
        /\ \A d \in Challenges : RowFits(d, mem.control.rows[d])
    BY DEF IdInv, VenueFits, RowsFit
  <1>2. /\ control = [rows |-> control.rows, spent |-> mem.control.spent]
        /\ control.rows = [mem.control.rows EXCEPT ![c] = row]
    BY <1>1
  <1>3. /\ control.rows \in [Challenges -> RowType \cup {NoRow}] /\ control.rows[c] = row
        /\ \A d \in Challenges : d # c => control.rows[d] = mem.control.rows[d]
    BY <1>1, <1>2
  <1>4. ASSUME NEW d \in Challenges PROVE RowFits(d, control.rows[d])'
    <2> DEFINE v == control.rows[d]
    <2>1. RowFits(d, v)'
      <3>1. CASE d = c
        BY <1>3, <3>1 DEF RowFits
      <3>2. CASE d # c
        BY <1>1, <1>3, <3>2
      <3> QED  BY <3>1, <3>2
    <2> QED  BY <2>1
  <1>5. RowsFit(control)'
    BY <1>1, <1>2, <1>3, <1>4 DEF RowsFit
  <1>6. row # NoRow
    BY NoRowApart
  <1>7. ASSUME NEW p \in Proofs, Spent(mem.control, p) PROVE Spent(control, p)
    <2>1. CASE p = c
      BY <1>2, <1>3, <1>6, <1>7, <2>1 DEF Spent
    <2>2. CASE p # c
      BY <1>2, <1>3, <1>7, <2>2 DEF Spent
    <2> QED  BY <2>1, <2>2
  <1>8. ASSUME NEW d \in Challenges, mem.control.rows[d] # NoRow PROVE control.rows[d] # NoRow
    BY <1>3, <1>6, <1>8
  <1> QED  BY <1>5, <1>7, <1>8

\* A challenge is posted a cooldown after all that were
LEMMA PostStep ==
    ASSUME IdInv, NEW k \in Keys, NEW at \in 1 .. MaxTime, PostChallenge(k, at)
    PROVE  IdInv'
  <1> DEFINE Row0 == [key |-> k, at |-> at, tries |-> 0,
                      satisfied |-> FALSE, consumed |-> FALSE, dead |-> FALSE]
  <1>1. PICK c \in Challenges \ Sent :
            /\ Saved([mem.control EXCEPT !.rows[c] = Row0])
            /\ posted' = posted \cup {<<c, at>>}
    BY DEF PostChallenge
  <1>2. /\ Serving /\ Cooled(at) /\ at \in Nat
        /\ UNCHANGED <<now, unwritten, request, told, answered>>
    BY DEF PostChallenge
  <1>3. /\ Row0 \in RowType /\ Row0.at = at /\ ~Row0.satisfied /\ Row0.tries = 0
    BY <1>2 DEF RowType
  <1> HIDE DEF Row0
  <1>4. mem.control.rows[c] = NoRow /\ RowFits(c, NoRow)
    BY DEF Sent, IdInv, VenueFits, RowsFit
  <1>5. told[c] = 0 /\ \A p \in posted : p[1] # c
    BY <1>4 DEF RowFits
  <1>6. RowFits(c, Row0)'
    BY <1>1, <1>2, <1>3, <1>5, NoRowApart DEF RowFits
  <1>7. \A d \in Challenges : \A v : d # c /\ RowFits(d, v) => RowFits(d, v)'
    BY <1>1, <1>2 DEF RowFits
  <1>8. ~Spent(mem.control, c)
    BY <1>4 DEF Spent
  <1>9. PICK control : control = [mem.control EXCEPT !.rows[c] = Row0]
    OBVIOUS
  <1>10. /\ RowsFit(control)'
         /\ \A p \in Proofs : Spent(mem.control, p) => Spent(control, p)
         /\ \A d \in Challenges : mem.control.rows[d] # NoRow => control.rows[d] # NoRow
    BY <1>3, <1>6, <1>7, <1>8, <1>9, RowSaved
  <1>11. /\ VenueFits(mem)' /\ VenueFits(files)' /\ WritesFit'
         /\ mem'.control = control /\ mem'.creds = mem.creds
    BY <1>1, <1>2, <1>9, <1>10, ControlSaved
  <1>12. ASSUME NEW q, RequestFits(q) PROVE RequestFits(q)'
    BY <1>2, <1>10, <1>11, <1>12, RequestKept
  <1>13. \A r \in Requests : RequestFits(request[r])'
    BY <1>2, <1>12 DEF IdInv
  <1>14. PostsFit'
    <2>1. posted' \subseteq Challenges \X Nat /\ told' \in [Challenges -> Nat]
      BY <1>1, <1>2 DEF IdInv, PostsFit
    <2>2. ASSUME NEW p \in posted PROVE at >= p[2] + Cooldown
      <3>1. p[1] \in Challenges /\ RowFits(p[1], mem.control.rows[p[1]])
        BY DEF IdInv, PostsFit, VenueFits, RowsFit
      <3>2. mem.control.rows[p[1]] # NoRow /\ p[2] = mem.control.rows[p[1]].at
        BY <3>1 DEF RowFits
      <3> QED  BY <1>2, <3>1, <3>2 DEF Cooled, Counted, Sent
    <2>3. <<c, at>>[2] = at
      OBVIOUS
    <2>4. CodesRationed'
      BY <1>1, <2>2, <2>3 DEF IdInv, PostsFit, CodesRationed
    <2> QED  BY <2>1, <2>4 DEF PostsFit
  <1> QED  BY <1>2, <1>11, <1>13, <1>14 DEF IdInv, FcnOn

\* A guess that is told to be wrong is counted, and the last one kills
LEMMA VerifyStep ==
    ASSUME IdInv, NEW c \in Challenges, NEW right \in BOOLEAN, Verify(c, right)
    PROVE  IdInv'
  <1>0. PICK row : row = mem.control.rows[c]
    OBVIOUS
  <1>1. /\ Serving /\ row # NoRow /\ ~row.dead /\ ~row.consumed
        /\ UNCHANGED <<now, unwritten, request, posted>>
    BY <1>0 DEF Verify, Sent, Open
  <1>2. row \in RowType /\ RowFits(c, row)
    BY <1>0, <1>1 DEF IdInv, VenueFits, RowsFit
  <1>3. told \in [Challenges -> Nat]
    BY DEF IdInv, PostsFit
  <1>4. /\ \A p \in posted : p[1] = c => p[2] = row.at
        /\ row.satisfied => <<c, row.key>> \in answered
        /\ told[c] <= row.tries /\ told[c] < MaxAttempts
    BY <1>1, <1>2 DEF RowFits
  <1>5. \E new \in RowType :
            /\ Saved([mem.control EXCEPT !.rows[c] = new])
            /\ RowFits(c, new)'
            /\ answered \subseteq answered' /\ told' \in [Challenges -> Nat]
            /\ \A d \in Challenges : \A v : d # c /\ RowFits(d, v) => RowFits(d, v)'
    <2>1. CASE /\ Saved([mem.control EXCEPT !.rows[c] = [row EXCEPT !.dead = TRUE]])
               /\ UNCHANGED <<told, answered>>
      <3> DEFINE new == [row EXCEPT !.dead = TRUE]
      <3>1. /\ new \in RowType /\ new.at = row.at /\ new.satisfied = row.satisfied
            /\ new.key = row.key /\ new.tries = row.tries
        BY <1>2 DEF RowType
      <3> HIDE DEF new
      <3>2. RowFits(c, new)'
        BY <1>1, <1>4, <2>1, <3>1, NoRowApart DEF RowFits
      <3>3. \A d \in Challenges : \A v : d # c /\ RowFits(d, v) => RowFits(d, v)'
        BY <1>1, <2>1 DEF RowFits
      <3> QED  BY <1>3, <2>1, <3>1, <3>2, <3>3 DEF new
    <2>2. CASE /\ Saved([mem.control EXCEPT !.rows[c] = Right(row)])
               /\ told' = told /\ answered' = answered \cup {<<c, row.key>>}
      <3> DEFINE new == Right(row)
      <3>1. /\ new \in RowType /\ new.at = row.at
            /\ new.key = row.key /\ new.tries = row.tries + 1
        <4>1. new = [row EXCEPT !.satisfied = TRUE, !.tries = row.tries + 1] /\ row.tries + 1 \in Nat
          BY <1>2 DEF RowType, Right
        <4> HIDE DEF new
        <4>2. new \in RowType
          BY <1>2, <4>1 DEF RowType
        <4> QED  BY <1>2, <4>1, <4>2 DEF RowType
      <3> HIDE DEF new
      <3>2. RowFits(c, new)'
        BY <1>1, <1>2, <1>3, <1>4, <2>2, <3>1, NoRowApart DEF RowFits, RowType
      <3>3. \A d \in Challenges : \A v : d # c /\ RowFits(d, v) => RowFits(d, v)'
        BY <1>1, <2>2 DEF RowFits
      <3> QED  BY <1>3, <2>2, <3>1, <3>2, <3>3 DEF new
    <2>3. CASE /\ Saved([mem.control EXCEPT !.rows[c] = Wrong(row)])
               /\ told' = [told EXCEPT ![c] = @ + 1] /\ answered' = answered
      <3> DEFINE new == Wrong(row)
      <3>1. /\ new.at = row.at /\ new.satisfied = row.satisfied
            /\ new.key = row.key /\ new.tries = row.tries + 1 /\ row.tries \in Nat
        BY <1>2 DEF RowType, Wrong
      <3>2. new.dead <=> row.tries + 1 >= MaxAttempts
        <4> DEFINE dying == row.tries + 1 >= MaxAttempts
        <4>1. new = [row EXCEPT !.tries = row.tries + 1, !.dead = dying]
          BY <1>2 DEF RowType, Wrong
        <4> HIDE DEF new, dying
        <4>2. new.dead = dying
          BY <1>2, <4>1 DEF RowType
        <4> QED  BY <4>2, Zenon DEF dying
      <3>3. new \in RowType
        <4> DEFINE dying == row.tries + 1 >= MaxAttempts
        <4>1. new = [row EXCEPT !.tries = row.tries + 1, !.dead = dying]
          BY <1>2 DEF RowType, Wrong
        <4>2. dying \in BOOLEAN
          OBVIOUS
        <4>3. row.tries + 1 \in Nat
          BY <3>1
        <4> HIDE DEF new, dying
        <4> QED  BY <1>2, <4>1, <4>2, <4>3 DEF RowType
      <3> HIDE DEF new
      <3>4. told'[c] = told[c] + 1 /\ told[c] \in Nat /\ told' \in [Challenges -> Nat]
        BY <1>3, <2>3
      <3>5. told'[c] < MaxAttempts \/ (told'[c] = MaxAttempts /\ new.dead)
        BY <1>4, <3>1, <3>2, <3>4
      <3>6. RowFits(c, new)'
        BY <1>1, <1>4, <2>3, <3>1, <3>3, <3>4, <3>5, NoRowApart DEF RowFits
      <3>7. \A d \in Challenges : \A v : d # c /\ RowFits(d, v) => RowFits(d, v)'
        BY <1>1, <1>3, <2>3 DEF RowFits
      <3> QED  BY <2>3, <3>3, <3>4, <3>6, <3>7 DEF new
    <2> QED  BY <1>0, <2>1, <2>2, <2>3 DEF Verify
  <1>6. PICK new \in RowType :
            /\ Saved([mem.control EXCEPT !.rows[c] = new])
            /\ RowFits(c, new)'
            /\ answered \subseteq answered' /\ told' \in [Challenges -> Nat]
            /\ \A d \in Challenges : \A v : d # c /\ RowFits(d, v) => RowFits(d, v)'
    BY <1>5
  <1>7. ~Spent(mem.control, c)
    BY <1>0, <1>1 DEF Spent
  <1>8. PICK control : control = [mem.control EXCEPT !.rows[c] = new]
    OBVIOUS
  <1>9. /\ RowsFit(control)'
        /\ \A p \in Proofs : Spent(mem.control, p) => Spent(control, p)
        /\ \A d \in Challenges : mem.control.rows[d] # NoRow => control.rows[d] # NoRow
    BY <1>6, <1>7, <1>8, RowSaved
  <1>10. /\ VenueFits(mem)' /\ VenueFits(files)' /\ WritesFit'
         /\ mem'.control = control /\ mem'.creds = mem.creds
    BY <1>1, <1>6, <1>8, <1>9, ControlSaved
  <1>11. ASSUME NEW q, RequestFits(q) PROVE RequestFits(q)'
    BY <1>6, <1>9, <1>10, <1>11, RequestKept
  <1>12. \A r \in Requests : RequestFits(request[r])'
    BY <1>1, <1>11 DEF IdInv
  <1>13. PostsFit'
    BY <1>1, <1>6 DEF IdInv, PostsFit, CodesRationed
  <1> QED  BY <1>1, <1>10, <1>12, <1>13 DEF IdInv, FcnOn

\* A proof that is taken was given for the key
LEMMA ProofTaken ==
    ASSUME IdInv, NEW p \in Proofs, NEW k \in Keys, EvaluateControl(p, k)
    PROVE  Showed(p, k) /\ (p \in Challenges => mem.control.rows[p] # NoRow)
  <1>1. CASE p \in Challenges
    <2>1. mem.control.rows[p] # NoRow /\ mem.control.rows[p].satisfied
          /\ mem.control.rows[p].key = k
      BY <1>1 DEF EvaluateControl, BoundTo, Sent
    <2>2. RowFits(p, mem.control.rows[p])
      BY <1>1 DEF IdInv, VenueFits, RowsFit
    <2> QED  BY <1>1, <2>1, <2>2 DEF Showed, RowFits
  <1>2. CASE p \in Attestations
    BY <1>2 DEF EvaluateControl, BoundTo, Showed
  <1> QED  BY <1>1, <1>2 DEF Proofs

\* Spending a proof brings none back
LEMMA Consumed ==
    ASSUME IdInv, NEW p \in Proofs, p \in Challenges => mem.control.rows[p] # NoRow,
           UNCHANGED history, NEW control, control = Consume(mem.control, p)
    PROVE  /\ RowsFit(control)' /\ Spent(control, p)
           /\ \A o \in Proofs : Spent(mem.control, o) => Spent(control, o)
           /\ \A d \in Challenges : mem.control.rows[d] # NoRow => control.rows[d] # NoRow
  <1>0. UNCHANGED <<posted, told, answered>>
    BY DEF history
  <1>1. /\ mem.control = [rows |-> mem.control.rows, spent |-> mem.control.spent]
        /\ mem.control.rows \in [Challenges -> RowType \cup {NoRow}]
        /\ mem.control.spent \subseteq Attestations
        /\ \A d \in Challenges : RowFits(d, mem.control.rows[d])
    BY DEF IdInv, VenueFits, RowsFit
  <1>2. CASE p \in Challenges
    <2>0. PICK row : row = mem.control.rows[p]
      OBVIOUS
    <2> DEFINE new == [row EXCEPT !.consumed = TRUE]
    <2>1. row \in RowType /\ row # NoRow /\ RowFits(p, row)
      BY <1>1, <1>2, <2>0
    <2>2. control = [mem.control EXCEPT !.rows[p] = new]
      <3>1. control = [mem.control EXCEPT !.rows[p].consumed = TRUE]
        BY <1>2 DEF Consume
      <3> QED  BY <1>1, <1>2, <2>0, <3>1
    <2>3. /\ new \in RowType /\ new.at = row.at /\ new.satisfied = row.satisfied
          /\ new.key = row.key /\ new.tries = row.tries /\ new.dead = row.dead /\ new.consumed
      BY <2>1 DEF RowType
    <2> HIDE DEF new
    <2>4. RowFits(p, new)'
      BY <1>0, <2>1, <2>3, NoRowApart DEF RowFits
    <2>5. \A d \in Challenges : \A v : d # p /\ RowFits(d, v) => RowFits(d, v)'
      BY <1>0 DEF RowFits
    <2>9. new \in RowType /\ (Spent(mem.control, p) => new.consumed)
      BY <2>3
    <2>6. /\ RowsFit(control)'
          /\ \A o \in Proofs : Spent(mem.control, o) => Spent(control, o)
          /\ \A d \in Challenges : mem.control.rows[d] # NoRow => control.rows[d] # NoRow
      BY <1>2, <2>2, <2>4, <2>5, <2>9, RowSaved
    <2>7. control.rows[p] = new /\ p \notin Attestations
      BY <1>1, <1>2, <2>2
    <2>8. Spent(control, p)
      BY <2>3, <2>7, NoRowApart DEF Spent
    <2> QED  BY <2>6, <2>8
  <1>3. CASE p \notin Challenges
    <2>1. p \in Attestations /\ control = [mem.control EXCEPT !.spent = @ \cup {p}]
      BY <1>3 DEF Consume, Proofs
    <2>2. control = [rows |-> mem.control.rows, spent |-> mem.control.spent \cup {p}]
      BY <1>1, <2>1
    <2>3. control.rows = mem.control.rows /\ control.spent = mem.control.spent \cup {p}
      BY <2>2
    <2>4. \A d \in Challenges : \A v : RowFits(d, v) => RowFits(d, v)'
      BY <1>0 DEF RowFits
    <2>5. \A d \in Challenges : RowFits(d, control.rows[d])'
      <3> SUFFICES ASSUME NEW d \in Challenges PROVE RowFits(d, control.rows[d])'
        OBVIOUS
      <3> DEFINE v == control.rows[d]
      <3>1. RowFits(d, v)
        BY <1>1, <2>3
      <3> HIDE DEF v
      <3>2. RowFits(d, v)'
        BY <2>4, <3>1
      <3> QED  BY <3>2 DEF v
    <2>6. RowsFit(control)'
      BY <1>1, <2>1, <2>2, <2>3, <2>5 DEF RowsFit
    <2> QED  BY <1>3, <2>1, <2>3, <2>6 DEF Spent
  <1> QED  BY <1>2, <1>3

\* What is known of a venue does not depend on where it is
LEMMA FitsThere ==
    ASSUME NEW v, VenueFits(v)'
    PROVE  /\ mem' = v => VenueFits(mem)'
           /\ files' = v => VenueFits(files)'
  <1>1. /\ v = [control |-> v.control, creds |-> v.creds, status |-> v.status, agent |-> v.agent]
        /\ RowsFit(v.control)' /\ CredsFit(v.creds)'
        /\ Spends(v.creds, v.control)' /\ Heirs(v.status, v.creds)'
        /\ v.agent.current \in DOMAIN v.creds \cup {None}
    BY DEF VenueFits
  <1>2. ASSUME mem' = v PROVE VenueFits(mem)'
    <2>1. RowsFit(mem.control)'
      BY <1>1, <1>2 DEF RowsFit, RowFits
    <2>2. CredsFit(mem.creds)'
      BY <1>1, <1>2 DEF CredsFit, CredFits, Showed
    <2>3. Spends(mem.creds, mem.control)'
      BY <1>1, <1>2 DEF Spends, Spent
    <2>4. Heirs(mem.status, mem.creds)'
      BY <1>1, <1>2 DEF Heirs
    <2> QED  BY <1>1, <1>2, <2>1, <2>2, <2>3, <2>4 DEF VenueFits
  <1>3. ASSUME files' = v PROVE VenueFits(files)'
    <2>1. RowsFit(files.control)'
      BY <1>1, <1>3 DEF RowsFit, RowFits
    <2>2. CredsFit(files.creds)'
      BY <1>1, <1>3 DEF CredsFit, CredFits, Showed
    <2>3. Spends(files.creds, files.control)'
      BY <1>1, <1>3 DEF Spends, Spent
    <2>4. Heirs(files.status, files.creds)'
      BY <1>1, <1>3 DEF Heirs
    <2> QED  BY <1>1, <1>3, <2>1, <2>2, <2>3, <2>4 DEF VenueFits
  <1> QED  BY <1>2, <1>3

LEMMA FitsStill ==
    ASSUME UNCHANGED history
    PROVE  /\ \A v : VenueFits(v) => VenueFits(v)'
           /\ \A v : RowsFit(v) => RowsFit(v)'
           /\ \A v : CredsFit(v) => CredsFit(v)'
           /\ \A c, i : CredFits(c, i) => CredFits(c, i)'
           /\ \A p, k : Showed(p, k) => Showed(p, k)'
  <1>1. UNCHANGED <<posted, told, answered>>
    BY DEF history
  <1>2. \A v : RowsFit(v) => RowsFit(v)'
    BY <1>1 DEF RowsFit, RowFits
  <1>3. \A p, k : Showed(p, k) => Showed(p, k)'
    BY <1>1 DEF Showed
  <1>4. \A c, i : CredFits(c, i) => CredFits(c, i)'
    BY <1>3 DEF CredFits
  <1>5. \A v : CredsFit(v) => CredsFit(v)'
    BY <1>4 DEF CredsFit
  <1>6. \A v : VenueFits(v) => VenueFits(v)'
    <2> SUFFICES ASSUME NEW v, VenueFits(v) PROVE VenueFits(v)'
      OBVIOUS
    <2>1. RowsFit(v.control)' /\ CredsFit(v.creds)'
      BY <1>2, <1>5 DEF VenueFits
    <2>2. Spends(v.creds, v.control)' /\ Heirs(v.status, v.creds)'
      BY DEF VenueFits, Spends, Spent, Heirs
    <2> QED  BY <2>1, <2>2 DEF VenueFits
  <1> QED  BY <1>2, <1>3, <1>4, <1>5, <1>6

\* Nothing that is known changes
LEMMA NothingNew ==
    ASSUME IdInv, UNCHANGED <<mem, files, unwritten, history>>
    PROVE  /\ VenueFits(mem)' /\ VenueFits(files)' /\ WritesFit' /\ PostsFit'
           /\ \A q : RequestFits(q) => RequestFits(q)'
  <1>0. UNCHANGED <<posted, told, answered>>
    BY DEF history
  <1>1. PICK m : m = mem
    OBVIOUS
  <1>2. PICK f : f = files
    OBVIOUS
  <1>3. VenueFits(m) /\ VenueFits(f)
    BY <1>1, <1>2 DEF IdInv
  <1>4. VenueFits(m)' /\ VenueFits(f)'
    BY <1>3, FitsStill
  <1>5. VenueFits(mem)' /\ VenueFits(files)'
    BY <1>1, <1>2, <1>4, FitsThere
  <1>6. WritesFit' /\ PostsFit'
    BY <1>0 DEF IdInv, WritesFit, Left, PostsFit, CodesRationed
  <1>7. ASSUME NEW q, RequestFits(q) PROVE RequestFits(q)'
    <2>1. \A p \in Proofs : Spent(mem.control, p) => Spent(mem'.control, p)
      OBVIOUS
    <2> QED  BY <1>0, <1>7, <2>1, RequestKept
  <1> QED  BY <1>5, <1>6, <1>7

LEMMA OnboardStep ==
    ASSUME IdInv, NEW r \in Requests, NEW k \in Keys, NEW p \in Proofs, Onboard(r, k, p)
    PROVE  IdInv'
  <1> DEFINE q == [kind |-> "onboard", key |-> k, proof |-> p, at |-> now]
  <1>1. /\ EvaluateControl(p, k) /\ request' = [request EXCEPT ![r] = q]
        /\ UNCHANGED <<now, mem, files, unwritten, history>>
    BY DEF Onboard
  <1>2. Showed(p, k) /\ (p \in Challenges => mem.control.rows[p] # NoRow)
    BY <1>1, ProofTaken
  <1>3. RequestFits(q)
    BY <1>2 DEF RequestFits, IdInv
  <1>4. \A s \in Requests : s # r => request'[s] = request[s]
    BY <1>1 DEF IdInv, FcnOn
  <1>5. FcnOn(request, Requests)' /\ request'[r] = q
    BY <1>1 DEF IdInv, FcnOn
  <1> HIDE DEF q
  <1>6. \A s \in Requests : RequestFits(request'[s])
    BY <1>3, <1>4, <1>5 DEF IdInv
  <1>7. \A s \in Requests : RequestFits(request[s])'
    BY <1>1, <1>6, NothingNew
  <1> QED  BY <1>1, <1>5, <1>7, NothingNew DEF IdInv

LEMMA RefuseStep ==
    ASSUME IdInv, NEW r \in Requests, Refuse(r)
    PROVE  IdInv'
  <1>1. /\ request' = [request EXCEPT ![r] = NoRequest]
        /\ UNCHANGED <<now, mem, files, unwritten, history>>
    BY DEF Refuse
  <1>2. FcnOn(request, Requests)' /\ \A s \in Requests : RequestFits(request'[s])
    BY <1>1 DEF IdInv, FcnOn, RequestFits
  <1>3. \A s \in Requests : RequestFits(request[s])'
    BY <1>1, <1>2, NothingNew
  <1> QED  BY <1>1, <1>2, <1>3, NothingNew DEF IdInv

\* The deal and the clock are none of it
LEMMA DealStep ==
    ASSUME IdInv, now' \in Nat, UNCHANGED <<mem, files, unwritten, request, history>>
    PROVE  IdInv'
  <1>1. \A s \in Requests : RequestFits(request[s])'
    BY NothingNew DEF IdInv
  <1> QED  BY <1>1, NothingNew DEF IdInv, FcnOn

LEMMA CrashStep ==
    ASSUME IdInv, Crash
    PROVE  IdInv'
  <1>1. /\ mem' = files /\ unwritten' = <<>> /\ request' = [r \in Requests |-> NoRequest]
        /\ UNCHANGED <<now, files, history>>
    BY DEF Crash
  <1>2. PICK f : f = files
    OBVIOUS
  <1>3. VenueFits(f)
    BY <1>2 DEF IdInv
  <1>4. VenueFits(f)'
    BY <1>1, <1>3, FitsStill
  <1>5. VenueFits(mem)' /\ VenueFits(files)'
    BY <1>1, <1>2, <1>4, FitsThere
  <1>6. WritesFit'
    <2>1. Len(files.creds) \in Nat
      BY LenProperties DEF IdInv, VenueFits, CredsFit
    <2>2. unwritten' \in Plans
      BY <1>1 DEF Plans
    <2> QED  BY <1>1, <2>1, <2>2 DEF WritesFit
  <1>7. PostsFit'
    BY <1>1 DEF history, IdInv, PostsFit, CodesRationed
  <1>8. FcnOn(request, Requests)' /\ \A s \in Requests : RequestFits(request[s])'
    BY <1>1 DEF FcnOn, RequestFits
  <1> QED  BY <1>1, <1>5, <1>6, <1>7, <1>8 DEF IdInv

\* A request is what it is wherever it is kept
LEMMA RequestThere ==
    ASSUME NEW v, RequestFits(v)', NEW s, v = request'[s]
    PROVE  RequestFits(request[s])'
  BY DEF RequestFits, Showed, Spent

LEMMA AskStep ==
    ASSUME IdInv, NEW r \in Requests, NEW old \in Issued, NEW k \in Keys,
           NEW by \in Proofs \cup {Principal}, NEW from \in {None} \cup Declared,
           AskRotation(r, old, k, by, from)
    PROVE  IdInv'
  <1> DEFINE q == [kind |-> "rotate", key |-> k, proof |-> by, old |-> old,
                   since |-> from, at |-> now]
  <1>1. /\ Serving /\ request' = [request EXCEPT ![r] = q]
        /\ UNCHANGED <<now, unwritten, history>>
    BY DEF AskRotation
  <1>2. FcnOn(request, Requests)' /\ request'[r] = q /\ \A s \in Requests : s # r => request'[s] = request[s]
    BY <1>1 DEF IdInv, FcnOn
  <1>3. q \in [kind : {"rotate"}, key : Keys, proof : Proofs \cup {Principal},
               old : DOMAIN mem.creds, since : {None} \cup Declared, at : Nat]
        /\ q.proof = by /\ q.key = k
    BY DEF Issued, IdInv
  <1> HIDE DEF q
  <1>4. CASE by \in Proofs
    <2>1. EvaluateControl(by, k) /\ Saved(Consume(mem.control, by))
      BY <1>4 DEF AskRotation
    <2>2. Showed(by, k) /\ (by \in Challenges => mem.control.rows[by] # NoRow)
      BY <1>4, <2>1, ProofTaken
    <2>3. PICK control : control = Consume(mem.control, by)
      OBVIOUS
    <2>4. /\ RowsFit(control)' /\ Spent(control, by)
          /\ \A o \in Proofs : Spent(mem.control, o) => Spent(control, o)
          /\ \A d \in Challenges : mem.control.rows[d] # NoRow => control.rows[d] # NoRow
      BY <1>1, <1>4, <2>2, <2>3, Consumed
    <2>5. /\ VenueFits(mem)' /\ VenueFits(files)' /\ WritesFit'
          /\ mem'.control = control /\ mem'.creds = mem.creds
      BY <1>1, <2>1, <2>3, <2>4, ControlSaved DEF history
    <2>6. ASSUME NEW p, RequestFits(p) PROVE RequestFits(p)'
      BY <1>1, <2>4, <2>5, <2>6, RequestKept DEF history
    <2>7. Showed(by, k)'
      BY <1>1, <2>2, FitsStill
    <2>8. Spent(mem.control, by)'
      BY <2>4, <2>5 DEF Spent
    <2>9. RequestFits(request[r])'
      <3>1. PICK p : p = q
        OBVIOUS
      <3>2. p.proof = by /\ p.key = k
        BY <1>3, <3>1
      <3>3. p \in [kind : {"rotate"}, key : Keys, proof : Proofs \cup {Principal},
                   old : DOMAIN mem'.creds, since : {None} \cup Declared, at : Nat]
        BY <1>3, <2>5, <3>1
      <3>4. Showed(p.proof, p.key)' /\ Spent(mem.control, p.proof)'
        BY <2>7, <2>8, <3>2
      <3>5. RequestFits(p)'
        BY <3>3, <3>4 DEF RequestFits
      <3>6. p = request'[r]
        BY <1>2, <3>1
      <3> QED  BY <3>5, <3>6, RequestThere
    <2>10. ASSUME NEW s \in Requests PROVE RequestFits(request[s])'
      <3>1. CASE s = r
        BY <2>9, <3>1
      <3>2. CASE s # r
        <4>1. PICK p : p = request[s]
          OBVIOUS
        <4>2. RequestFits(p)' /\ p = request'[s]
          BY <1>2, <2>6, <3>2, <4>1 DEF IdInv
        <4> QED  BY <4>2, RequestThere
      <3> QED  BY <3>1, <3>2
    <2>11. PostsFit'
      BY <1>1 DEF history, IdInv, PostsFit, CodesRationed
    <2> QED  BY <1>1, <1>2, <2>5, <2>10, <2>11 DEF IdInv
  <1>5. CASE by \notin Proofs
    <2>1. UNCHANGED <<mem, files>> /\ by = Principal
      BY <1>5 DEF AskRotation
    <2>2. Showed(by, k) /\ Spent(mem.control, by)
      BY <2>1 DEF Showed, Spent, Principal
    <2>3. RequestFits(q)
      BY <1>3, <2>2 DEF RequestFits
    <2>4. \A s \in Requests : RequestFits(request'[s])
      BY <1>2, <2>3 DEF IdInv
    <2>5. \A s \in Requests : RequestFits(request[s])'
      BY <1>1, <2>1, <2>4, NothingNew
    <2> QED  BY <1>1, <1>2, <2>1, <2>5, NothingNew DEF IdInv
  <1> QED  BY <1>4, <1>5

\* A credential is added to those issued
LEMMA CredIssued ==
    ASSUME NEW list, CredsFit(list), NEW cred \in Credentials, NEW n \in Ids, n = Len(list) + 1,
           CredFits(cred, n), NEW longer, longer = Append(list, cred)
    PROVE  /\ CredsFit(longer) /\ Len(longer) = n /\ Len(list) \in Nat
           /\ DOMAIN list \subseteq DOMAIN longer /\ n \in DOMAIN longer
           /\ DOMAIN longer = DOMAIN list \cup {n}
           /\ longer[n] = cred /\ \A j \in DOMAIN list : longer[j] = list[j]
  <1>1. list \in Seq(Credentials) /\ Len(list) \in Nat /\ DOMAIN list = 1 .. Len(list)
    BY LenProperties DEF CredsFit
  <1>2. /\ longer \in Seq(Credentials) /\ Len(longer) = Len(list) + 1
        /\ longer[Len(list) + 1] = cred /\ \A i \in 1 .. Len(list) : longer[i] = list[i]
    BY <1>1, AppendProperties
  <1>3. DOMAIN longer = 1 .. Len(list) + 1
    BY <1>2, LenProperties
  <1>4. \A i \in DOMAIN longer : CredFits(longer[i], i)
    <2> SUFFICES ASSUME NEW i \in DOMAIN longer PROVE CredFits(longer[i], i)
      OBVIOUS
    <2>1. CASE i = Len(list) + 1
      BY <1>2, <2>1
    <2>2. CASE i # Len(list) + 1
      <3>1. i \in DOMAIN list
        BY <1>1, <1>3, <2>2
      <3> QED  BY <1>1, <1>2, <3>1 DEF CredsFit
    <2> QED  BY <2>1, <2>2
  <1>5. Len(longer) <= MaxCredentials
    BY <1>2 DEF Ids
  <1> QED  BY <1>1, <1>2, <1>3, <1>4, <1>5 DEF CredsFit

\* Where a credential is added, and the statuses that name those before stay
LEMMA HeirsStay ==
    ASSUME NEW status, NEW list, NEW longer, Heirs(status, list), DOMAIN list \subseteq DOMAIN longer,
           \A i \in DOMAIN list : longer[i] = list[i]
    PROVE  Heirs(status, longer)
  BY DEF Heirs

\* A request that waits and what it may do
LEMMA AskedOf ==
    ASSUME IdInv, NEW r \in Requests
    PROVE  /\ request[r].kind = "onboard" =>
                /\ request[r] \in [kind : {"onboard"}, key : Keys, proof : Proofs, at : Nat]
                /\ Showed(request[r].proof, request[r].key)
                /\ request[r].proof \in Challenges => mem.control.rows[request[r].proof] # NoRow
           /\ request[r].kind = "present" => request[r].cred \in DOMAIN mem.creds
           /\ request[r].kind = "rotate" =>
                /\ request[r] \in [kind : {"rotate"}, key : Keys, proof : Proofs \cup {Principal},
                        old : DOMAIN mem.creds, since : {None} \cup Declared, at : Nat]
                /\ Showed(request[r].proof, request[r].key) /\ Spent(mem.control, request[r].proof)
  <1> DEFINE q == request[r]
  <1>1. RequestFits(q)
    BY DEF IdInv
  <1> HIDE DEF q
  <1>2. /\ q.kind = "onboard" =>
                /\ q \in [kind : {"onboard"}, key : Keys, proof : Proofs, at : Nat]
                /\ Showed(q.proof, q.key)
                /\ q.proof \in Challenges => mem.control.rows[q.proof] # NoRow
        /\ q.kind = "present" => q.cred \in DOMAIN mem.creds
        /\ q.kind = "rotate" =>
                /\ q \in [kind : {"rotate"}, key : Keys, proof : Proofs \cup {Principal},
                        old : DOMAIN mem.creds, since : {None} \cup Declared, at : Nat]
                /\ Showed(q.proof, q.key) /\ Spent(mem.control, q.proof)
    BY <1>1 DEF RequestFits, NoRequest
  <1> QED  BY <1>2 DEF q

\* The same of those the venue issued
LEMMA Added ==
    ASSUME IdInv, NEW n \in Ids, n = Len(mem.creds) + 1, NEW cred \in Credentials,
           CredFits(cred, n), NEW longer, longer = Append(mem.creds, cred)
    PROVE  /\ CredsFit(longer) /\ Len(longer) = n /\ Len(mem.creds) \in Nat
           /\ DOMAIN mem.creds \subseteq DOMAIN longer /\ n \in DOMAIN longer
           /\ DOMAIN longer = DOMAIN mem.creds \cup {n}
           /\ longer[n] = cred /\ \A j \in DOMAIN mem.creds : longer[j] = mem.creds[j]
  <1>1. PICK list : list = mem.creds
    OBVIOUS
  <1>2. CredsFit(list)
    BY <1>1 DEF IdInv, VenueFits
  <1>3. n = Len(list) + 1
    BY <1>1
  <1>4. longer = Append(list, cred)
    BY <1>1
  <1>5. CredsFit(longer)
    BY <1>2, <1>3, <1>4, CredIssued, Zenon
  <1>6. /\ Len(longer) = n /\ Len(list) \in Nat
        /\ DOMAIN list \subseteq DOMAIN longer /\ n \in DOMAIN longer
        /\ DOMAIN longer = DOMAIN list \cup {n}
        /\ longer[n] = cred /\ \A j \in DOMAIN list : longer[j] = list[j]
    BY <1>2, <1>3, <1>4, CredIssued, SMTT(60)
  <1> QED  BY <1>1, <1>5, <1>6

\* The venue with a credential added
LEMMA MemoryFits ==
    ASSUME IdInv, UNCHANGED history, NEW n \in Ids, n = Len(mem.creds) + 1,
           NEW cred \in Credentials, CredFits(cred, n),
           NEW longer, longer = Append(mem.creds, cred),
           NEW control, RowsFit(control)', Spent(control, cred.proof),
           \A o \in Proofs : Spent(mem.control, o) => Spent(control, o),
           NEW status, Heirs(status, longer),
           NEW agent, agent.current \in DOMAIN longer \cup {None},
           mem' = [control |-> control, creds |-> longer, status |-> status, agent |-> agent]
    PROVE  VenueFits(mem)'
  <1>1. /\ CredsFit(longer) /\ DOMAIN longer = DOMAIN mem.creds \cup {n}
        /\ longer[n] = cred /\ \A j \in DOMAIN mem.creds : longer[j] = mem.creds[j]
    <2>1. CredsFit(longer)
      BY Added, Zenon
    <2> QED  BY <2>1, Added, SMTT(60)
  <1>2. CredsFit(longer)'
    BY <1>1, FitsStill
  <1>3. \A j \in DOMAIN longer : Spent(control, longer[j].proof)
    <2> SUFFICES ASSUME NEW j \in DOMAIN longer PROVE Spent(control, longer[j].proof)
      BY SMTT(60)
    <2>1. CASE j = n
      BY <1>1, <2>1
    <2>2. CASE j # n
      <3>1. j \in DOMAIN mem.creds /\ longer[j] = mem.creds[j]
        BY <1>1, <2>2
      <3>2. Spent(mem.control, mem.creds[j].proof)
        BY <3>1 DEF IdInv, VenueFits, Spends
      <3> QED  BY <3>1, <3>2 DEF Spent, Proofs
    <2> QED  BY <2>1, <2>2
  <1>4. PICK v : v = [control |-> control, creds |-> longer, status |-> status, agent |-> agent]
    OBVIOUS
  <1>5. v.control = control /\ v.creds = longer /\ v.status = status /\ v.agent = agent
    BY <1>4
  <1>6. v = [control |-> v.control, creds |-> v.creds, status |-> v.status, agent |-> v.agent]
    BY <1>4
  <1>7. RowsFit(v.control)' /\ CredsFit(v.creds)'
    BY <1>2, <1>5, SMTT(60)
  <1>8. Spends(v.creds, v.control)'
    BY <1>3, <1>5 DEF Spends, Spent
  <1>9. Heirs(v.status, v.creds)' /\ v.agent.current \in DOMAIN v.creds \cup {None}
    BY <1>5 DEF Heirs
  <1>10. VenueFits(v)'
    BY <1>6, <1>7, <1>8, <1>9 DEF VenueFits
  <1> QED  BY <1>4, <1>10, FitsThere

LEMMA FilesFit ==
    ASSUME IdInv, UNCHANGED <<files, history>>
    PROVE  VenueFits(files)'
  <1>1. PICK f : f = files
    OBVIOUS
  <1>2. VenueFits(f)'
    BY <1>1, FitsStill DEF IdInv
  <1> QED  BY <1>1, <1>2, FitsThere

\* One request is answered, or asks for more, and the others wait
LEMMA OneRequest ==
    ASSUME IdInv, NEW r \in Requests, NEW p, request' = [request EXCEPT ![r] = p],
           NEW v, v = p, RequestFits(v)',
           answered \subseteq answered', DOMAIN mem.creds \subseteq DOMAIN mem'.creds,
           \A o \in Proofs : Spent(mem.control, o) => Spent(mem'.control, o),
           \A d \in Challenges : mem.control.rows[d] # NoRow => mem'.control.rows[d] # NoRow
    PROVE  FcnOn(request, Requests)' /\ \A s \in Requests : RequestFits(request[s])'
  <1>1. /\ FcnOn(request, Requests)' /\ request'[r] = p
        /\ \A s \in Requests : s # r => request'[s] = request[s]
    BY DEF IdInv, FcnOn
  <1>2. ASSUME NEW s \in Requests PROVE RequestFits(request[s])'
    <2>1. PICK was : was = request'[s]
      OBVIOUS
    <2>2. RequestFits(was)'
      <3>1. CASE s = r
        BY <1>1, <2>1, <3>1
      <3>2. CASE s # r
        <4>1. was = request[s] /\ RequestFits(request[s])
          BY <1>1, <2>1, <3>2 DEF IdInv
        <4>2. RequestFits(was)
          BY <4>1
        <4> QED  BY <4>2, RequestKept
      <3> QED  BY <3>1, <3>2
    <2> QED  BY <2>1, <2>2, RequestThere
  <1> QED  BY <1>1, <1>2

LEMMA IssueStep ==
    ASSUME IdInv, NEW r \in Requests, Issue(r)
    PROVE  IdInv'
  <1>0. PICK q : q = request[r]
    OBVIOUS
  <1>1. PICK n : n = Len(mem.creds) + 1
    OBVIOUS
  <1>2. PICK c : c = [key |-> q.key, proof |-> q.proof, old |-> None, at |-> q.at]
    OBVIOUS
  <1>3. PICK p : p = [kind |-> "present", cred |-> n]
    OBVIOUS
  <1>4. /\ Serving /\ q.kind = "onboard" /\ n \in Ids
        /\ mem' = [mem EXCEPT !.creds = Append(@, c), !.control = Consume(@, q.proof)]
        /\ unwritten' = <<"control", "creds">>
        /\ request' = [request EXCEPT ![r] = p]
        /\ UNCHANGED <<now, files, history>>
    BY <1>0, <1>1, <1>2, <1>3 DEF Issue, Then, IssueWrites
  <1>5. /\ q \in [kind : {"onboard"}, key : Keys, proof : Proofs, at : Nat]
        /\ Showed(q.proof, q.key)
        /\ q.proof \in Challenges => mem.control.rows[q.proof] # NoRow
    BY <1>0, <1>4, AskedOf
  <1>6. c \in Credentials /\ CredFits(c, n) /\ c.proof = q.proof
    <2>1. c \in Credentials /\ c.proof = q.proof /\ c.key = q.key /\ c.old = None
      BY <1>2, <1>5 DEF Credentials, None
    <2>2. q.proof # Principal
      BY <1>5 DEF Proofs, Principal
    <2> QED  BY <1>5, <2>1, <2>2 DEF CredFits
  <1>7. PICK control : control = Consume(mem.control, q.proof)
    OBVIOUS
  <1>8. PICK longer : longer = Append(mem.creds, c)
    OBVIOUS
  <1>9. /\ RowsFit(control)' /\ Spent(control, q.proof)
        /\ \A o \in Proofs : Spent(mem.control, o) => Spent(control, o)
        /\ \A d \in Challenges : mem.control.rows[d] # NoRow => control.rows[d] # NoRow
    <2>1. q.proof \in Proofs
      BY <1>5
    <2> QED  BY <1>4, <1>5, <1>7, <2>1, Consumed
  <1>10. /\ Len(longer) = n /\ Len(mem.creds) \in Nat
         /\ DOMAIN mem.creds \subseteq DOMAIN longer /\ n \in DOMAIN longer
         /\ \A j \in DOMAIN mem.creds : longer[j] = mem.creds[j]
    BY <1>1, <1>4, <1>6, <1>8, Added, SMTT(60)
  <1>11. PICK status : status = mem.status
    OBVIOUS
  <1>12. PICK agent : agent = mem.agent
    OBVIOUS
  <1>13. /\ mem' = [control |-> control, creds |-> longer, status |-> status, agent |-> agent]
         /\ mem'.control = control /\ mem'.creds = longer
         /\ mem'.status = status /\ mem'.agent = agent
    BY <1>4, <1>7, <1>8, <1>11, <1>12 DEF IdInv, VenueFits
  <1>14. Heirs(status, longer) /\ agent.current \in DOMAIN longer \cup {None}
    <2>1. Heirs(status, mem.creds) /\ agent.current \in DOMAIN mem.creds \cup {None}
      BY <1>11, <1>12 DEF IdInv, VenueFits
    <2> QED  BY <1>10, <2>1, HeirsStay
  <1>15. Spent(control, c.proof)
    BY <1>6, <1>9
  <1>16. VenueFits(mem)'
    BY <1>1, <1>4, <1>6, <1>8, <1>9, <1>13, <1>14, <1>15, MemoryFits, ZenonT(60)
  <1>17. VenueFits(files)'
    BY <1>4, FilesFit
  <1>18. WritesFit'
    <2>1. unwritten' \in Plans /\ Left' = {"control", "creds"}
      BY <1>4 DEF Plans, Left
    <2>2. files' = mem
      BY <1>4, ServingSame
    <2> QED  BY <1>1, <1>10, <1>11, <1>12, <1>13, <2>1, <2>2 DEF WritesFit
  <1>19. PostsFit'
    BY <1>4 DEF history, IdInv, PostsFit, CodesRationed
  <1>20. RequestFits(p)'
    <2>1. p \in [kind : {"present"}, cred : DOMAIN mem'.creds]
      BY <1>3, <1>10, <1>13
    <2> QED  BY <2>1 DEF RequestFits
  <1>21. FcnOn(request, Requests)' /\ \A s \in Requests : RequestFits(request[s])'
    BY <1>4, <1>9, <1>10, <1>13, <1>20, OneRequest DEF history
  <1> QED  BY <1>4, <1>16, <1>17, <1>18, <1>19, <1>21 DEF IdInv

LEMMA RegisterStep ==
    ASSUME IdInv, NEW r \in Requests, Register(r)
    PROVE  IdInv'
  <1>1. PICK agent : agent = [current |-> request[r].cred, previous |-> {}]
    OBVIOUS
  <1>2. /\ Serving /\ request[r].kind = "present"
        /\ mem' = [mem EXCEPT !.agent = agent] /\ unwritten' = <<"agent">>
        /\ request' = [request EXCEPT ![r] = NoRequest]
        /\ UNCHANGED <<now, files, history>>
    BY <1>1 DEF Register, Then
  <1>3. agent.current \in DOMAIN mem.creds
    BY <1>1, <1>2, AskedOf
  <1>4. PICK v : v = [control |-> mem.control, creds |-> mem.creds,
                      status |-> mem.status, agent |-> agent]
    OBVIOUS
  <1>5. /\ mem' = v /\ v.control = mem.control /\ v.creds = mem.creds
        /\ v.status = mem.status /\ v.agent = agent
    BY <1>2, <1>4 DEF IdInv, VenueFits
  <1>6. VenueFits(v)
    BY <1>3, <1>4, <1>5 DEF IdInv, VenueFits
  <1>7. VenueFits(mem)'
    BY <1>2, <1>5, <1>6, FitsStill, FitsThere
  <1>8. VenueFits(files)'
    BY <1>2, FilesFit
  <1>9. WritesFit'
    <2>1. unwritten' \in Plans /\ Left' = {"agent"}
      BY <1>2 DEF Plans, Left
    <2>2. files' = mem
      BY <1>2, ServingSame
    <2>3. Len(mem.creds) \in Nat
      BY LenProperties DEF IdInv, VenueFits, CredsFit
    <2> QED  BY <1>5, <2>1, <2>2, <2>3 DEF WritesFit
  <1>10. PostsFit'
    BY <1>2 DEF history, IdInv, PostsFit, CodesRationed
  <1>11. RequestFits(NoRequest)'
    BY DEF RequestFits
  <1>12. /\ mem'.control = mem.control /\ mem'.creds = mem.creds
    BY <1>5
  <1>13. FcnOn(request, Requests)' /\ \A s \in Requests : RequestFits(request[s])'
    BY <1>2, <1>11, <1>12, OneRequest DEF history
  <1> QED  BY <1>2, <1>7, <1>8, <1>9, <1>10, <1>13 DEF IdInv

\* The plan of a rotation
LEMMA RotationPlan ==
    /\ IssuerWrites \o <<"agent">> \o <<"void">> = <<"creds", "status", "agent", "void">>
    /\ IssuerWrites \o <<"agent">> \o <<>> = <<"creds", "status", "agent">>
  <1>1. PICK S : S = {"creds", "status", "agent", "void"}
    OBVIOUS
  <1>2. /\ <<"creds", "status">> \in Seq(S) /\ <<"creds", "status", "agent">> \in Seq(S)
        /\ "agent" \in S /\ "void" \in S
    BY <1>1
  <1>3. Append(<<"creds", "status">>, "agent") = <<"creds", "status">> \o <<"agent">>
    BY <1>2, AppendIsConcat
  <1>4. Append(<<"creds", "status", "agent">>, "void") = <<"creds", "status", "agent">> \o <<"void">>
    BY <1>2, AppendIsConcat
  <1>5. <<"creds", "status", "agent">> \o <<>> = <<"creds", "status", "agent">>
    BY <1>2, ConcatEmptySeq
  <1>6. /\ Append(<<"creds", "status">>, "agent") = <<"creds", "status", "agent">>
        /\ Append(<<"creds", "status", "agent">>, "void") = <<"creds", "status", "agent", "void">>
    <2>1. ASSUME NEW s \in Seq(S), NEW e \in S, NEW t \in Seq(S), Len(t) = Len(s) + 1,
                 \A i \in 1 .. Len(s) : t[i] = s[i], t[Len(s) + 1] = e
          PROVE  Append(s, e) = t
      <3>1. /\ Append(s, e) \in Seq(S) /\ Len(Append(s, e)) = Len(s) + 1
            /\ Append(s, e)[Len(s) + 1] = e /\ \A i \in 1 .. Len(s) : Append(s, e)[i] = s[i]
        BY AppendProperties
      <3>2. Len(s) \in Nat
        BY LenProperties
      <3>3. \A i \in 1 .. Len(s) + 1 : Append(s, e)[i] = t[i]
        BY <2>1, <3>1, <3>2
      <3> QED  BY <2>1, <3>1, <3>3, SeqEqual
    <2>2. Append(<<"creds", "status">>, "agent") = <<"creds", "status", "agent">>
      <3>1. PICK s \in Seq(S) : s = <<"creds", "status">>
        BY <1>2
      <3>2. PICK t \in Seq(S) : t = <<"creds", "status", "agent">>
        BY <1>2
      <3>3. Len(s) = 2 /\ Len(t) = 3 /\ \A i \in 1 .. 2 : t[i] = s[i]
        BY <3>1, <3>2
      <3>4. t[3] = "agent"
        BY <3>2
      <3>5. /\ Len(t) = Len(s) + 1 /\ t[Len(s) + 1] = "agent" /\ "agent" \in S
            /\ \A i \in 1 .. Len(s) : t[i] = s[i]
        BY <1>2, <3>3, <3>4
      <3>6. Append(s, "agent") = t
        BY <2>1, <3>5
      <3> QED  BY <3>1, <3>2, <3>6
    <2>3. Append(<<"creds", "status", "agent">>, "void") = <<"creds", "status", "agent", "void">>
      <3>1. PICK s \in Seq(S) : s = <<"creds", "status", "agent">>
        BY <1>2
      <3>2. PICK t \in Seq(S) : t = <<"creds", "status", "agent", "void">>
        <4>1. <<"creds", "status", "agent", "void">> \in [1 .. 4 -> S]
          BY <1>1
        <4>2. [1 .. 4 -> S] \subseteq Seq(S)
          BY SeqDef, ZenonT(60)
        <4> QED  BY <4>1, <4>2
      <3>3. Len(s) = 3 /\ Len(t) = 4 /\ \A i \in 1 .. 3 : t[i] = s[i]
        BY <3>1, <3>2
      <3>4. t[4] = "void"
        BY <3>2
      <3>5. /\ Len(t) = Len(s) + 1 /\ t[Len(s) + 1] = "void" /\ "void" \in S
            /\ \A i \in 1 .. Len(s) : t[i] = s[i]
        BY <1>2, <3>3, <3>4
      <3>6. Append(s, "void") = t
        BY <2>1, <3>5
      <3> QED  BY <3>1, <3>2, <3>6
    <2> QED  BY <2>2, <2>3
  <1>7. IssuerWrites \o <<"agent">> = <<"creds", "status", "agent">>
    BY <1>3, <1>6 DEF IssuerWrites
  <1> QED  BY <1>4, <1>5, <1>6, <1>7, Zenon

LEMMA RotateStep ==
    ASSUME IdInv, NEW r \in Requests, Rotate(r)
    PROVE  IdInv'
  <1>0. PICK q : q = request[r]
    OBVIOUS
  <1>1. PICK n : n = Len(mem.creds) + 1
    OBVIOUS
  <1>2. PICK c : c = [key |-> q.key, proof |-> q.proof, old |-> q.old, at |-> q.at]
    OBVIOUS
  <1>3. PICK st : st = [kind |-> "SUPERSEDED", heir |-> n,
                        grace |-> IF q.since # None THEN q.at ELSE q.at + Grace, since |-> q.since]
    OBVIOUS
  <1>4. PICK agent : agent = [current |-> n, previous |-> mem.agent.previous \cup {mem.agent.current}]
    OBVIOUS
  <1>5. /\ Serving /\ q.kind = "rotate" /\ n \in Ids
        /\ mem' = [mem EXCEPT !.creds = Append(@, c), !.status[q.old] = st, !.agent = agent]
        /\ unwritten' = IssuerWrites \o <<"agent">> \o (IF q.since # None THEN <<"void">> ELSE <<>>)
        /\ request' = [request EXCEPT ![r] = NoRequest]
        /\ UNCHANGED <<now, files, history>>
    BY <1>0, <1>1, <1>2, <1>3, <1>4 DEF Rotate, Then
  <1>6. /\ q \in [kind : {"rotate"}, key : Keys, proof : Proofs \cup {Principal},
                  old : DOMAIN mem.creds, since : {None} \cup Declared, at : Nat]
        /\ Showed(q.proof, q.key) /\ Spent(mem.control, q.proof)
    BY <1>0, <1>5, AskedOf
  <1>7. DOMAIN mem.creds = 1 .. Len(mem.creds) /\ Len(mem.creds) \in Nat
    BY LenProperties DEF IdInv, VenueFits, CredsFit
  <1>8. q.old \in 1 .. n - 1 /\ q.old \in Ids /\ q.old # None /\ q.old \in Nat
    <2>1. q.old \in DOMAIN mem.creds
      BY <1>6
    <2> QED  BY <1>1, <1>5, <1>7, <2>1, SMTT(60) DEF Ids, None
  <1>9. c \in Credentials /\ CredFits(c, n) /\ c.proof = q.proof /\ c.old = q.old
    <2>1. c \in Credentials /\ c.proof = q.proof /\ c.key = q.key /\ c.old = q.old
      BY <1>2, <1>6, <1>8 DEF Credentials
    <2> QED  BY <1>6, <1>8, <2>1 DEF CredFits
  <1>10. PICK longer : longer = Append(mem.creds, c)
    OBVIOUS
  <1>11. /\ Len(longer) = n
         /\ DOMAIN mem.creds \subseteq DOMAIN longer /\ n \in DOMAIN longer /\ longer[n] = c
         /\ \A j \in DOMAIN mem.creds : longer[j] = mem.creds[j]
    BY <1>1, <1>5, <1>9, <1>10, Added, SMTT(60)
  <1>12. PICK control : control = mem.control
    OBVIOUS
  <1>13. PICK status : status = [mem.status EXCEPT ![q.old] = st]
    OBVIOUS
  <1>14. /\ mem' = [control |-> control, creds |-> longer, status |-> status, agent |-> agent]
         /\ mem'.control = control /\ mem'.creds = longer
         /\ mem'.status = status /\ mem'.agent = agent
    BY <1>5, <1>10, <1>12, <1>13 DEF IdInv, VenueFits
  <1>15. st \in Superseded /\ st.kind = "SUPERSEDED" /\ st.heir = n
    <2>1. PICK grace \in Nat : grace = IF q.since # None THEN q.at ELSE q.at + Grace
      BY <1>6
    <2>2. n \in Nat \ {0}
      BY <1>5 DEF Ids
    <2>3. st = [kind |-> "SUPERSEDED", heir |-> n, grace |-> grace, since |-> q.since]
      BY <1>3, <2>1
    <2> QED  BY <1>6, <2>2, <2>3 DEF Superseded
  <1>16. Heirs(status, longer)
    <2>1. /\ mem.status \in [Ids -> {Active, Revoked} \cup Superseded]
          /\ \A i \in Ids : mem.status[i].kind = "SUPERSEDED" =>
                /\ mem.status[i].heir \in DOMAIN mem.creds
                /\ mem.creds[mem.status[i].heir].old = i
      BY DEF IdInv, VenueFits, Heirs
    <2>2. status \in [Ids -> {Active, Revoked} \cup Superseded]
      BY <1>8, <1>13, <1>15, <2>1
    <2>3. ASSUME NEW i \in Ids, status[i].kind = "SUPERSEDED"
          PROVE  status[i].heir \in DOMAIN longer /\ longer[status[i].heir].old = i
      <3>1. CASE i = q.old
        BY <1>8, <1>9, <1>11, <1>13, <1>15, <2>1, <3>1
      <3>2. CASE i # q.old
        <4>1. status[i] = mem.status[i]
          BY <1>13, <2>1, <3>2
        <4> QED  BY <1>11, <2>1, <2>3, <4>1
      <3> QED  BY <3>1, <3>2
    <2> QED  BY <2>2, <2>3 DEF Heirs
  <1>17. agent.current \in DOMAIN longer \cup {None}
    BY <1>4, <1>11
  <1>18. RowsFit(control)'
    BY <1>5, <1>12, FitsStill DEF IdInv, VenueFits
  <1>19. Spent(control, c.proof) /\ \A o \in Proofs : Spent(mem.control, o) => Spent(control, o)
    BY <1>6, <1>9, <1>12
  <1>20. VenueFits(mem)'
    BY <1>1, <1>5, <1>9, <1>10, <1>14, <1>16, <1>17, <1>18, <1>19, MemoryFits, ZenonT(60)
  <1>21. VenueFits(files)'
    BY <1>5, FilesFit
  <1>22. WritesFit'
    <2>1. unwritten' \in {<<"creds", "status", "agent">>, <<"creds", "status", "agent", "void">>}
      BY <1>5, RotationPlan
    <2>2. unwritten' \in Plans /\ {"creds", "status", "agent"} \subseteq Left' /\ "control" \notin Left'
      BY <2>1 DEF Plans, Left
    <2>3. files' = mem
      BY <1>5, ServingSame
    <2>4. Len(files'.creds) <= Len(mem'.creds)
      BY <1>1, <1>7, <1>11, <1>14, <2>3
    <2> QED  BY <1>11, <1>12, <1>14, <2>2, <2>3, <2>4 DEF WritesFit
  <1>23. PostsFit'
    BY <1>5 DEF history, IdInv, PostsFit, CodesRationed
  <1>24. RequestFits(NoRequest)'
    BY DEF RequestFits
  <1>25. /\ mem'.control = mem.control /\ DOMAIN mem.creds \subseteq DOMAIN mem'.creds
    BY <1>11, <1>12, <1>14
  <1>26. FcnOn(request, Requests)' /\ \A s \in Requests : RequestFits(request[s])'
    BY <1>5, <1>24, <1>25, OneRequest DEF history
  <1> QED  BY <1>5, <1>20, <1>21, <1>22, <1>23, <1>26 DEF IdInv

LEMMA RevokeStep ==
    ASSUME IdInv, NEW i \in Ids, Revoke(i)
    PROVE  IdInv'
  <1>1. PICK status : status = [mem.status EXCEPT ![i] = Revoked]
    OBVIOUS
  <1>2. /\ Serving /\ mem' = [mem EXCEPT !.status = status]
        /\ files' = [files EXCEPT !.status = mem'.status]
        /\ UNCHANGED <<now, unwritten, request, history>>
    <2>1. mem' = [mem EXCEPT !.status[i] = Revoked]
      BY DEF Revoke, Revoked
    <2>2. mem' = [mem EXCEPT !.status = status]
      BY <1>1, <2>1
    <2> QED  BY <2>2 DEF Revoke
  <1>3. files = mem /\ Left = {}
    BY <1>2, ServingSame
  <1>4. PICK v : v = [control |-> mem.control, creds |-> mem.creds,
                      status |-> status, agent |-> mem.agent]
    OBVIOUS
  <1>5. /\ mem' = v /\ files' = v /\ v.control = mem.control /\ v.creds = mem.creds
        /\ v.status = status /\ v.agent = mem.agent
    BY <1>2, <1>3, <1>4 DEF IdInv, VenueFits
  <1>6. Heirs(status, mem.creds)
    <2>1. /\ mem.status \in [Ids -> {Active, Revoked} \cup Superseded]
          /\ \A j \in Ids : mem.status[j].kind = "SUPERSEDED" =>
                /\ mem.status[j].heir \in DOMAIN mem.creds
                /\ mem.creds[mem.status[j].heir].old = j
      BY DEF IdInv, VenueFits, Heirs
    <2>2. Revoked.kind # "SUPERSEDED"
      BY DEF Revoked, Active
    <2> QED  BY <1>1, <2>1, <2>2 DEF Heirs
  <1>7. VenueFits(v)
    BY <1>4, <1>5, <1>6 DEF IdInv, VenueFits
  <1>8. VenueFits(mem)' /\ VenueFits(files)'
    BY <1>2, <1>5, <1>7, FitsStill, FitsThere
  <1>9. WritesFit'
    <2>1. Len(mem.creds) \in Nat
      BY LenProperties DEF IdInv, VenueFits, CredsFit
    <2>2. unwritten' \in Plans /\ Left' = {}
      BY <1>2, <1>3 DEF IdInv, WritesFit, Left
    <2> QED  BY <1>5, <2>1, <2>2 DEF WritesFit
  <1>10. PostsFit'
    BY <1>2 DEF history, IdInv, PostsFit, CodesRationed
  <1>11. ASSUME NEW s \in Requests PROVE RequestFits(request[s])'
    <2>1. PICK p : p = request[s]
      OBVIOUS
    <2>2. mem'.control = mem.control /\ mem'.creds = mem.creds /\ answered \subseteq answered'
      BY <1>2, <1>5 DEF history
    <2>3. RequestFits(p)'
      BY <2>1, <2>2, RequestKept DEF IdInv
    <2>4. p = request'[s]
      BY <1>2, <2>1
    <2> QED  BY <2>3, <2>4, RequestThere
  <1> QED  BY <1>2, <1>8, <1>9, <1>10, <1>11 DEF IdInv, FcnOn

\* The writes of a handler, in their order
LeftOf(u) == {u[i] : i \in DOMAIN u}
Ordered(u) ==
    /\ Tail(u) \in Plans /\ LeftOf(u) = LeftOf(Tail(u)) \cup {Head(u)}
    /\ Head(u) \in {"control", "creds", "status", "agent", "void"}
    /\ Head(u) = "creds" => "control" \notin LeftOf(u)
    /\ Head(u) \in {"status", "agent", "void"} => {"control", "creds"} \cap LeftOf(u) = {}

LEMMA InOrder ==
    ASSUME NEW u \in Plans, u # <<>>
    PROVE  Ordered(u)
  <1>1. CASE u = <<"control", "creds">>
    BY <1>1 DEF Ordered, LeftOf, Plans
  <1>2. CASE u = <<"creds">>
    BY <1>2 DEF Ordered, LeftOf, Plans
  <1>3. CASE u = <<"agent">>
    BY <1>3 DEF Ordered, LeftOf, Plans
  <1>4. CASE u = <<"creds", "status", "agent">>
    BY <1>4 DEF Ordered, LeftOf, Plans
  <1>5. CASE u = <<"status", "agent">>
    BY <1>5 DEF Ordered, LeftOf, Plans
  <1>6. CASE u = <<"creds", "status", "agent", "void">>
    BY <1>6 DEF Ordered, LeftOf, Plans
  <1>7. CASE u = <<"status", "agent", "void">>
    BY <1>7 DEF Ordered, LeftOf, Plans
  <1>8. CASE u = <<"agent", "void">>
    BY <1>8 DEF Ordered, LeftOf, Plans
  <1>9. CASE u = <<"void">>
    BY <1>9 DEF Ordered, LeftOf, Plans
  <1> QED  BY <1>1, <1>2, <1>3, <1>4, <1>5, <1>6, <1>7, <1>8, <1>9 DEF Plans

\* Files put together from what was on disk and in memory
LEMMA WrittenFits ==
    ASSUME IdInv, UNCHANGED history, NEW v, files' = v,
           v = [control |-> v.control, creds |-> v.creds, status |-> v.status, agent |-> v.agent],
           RowsFit(v.control), CredsFit(v.creds), Spends(v.creds, v.control),
           Heirs(v.status, v.creds), v.agent.current \in DOMAIN v.creds \cup {None}
    PROVE  VenueFits(files)'
  <1>1. VenueFits(v)
    BY DEF VenueFits
  <1> QED  BY <1>1, FitsStill, FitsThere

LEMMA WriteStep ==
    ASSUME IdInv, Write
    PROVE  IdInv'
  <1>1. /\ unwritten \in Plans /\ unwritten # <<>> /\ unwritten' = Tail(unwritten)
        /\ UNCHANGED <<now, mem, request, history>>
    BY DEF Write, IdInv, WritesFit
  <1>2. PICK file : file = Head(unwritten)
    OBVIOUS
  <1>3. PICK v : v = files'
    OBVIOUS
  <1>4. Ordered(unwritten)
    BY <1>1, InOrder
  <1>5. /\ unwritten' \in Plans /\ Left = Left' \cup {file}
        /\ file \in {"control", "creds", "status", "agent", "void"}
        /\ file = "creds" => "control" \notin Left
        /\ file \in {"status", "agent", "void"} => "control" \notin Left /\ "creds" \notin Left
    BY <1>1, <1>2, <1>4 DEF Ordered, LeftOf, Left
  <1>6. /\ VenueFits(mem) /\ VenueFits(files) /\ WritesFit
    BY DEF IdInv
  <1>7. /\ v = [control |-> v.control, creds |-> v.creds, status |-> v.status, agent |-> v.agent]
        /\ v.control = IF file = "control" THEN mem.control ELSE files.control
        /\ v.creds = IF file = "creds" THEN mem.creds ELSE files.creds
        /\ v.status = IF file = "status" THEN mem.status ELSE files.status
        /\ v.agent = IF file = "agent" THEN mem.agent ELSE files.agent
    <2>1. files = [control |-> files.control, creds |-> files.creds, status |-> files.status,
                   agent |-> files.agent]
      BY <1>6 DEF VenueFits
    <2>2. CASE file = "void"
      <3>1. v = files
        BY <1>2, <1>3, <2>2 DEF Write
      <3> QED  BY <2>1, <2>2, <3>1
    <2>3. ASSUME file # "void" PROVE v = [files EXCEPT ![file] = mem[file]]
      BY <1>2, <1>3, <2>3 DEF Write
    <2>4. CASE file = "control"
      <3>1. v = [files EXCEPT !.control = mem.control]
        BY <2>3, <2>4
      <3> QED  BY <2>1, <2>4, <3>1
    <2>5. CASE file = "creds"
      <3>1. v = [files EXCEPT !.creds = mem.creds]
        BY <2>3, <2>5
      <3> QED  BY <2>1, <2>5, <3>1
    <2>6. CASE file = "status"
      <3>1. v = [files EXCEPT !.status = mem.status]
        BY <2>3, <2>6
      <3> QED  BY <2>1, <2>6, <3>1
    <2>7. CASE file = "agent"
      <3>1. v = [files EXCEPT !.agent = mem.agent]
        BY <2>3, <2>7
      <3> QED  BY <2>1, <2>7, <3>1
    <2> QED  BY <1>5, <2>2, <2>4, <2>5, <2>6, <2>7
  <1>8. /\ Len(mem.creds) \in Nat /\ Len(files.creds) \in Nat
        /\ DOMAIN mem.creds = 1 .. Len(mem.creds) /\ DOMAIN files.creds = 1 .. Len(files.creds)
    BY <1>6, LenProperties DEF VenueFits, CredsFit
  <1>9. /\ DOMAIN files.creds \subseteq DOMAIN mem.creds
        /\ \A i \in DOMAIN files.creds : files.creds[i] = mem.creds[i]
    BY <1>6, <1>8 DEF WritesFit
  <1>10. RowsFit(v.control) /\ CredsFit(v.creds)
    BY <1>6, <1>7 DEF VenueFits
  <1>11. Spends(v.creds, v.control)
    <2>1. CASE file = "control"
      <3>1. v.control = mem.control /\ v.creds = files.creds
        BY <1>7, <2>1
      <3> QED  BY <1>6, <1>9, <3>1 DEF VenueFits, Spends
    <2>2. CASE file = "creds"
      <3>1. v.control = mem.control /\ v.creds = mem.creds
        BY <1>5, <1>6, <1>7, <2>2 DEF WritesFit
      <3> QED  BY <1>6, <3>1 DEF VenueFits
    <2>3. CASE file \notin {"control", "creds"}
      BY <1>6, <1>7, <2>3 DEF VenueFits
    <2> QED  BY <2>1, <2>2, <2>3
  <1>12. Heirs(v.status, v.creds) /\ v.agent.current \in DOMAIN v.creds \cup {None}
    <2>1. CASE file = "control"
      BY <1>6, <1>7, <2>1 DEF VenueFits
    <2>2. CASE file = "creds"
      <3>1. v.creds = mem.creds /\ v.status = files.status /\ v.agent = files.agent
        BY <1>7, <2>2
      <3>2. Heirs(files.status, mem.creds)
        BY <1>6, <1>9, HeirsStay DEF VenueFits
      <3> QED  BY <1>6, <1>9, <3>1, <3>2 DEF VenueFits
    <2>3. CASE file \in {"status", "agent", "void"}
      <3>1. files.creds = mem.creds /\ v.creds = mem.creds
        BY <1>5, <1>6, <1>7, <2>3 DEF WritesFit
      <3> QED  BY <1>6, <1>7, <3>1 DEF VenueFits
    <2> QED  BY <1>5, <2>1, <2>2, <2>3
  <1>13. VenueFits(files)'
    BY <1>1, <1>3, <1>7, <1>10, <1>11, <1>12, WrittenFits
  <1>14. VenueFits(mem)'
    <2>1. PICK m : m = mem
      OBVIOUS
    <2>2. VenueFits(m)'
      BY <1>1, <1>6, <2>1, FitsStill
    <2> QED  BY <1>1, <2>1, <2>2, FitsThere
  <1>15. WritesFit'
    <2>1. /\ "control" \notin Left' => v.control = mem.control
          /\ "creds" \notin Left' => v.creds = mem.creds
          /\ "status" \notin Left' => v.status = mem.status
          /\ "agent" \notin Left' => v.agent = mem.agent
      BY <1>5, <1>6, <1>7 DEF WritesFit
    <2>2. Len(v.creds) <= Len(mem.creds) /\ \A i \in DOMAIN v.creds : v.creds[i] = mem.creds[i]
      BY <1>6, <1>7, <1>8, SMTT(60) DEF WritesFit
    <2> QED  BY <1>1, <1>3, <1>5, <2>1, <2>2 DEF WritesFit
  <1>16. PostsFit'
    BY <1>1 DEF history, IdInv, PostsFit, CodesRationed
  <1>17. ASSUME NEW s \in Requests PROVE RequestFits(request[s])'
    <2>1. PICK p : p = request[s]
      OBVIOUS
    <2>2. mem' = mem /\ answered \subseteq answered'
      BY <1>1 DEF history
    <2>3. RequestFits(p)'
      BY <2>1, <2>2, RequestKept DEF IdInv
    <2>4. p = request'[s]
      BY <1>1, <2>1
    <2> QED  BY <2>3, <2>4, RequestThere
  <1> QED  BY <1>1, <1>13, <1>14, <1>15, <1>16, <1>17 DEF IdInv, FcnOn

LEMMA IdStep ==
    ASSUME IdInv, Next
    PROVE  IdInv'
  <1>1. ASSUME NEW r \in Requests,
               \/ \E k \in Keys, p \in Proofs : Onboard(r, k, p)
               \/ Issue(r) \/ Register(r) \/ Refuse(r)
               \/ Rotations(r) \/ Rotate(r)
        PROVE  IdInv'
    BY <1>1, OnboardStep, IssueStep, RegisterStep, RefuseStep, AskStep, RotateStep DEF Rotations
  <1>2. CASE \E k \in Keys, at \in 1 .. MaxTime : PostChallenge(k, at)
    BY <1>2, PostStep
  <1>3. CASE \E c \in Challenges, right \in BOOLEAN : Verify(c, right)
    BY <1>3, VerifyStep
  <1>4. ASSUME NEW i \in Ids, Revoke(i) \/ Accept(i) PROVE IdInv'
    <2>1. CASE Revoke(i)
      BY <2>1, RevokeStep
    <2>2. CASE Accept(i)
      BY <2>2, DealStep DEF Accept, IdInv
    <2> QED  BY <1>4, <2>1, <2>2
  <1>5. CASE Commit
    BY <1>5, DealStep DEF Commit, IdInv
  <1>6. CASE PickUp
    BY <1>6, DealStep DEF PickUp, IdInv
  <1>7. CASE PrePickupCheck
    BY <1>7, DealStep DEF PrePickupCheck, IdInv
  <1>8. CASE Write
    BY <1>8, WriteStep
  <1>9. CASE Tick
    <2>1. now' \in Nat /\ UNCHANGED <<mem, files, unwritten, request, history>>
      BY <1>9 DEF Tick, IdInv
    <2> QED  BY <2>1, DealStep
  <1>10. CASE Crash
    BY <1>10, CrashStep
  <1> QED  BY <1>1, <1>2, <1>3, <1>4, <1>5, <1>6, <1>7, <1>8, <1>9, <1>10 DEF Next

LEMMA IdKept ==
    ASSUME IdInv
    PROVE  ControlIsProven
  <1>1. CodesRationed
    BY DEF IdInv, PostsFit
  <1>2. GuessesBounded
    <2> SUFFICES ASSUME NEW c \in Challenges PROVE told[c] <= MaxAttempts
      BY DEF GuessesBounded
    <2>1. RowFits(c, mem.control.rows[c]) /\ told[c] \in Nat
      BY DEF IdInv, VenueFits, RowsFit, PostsFit
    <2> QED  BY <2>1 DEF RowFits
  <1>3. KeyProven
    <2> SUFFICES ASSUME NEW i \in DOMAIN files.creds
                 PROVE  /\ files.creds[i].proof \in Challenges =>
                                <<files.creds[i].proof, files.creds[i].key>> \in answered
                        /\ files.creds[i].proof \in Attestations =>
                                Attested[files.creds[i].proof].key = files.creds[i].key
                        /\ files.creds[i].proof = Principal => files.creds[i].old \in 1 .. i - 1
      BY DEF KeyProven
    <2>1. CredFits(files.creds[i], i)
      BY SMTT(60) DEF IdInv, VenueFits, CredsFit
    <2> QED  BY <2>1 DEF CredFits, Showed
  <1>4. CredentialSpendsProof
    BY DEF IdInv, VenueFits, Spends, Spent, CredentialSpendsProof
  <1>5. FilesAgree
    BY DEF IdInv, VenueFits, Heirs, FilesAgree
  <1> QED  BY <1>1, <1>2, <1>3, <1>4, <1>5 DEF ControlIsProven

----------------------------------------------------------------------------
(* The parts together: one of them moves, and the others stand still       *)

LEMMA PartsStart ==
    ASSUME MCInit
    PROVE  /\ IdInv /\ Provider!VettingInit /\ News!WatchlistInit /\ Process!ServerInit
           /\ Store!StoreInit /\ Taking!Init /\ Directory!Init
  <1>1. IdInv
    BY OnboardedFits, NewFits DEF MCInit, IdentityInit
  <1> QED  BY <1>1 DEF MCInit

LEMMA PartsStep ==
    ASSUME [MCNext]_<<part, vars, others>>
    PROVE  /\ [Next]_vars /\ [Provider!VettingNext]_providerVars /\ [News!WatchlistNext]_newsVars
           /\ [Process!ServerNext]_processVars /\ [Store!StoreNext]_storeVars
           /\ [Taking!Next]_intakeVars /\ [Directory!Next]_directory
  BY Zenon DEF MCNext, others

LEMMA IdentityStep ==
    ASSUME IdInv, [MCNext]_<<part, vars, others>>
    PROVE  IdInv'
  <1>1. CASE Next
    BY <1>1, IdStep
  <1>2. CASE UNCHANGED vars
    BY <1>2, DealStep DEF vars, IdInv
  <1> QED  BY <1>1, <1>2, PartsStep

\* Codes are posted a cooldown apart and guessed a bounded number of times, through
\* restarts; a credential's key is one control was proven for, its proof is spent with
\* it, and the issuer's files agree whenever the venue may die (issue and rotate of
\* identity/issuer.ts, controlChallenge of venue/service.ts, identity/control-store.ts)
THEOREM ControlAlwaysProven == MCSpec => []ControlIsProven
  <1>1. MCInit => IdInv
    BY PartsStart
  <1>2. IdInv /\ [MCNext]_<<part, vars, others>> => IdInv'
    BY IdentityStep
  <1>3. IdInv => ControlIsProven
    BY IdKept
  <1> QED  BY <1>1, <1>2, <1>3, PTL DEF MCSpec

\* Where the risk scores are set, what is done on the provider's word rests on a record
\* it held a moment ago; and no news of a watched company is lost (assess of
\* identity/vetting-carrierok.ts, watchlistSweep of venue/service.ts)
THEOREM NewsAlwaysReaches ==
    ASSUME RiskScoresSet
    PROVE  MCSpec => []NewsReachesVenue
  <1> DEFINE Inv == NewsInv /\ VettingInv /\ Provider!VettedLately
  <1>1. MCInit => Inv
    BY PartsStart, NewsStarts, VettingStarts
  <1>2. Inv /\ [MCNext]_<<part, vars, others>> => Inv'
    BY PartsStep, NewsStep, VettingStep
  <1>3. Inv => NewsReachesVenue
    BY NewsKept DEF NewsReachesVenue
  <1> QED  BY <1>1, <1>2, <1>3, PTL DEF MCSpec

\* No caller is admitted faster than its bucket fills, no job runs twice at once and
\* each is run again, and a venue that starts again has what it last persisted
\* (allow of protocol/rpc.ts, runNow of venue/scheduler.ts, commit of venue/db.ts)
THEOREM AlwaysServesAsBefore == MCSpec => []ServesAsBefore
  <1> DEFINE Inv == StoreInv /\ ServerInv
  <1>1. MCInit => Inv
    BY PartsStart, StoreStarts, ServerStarts
  <1>2. Inv /\ [MCNext]_<<part, vars, others>> => Inv'
    <2>1. Store!storeVars = storeVars /\ Store!storeVars' = storeVars'
      BY DEF storeVars, Store!storeVars
    <2> QED  BY <2>1, PartsStep, StoreStep, ServerStep
  <1>3. Inv => ServesAsBefore
    BY StoreKept, ServerKept DEF ServesAsBefore
  <1> QED  BY <1>1, <1>2, <1>3, PTL DEF MCSpec

\* A message that arrives is handled once and a routine change of key costs none on its
\* way, and a mirror that keeps the rules is never convicted by what others sign (ingest
\* of venue/service.ts, filerContradictedBy of protocol/registry.ts)
THEOREM HonestAlwaysKeepStanding == MCSpec => []HonestKeepStanding
  <1> DEFINE Inv == IntakeInv /\ DirectoryInv
  <1>1. MCInit => Inv
    BY PartsStart, IntakeStarts, DirectoryStarts
  <1>2. Inv /\ [MCNext]_<<part, vars, others>> => Inv'
    BY PartsStep, IntakeStep, DirectoryStep
  <1>3. Inv => HonestKeepStanding
    BY IntakeKept, DirectoryKept DEF HonestKeepStanding
  <1> QED  BY <1>1, <1>2, <1>3, PTL DEF MCSpec

----------------------------------------------------------------------------
(* A rotation voids no deal                                                *)

\* The heir of an heir, up to so many
HeirsOf(status, n, F) ==
    F = [m \in 0 .. n |-> [j \in Ids |->
            IF m = 0 \/ status[j].heir = None THEN j ELSE F[m - 1][status[j].heir]]]

\* An heir is issued after the one it succeeds
Succeed(status, issued) ==
    /\ issued \subseteq Ids
    /\ \A j \in Ids : status[j].heir = None \/ (status[j].heir \in issued /\ j < status[j].heir)

\* Numbers of which each holds when the one before does all hold
LEMMA NoLeastMissed ==
    ASSUME NEW S, 0 \in S, \A n \in Nat : n \in S => n + 1 \in S
    PROVE  Nat \subseteq S
  <1> SUFFICES ASSUME NEW x \in Nat, x \notin S PROVE FALSE
    OBVIOUS
  <1>1. PICK T : T = Nat \ S
    OBVIOUS
  <1>2. T \in SUBSET Nat /\ x \in T
    BY <1>1
  <1>3. PICK t \in T : \A u \in T : ~(<<u, t>> \in OpToRel(<, Nat))
    BY <1>2, NatLessThanWellFounded, WFMin, Zenon
  <1>4. t \in Nat /\ t \notin S /\ t # 0
    BY <1>1, <1>3
  <1>5. t - 1 \in Nat /\ t - 1 < t /\ t = (t - 1) + 1
    BY <1>4
  <1>6. t - 1 \in S
    BY <1>1, <1>3, <1>5 DEF OpToRel
  <1> QED  BY <1>4, <1>5, <1>6

Unfolded(status, n, F) ==
    \A m \in 0 .. n, j \in Ids :
        /\ m = 0 \/ status[j].heir = None => F[m][j] = j
        /\ ~(m = 0 \/ status[j].heir = None) => F[m][j] = F[m - 1][status[j].heir]

LEMMA HeirsUnfold ==
    ASSUME NEW status, NEW n \in Nat, NEW F, HeirsOf(status, n, F)
    PROVE  Unfolded(status, n, F)
  <1>1. PICK G : G = F
    OBVIOUS
  <1>2. F = [k \in 0 .. n |-> [i \in Ids |->
               IF k = 0 \/ status[i].heir = None THEN i ELSE G[k - 1][status[i].heir]]]
    BY <1>1 DEF HeirsOf
  <1>3. \A m \in 0 .. n, j \in Ids :
           F[m][j] = IF m = 0 \/ status[j].heir = None THEN j ELSE G[m - 1][status[j].heir]
    BY <1>2
  <1> QED  BY <1>1, <1>3 DEF Unfolded

LEMMA HeirsThere ==
    ASSUME NEW status, NEW issued, Succeed(status, issued)
    PROVE  \A n \in Nat : \E F : HeirsOf(status, n, F)
  <1> DEFINE S == {n \in Nat : \E F : HeirsOf(status, n, F)}
  <1>1. 0 \in S
    <2>1. PICK F : F = [m \in 0 .. 0 |-> [j \in Ids |-> j]]
      OBVIOUS
    <2>2. PICK V : V = [m \in 0 .. 0 |-> [j \in Ids |->
                IF m = 0 \/ status[j].heir = None THEN j ELSE F[m - 1][status[j].heir]]]
      OBVIOUS
    <2>3. F[0] = [j \in Ids |-> j] /\ V[0] = [j \in Ids |-> j]
      BY <2>1, <2>2
    <2>4. F = [m \in 0 .. 0 |-> F[m]] /\ V = [m \in 0 .. 0 |-> V[m]]
      BY <2>1, <2>2
    <2>5. \A m \in 0 .. 0 : F[m] = V[m]
      BY <2>3
    <2>6. F = V
      BY <2>4, <2>5
    <2>7. HeirsOf(status, 0, F)
      BY <2>2, <2>6 DEF HeirsOf
    <2> QED  BY <2>7
  <1>2. ASSUME NEW n \in Nat, n \in S PROVE n + 1 \in S
    <2>1. PICK F : HeirsOf(status, n, F)
      BY <1>2
    <2>2. PICK G : G = [m \in 0 .. n + 1 |-> [j \in Ids |->
                    IF m = 0 \/ status[j].heir = None THEN j ELSE F[m - 1][status[j].heir]]]
      OBVIOUS
    <2>3. ASSUME NEW m \in 0 .. n, NEW j \in Ids PROVE G[m][j] = F[m][j]
      <3>1. m \in 0 .. n + 1
        OBVIOUS
      <3>2. /\ m = 0 \/ status[j].heir = None => G[m][j] = j
            /\ ~(m = 0 \/ status[j].heir = None) => G[m][j] = F[m - 1][status[j].heir]
        BY <2>2, <3>1
      <3>3. /\ m = 0 \/ status[j].heir = None => F[m][j] = j
            /\ ~(m = 0 \/ status[j].heir = None) => F[m][j] = F[m - 1][status[j].heir]
        <4>1. Unfolded(status, n, F)
          BY <2>1, HeirsUnfold, Zenon
        <4> QED  BY <4>1, Zenon DEF Unfolded
      <3> QED  BY <3>2, <3>3, Zenon
    <2>4. ASSUME NEW m \in 0 .. n + 1, NEW j \in Ids
          PROVE  G[m][j] = IF m = 0 \/ status[j].heir = None THEN j ELSE G[m - 1][status[j].heir]
      <3>1. CASE m = 0 \/ status[j].heir = None
        BY <2>2, <3>1
      <3>2. CASE ~(m = 0 \/ status[j].heir = None)
        <4>1. m - 1 \in 0 .. n /\ status[j].heir \in Ids
          BY <3>2 DEF Succeed
        <4>2. G[m][j] = F[m - 1][status[j].heir]
          BY <2>2, <3>2, SMTT(60)
        <4> QED  BY <2>3, <3>2, <4>1, <4>2
      <3> QED  BY <3>1, <3>2
    <2>5. HeirsOf(status, n + 1, G)
      <3>1. PICK V : V = [m \in 0 .. n + 1 |-> [j \in Ids |->
                IF m = 0 \/ status[j].heir = None THEN j ELSE G[m - 1][status[j].heir]]]
        OBVIOUS
      <3>2. ASSUME NEW m \in 0 .. n + 1 PROVE G[m] = V[m]
        <4>1. G[m] = [j \in Ids |-> G[m][j]]
          BY <2>2
        <4>2. V[m] = [j \in Ids |-> V[m][j]]
          BY <3>1
        <4>3. \A j \in Ids : V[m][j] = G[m][j]
          BY <2>4, <3>1
        <4> QED  BY <4>1, <4>2, <4>3
      <3>3. G = [m \in 0 .. n + 1 |-> G[m]] /\ V = [m \in 0 .. n + 1 |-> V[m]]
        BY <2>2, <3>1
      <3>4. G = V
        BY <3>2, <3>3
      <3> QED  BY <3>1, <3>4 DEF HeirsOf
    <2> QED  BY <2>5
  <1> HIDE DEF S
  <1>3. Nat \subseteq S
    BY <1>1, <1>2, NoLeastMissed
  <1> QED  BY <1>3 DEF S

\* The last of a line has no heir
LEMMA LineEnds ==
    ASSUME NEW status, NEW issued, Succeed(status, issued), NEW F, HeirsOf(status, MaxCredentials, F)
    PROVE  \A i \in Ids : F[MaxCredentials][i] \in issued \cup {i} /\ status[F[MaxCredentials][i]].heir = None
  <1>1. MaxCredentials \in Nat
    BY IdentityAssumption
  <1> DEFINE Ends(m) == \A j \in Ids : MaxCredentials <= j + m =>
                            F[m][j] \in issued \cup {j} /\ status[F[m][j]].heir = None
             S == {m \in Nat : m <= MaxCredentials => Ends(m)}
  <1>2. \A m \in 0 .. MaxCredentials, j \in Ids :
           /\ m = 0 \/ status[j].heir = None => F[m][j] = j
           /\ ~(m = 0 \/ status[j].heir = None) => F[m][j] = F[m - 1][status[j].heir]
    <2>1. Unfolded(status, MaxCredentials, F)
      BY <1>1, HeirsUnfold, Zenon
    <2> QED  BY <2>1, Zenon DEF Unfolded
  <1>3. \A j \in Ids : j \in 1 .. MaxCredentials /\ j \in Nat
    BY <1>1 DEF Ids
  <1>4. 0 \in S
    <2>1. ASSUME NEW j \in Ids, MaxCredentials <= j + 0
          PROVE  F[0][j] \in issued \cup {j} /\ status[F[0][j]].heir = None
      <3>1. status[j].heir = None
        BY <1>1, <1>3, <2>1 DEF Succeed
      <3>2. F[0][j] = j
        BY <1>1, <1>2
      <3> QED  BY <3>1, <3>2
    <2> QED  BY <2>1
  <1>5. ASSUME NEW m \in Nat, m \in S PROVE m + 1 \in S
    <2> SUFFICES ASSUME m + 1 <= MaxCredentials, NEW j \in Ids, MaxCredentials <= j + (m + 1)
                 PROVE  F[m + 1][j] \in issued \cup {j} /\ status[F[m + 1][j]].heir = None
      OBVIOUS
    <2>1. CASE status[j].heir = None
      <3>1. F[m + 1][j] = j
        BY <1>1, <1>2, <2>1
      <3> QED  BY <2>1, <3>1
    <2>2. CASE status[j].heir # None
      <3>1. PICK h : h = status[j].heir
        OBVIOUS
      <3>2. h \in Ids /\ h \in issued /\ j < h
        BY <2>2, <3>1 DEF Succeed
      <3>3. F[m + 1][j] = F[m][h]
        BY <1>1, <1>2, <2>2, <3>1
      <3>4. MaxCredentials <= h + m /\ m <= MaxCredentials
        BY <1>1, <1>3, <3>2
      <3>5. Ends(m)
        BY <1>5, <3>4
      <3> QED  BY <3>2, <3>3, <3>4, <3>5
    <2> QED  BY <2>1, <2>2
  <1> HIDE DEF S
  <1>6. Nat \subseteq S
    BY <1>4, <1>5, NoLeastMissed
  <1>7. Ends(MaxCredentials)
    BY <1>1, <1>6 DEF S
  <1> QED  BY <1>1, <1>3, <1>7

LEMMA CurrentHasNoHeir ==
    ASSUME NEW issued, Succeed(mem.status, issued), NEW i \in Ids
    PROVE  Current(i) \in issued \cup {i} /\ mem.status[Current(i)].heir = None
  <1>1. PICK F : F = CHOOSE H : HeirsOf(mem.status, MaxCredentials, H)
    OBVIOUS
  <1>2. HeirsOf(mem.status, MaxCredentials, F)
    <2>1. \E H : HeirsOf(mem.status, MaxCredentials, H)
      BY HeirsThere, IdentityAssumption
    <2> QED  BY <1>1, <2>1
  <1>3. Current(i) = F[MaxCredentials][i]
    BY <1>1, Zenon DEF Current, HeirsOf
  <1> QED  BY <1>2, <1>3, LineEnds

LEMMA HeirsSucceed ==
    ASSUME NEW f, VenueFits(f)
    PROVE  /\ Succeed(f.status, DOMAIN f.creds) /\ f.status \in [Ids -> {Active, Revoked} \cup Superseded]
           /\ DOMAIN f.creds \subseteq Ids
  <1>1. Heirs(f.status, f.creds) /\ CredsFit(f.creds) /\ MaxCredentials \in Nat
    BY IdentityAssumption DEF VenueFits
  <1>2. DOMAIN f.creds = 1 .. Len(f.creds) /\ Len(f.creds) \in Nat /\ Len(f.creds) <= MaxCredentials
    BY <1>1, LenProperties DEF CredsFit
  <1>3. DOMAIN f.creds \subseteq Ids
    BY <1>1, <1>2 DEF Ids
  <1>4. f.status \in [Ids -> {Active, Revoked} \cup Superseded]
    BY <1>1 DEF Heirs
  <1>5. ASSUME NEW j \in Ids, f.status[j].heir # None
        PROVE  f.status[j].heir \in DOMAIN f.creds /\ j < f.status[j].heir
    <2>1. f.status[j] \in Superseded
      BY <1>4, <1>5 DEF Active, Revoked, None
    <2>2. f.status[j].kind = "SUPERSEDED"
      BY <2>1 DEF Superseded
    <2>3. PICK h : h = f.status[j].heir
      OBVIOUS
    <2>4. h \in DOMAIN f.creds /\ f.creds[h].old = j
      BY <1>1, <2>2, <2>3 DEF Heirs
    <2>5. CredFits(f.creds[h], h)
      BY <1>1, <2>4 DEF CredsFit
    <2>6. j \in 1 .. h - 1 /\ h \in Nat
      <3>1. j # 0 /\ h \in Nat
        BY <1>1, <1>2, <2>4 DEF Ids
      <3> QED  BY <2>4, <2>5, <3>1 DEF CredFits, None
    <2> QED  BY <1>3, <2>3, <2>4, <2>6
  <1> QED  BY <1>3, <1>4, <1>5 DEF Succeed

\* The deal was made under a credential that is on disk
DealInv ==
    /\ deal = [state |-> deal.state, cred |-> deal.cred, at |-> deal.at]
    /\ deal.state \in {"agreed", "active"} => deal.cred \in DOMAIN files.creds

LEMMA CredsStayOnDisk ==
    ASSUME IdInv, [Next]_vars
    PROVE  DOMAIN files.creds \subseteq DOMAIN files'.creds
  <1>1. /\ Len(mem.creds) \in Nat /\ Len(files.creds) \in Nat
        /\ DOMAIN mem.creds = 1 .. Len(mem.creds) /\ DOMAIN files.creds = 1 .. Len(files.creds)
        /\ Len(files.creds) <= Len(mem.creds)
    BY LenProperties DEF IdInv, VenueFits, CredsFit, WritesFit
  <1>2. files = [control |-> files.control, creds |-> files.creds, status |-> files.status,
                 agent |-> files.agent]
    BY DEF IdInv, VenueFits
  <1>3. CASE Write
    <2>1. PICK file : file = Head(unwritten)
      OBVIOUS
    <2>2. files' = files \/ files' = [files EXCEPT ![file] = mem[file]]
      BY <1>3, <2>1 DEF Write
    <2>3. files'.creds \in {files.creds, mem.creds}
      BY <1>2, <2>2
    <2> QED  BY <1>1, <2>3
  <1>4. ASSUME NEW control, files' = [files EXCEPT !.control = control]
        PROVE  files'.creds = files.creds
    BY <1>2, <1>4
  <1>5. ASSUME NEW i \in Ids, Revoke(i) PROVE files'.creds = files.creds
    BY <1>2, <1>5 DEF Revoke
  <1>6. ASSUME NEW r \in Requests,
               \/ \E k \in Keys, p \in Proofs : Onboard(r, k, p)
               \/ Issue(r) \/ Register(r) \/ Refuse(r) \/ Rotate(r)
        PROVE  files' = files
    BY <1>6 DEF Onboard, Issue, Register, Refuse, Rotate
  <1>7. ASSUME NEW r \in Requests, Rotations(r) PROVE files'.creds = files.creds
    BY <1>4, <1>7 DEF Rotations, AskRotation, Saved
  <1>8. CASE \E k \in Keys, at \in 1 .. MaxTime : PostChallenge(k, at)
    BY <1>4, <1>8 DEF PostChallenge, Saved
  <1>9. CASE \E c \in Challenges, right \in BOOLEAN : Verify(c, right)
    <2>1. PICK c \in Challenges, right \in BOOLEAN : Verify(c, right)
      BY <1>9
    <2>2. \E new : Saved([mem.control EXCEPT !.rows[c] = new])
      BY <2>1 DEF Verify
    <2> QED  BY <1>4, <2>2 DEF Saved
  <1>10. CASE (\E i \in Ids : Accept(i)) \/ Commit \/ PickUp \/ PrePickupCheck \/ Tick \/ Crash
    BY <1>10 DEF Accept, Commit, PickUp, PrePickupCheck, Tick, Crash
  <1>11. CASE UNCHANGED vars
    BY <1>11 DEF vars
  <1> QED  BY <1>3, <1>5, <1>6, <1>7, <1>8, <1>9, <1>10, <1>11 DEF Next

LEMMA DealChanges ==
    ASSUME [Next]_vars
    PROVE  \/ deal' = deal
           \/ \E i \in Ids : Accept(i)
           \/ Commit \/ PickUp \/ PrePickupCheck \/ Write
  <1>1. ASSUME NEW r \in Requests,
               \/ \E k \in Keys, p \in Proofs : Onboard(r, k, p)
               \/ Issue(r) \/ Register(r) \/ Refuse(r) \/ Rotations(r) \/ Rotate(r)
        PROVE  deal' = deal
    BY <1>1 DEF Onboard, Issue, Register, Refuse, Rotate, Rotations, AskRotation
  <1>2. CASE \/ \E k \in Keys, at \in 1 .. MaxTime : PostChallenge(k, at)
             \/ \E c \in Challenges, right \in BOOLEAN : Verify(c, right)
             \/ \E i \in Ids : Revoke(i)
             \/ Tick \/ Crash
    BY <1>2 DEF PostChallenge, Verify, Revoke, Tick, Crash
  <1>3. CASE UNCHANGED vars
    BY <1>3 DEF vars
  <1> QED  BY <1>1, <1>2, <1>3 DEF Next

LEMMA DealStands ==
    ASSUME IdInv, DealInv, [Next]_vars
    PROVE  DealInv'
  <1>1. DOMAIN files.creds \subseteq DOMAIN files'.creds
    BY CredsStayOnDisk
  <1>2. CASE \E i \in Ids : Accept(i)
    <2>1. PICK i \in Ids : Accept(i)
      BY <1>2
    <2>2. i \in DOMAIN mem.creds /\ Serving /\ deal'.cred = i
      BY <2>1 DEF Accept, VerifyCredential, Issued
    <2>3. files = mem
      BY <2>2, ServingSame
    <2>4. deal' = [state |-> "agreed", cred |-> i, at |-> now]
      BY <2>1 DEF Accept
    <2> QED  BY <1>1, <2>2, <2>3, <2>4 DEF DealInv
  <1>3. CASE Commit
    <2>1. deal.state = "agreed" /\ \E s : deal' = [deal EXCEPT !.state = s]
      BY <1>3 DEF Commit
    <2>2. deal.cred \in DOMAIN files.creds
      BY <2>1 DEF DealInv
    <2>3. deal'.cred = deal.cred /\ deal' = [state |-> deal'.state, cred |-> deal.cred, at |-> deal.at]
      BY <2>1 DEF DealInv
    <2> QED  BY <1>1, <2>2, <2>3 DEF DealInv
  <1>4. CASE deal' = deal \/ PickUp \/ PrePickupCheck \/ Write
    <2>1. deal' = deal \/ \E s \in {"moving", "voided"} : deal' = [deal EXCEPT !.state = s]
      BY <1>4 DEF PickUp, PrePickupCheck, Write
    <2>2. CASE deal' = deal
      BY <1>1, <2>2 DEF DealInv
    <2>3. CASE deal' # deal
      <3>1. PICK s \in {"moving", "voided"} : deal' = [deal EXCEPT !.state = s]
        BY <2>1, <2>3
      <3> QED  BY <3>1 DEF DealInv
    <2> QED  BY <2>2, <2>3
  <1> QED  BY <1>2, <1>3, <1>4, DealChanges

\* What is voided was made under a credential that is revoked or compromised, or whose
\* heir is, or has expired
LEMMA VoidedForCause ==
    ASSUME IdInv, DealInv, [Next]_vars, deal.state = "active", deal'.state = "voided"
    PROVE  \E i \in Issued : \/ mem.status[i].kind = "REVOKED" \/ ~Unexpired(i)
                             \/ mem.status[i].since # None
  <1>1. /\ Succeed(mem.status, Issued) /\ mem.status \in [Ids -> {Active, Revoked} \cup Superseded]
        /\ DOMAIN mem.creds \subseteq Ids
    BY HeirsSucceed DEF IdInv, Issued
  <1>2. deal.cred \in Issued
    <2>1. deal.cred \in DOMAIN files.creds
      BY DEF DealInv
    <2>2. /\ Len(mem.creds) \in Nat /\ Len(files.creds) \in Nat
          /\ DOMAIN mem.creds = 1 .. Len(mem.creds) /\ DOMAIN files.creds = 1 .. Len(files.creds)
          /\ Len(files.creds) <= Len(mem.creds)
      BY LenProperties DEF IdInv, VenueFits, CredsFit, WritesFit
    <2> QED  BY <2>1, <2>2 DEF Issued
  <1>3. ~(\E i \in Ids : Accept(i)) /\ ~Commit /\ ~PickUp /\ deal' # deal
    <2>1. ASSUME PickUp PROVE FALSE
      <3>1. deal' = [deal EXCEPT !.state = "moving"]
        BY <2>1 DEF PickUp
      <3>2. deal'.state = "moving"
        BY <3>1 DEF DealInv
      <3> QED  BY <3>2
    <2> QED  BY <2>1 DEF Accept, Commit
  <1>4. PrePickupCheck \/ Write
    BY <1>3, DealChanges
  <1>5. CASE ~SignatureTrustedAt(deal.cred, deal.at)
    BY <1>2, <1>5 DEF SignatureTrustedAt
  <1>6. CASE PrePickupCheck /\ SignatureTrustedAt(deal.cred, deal.at)
    <2>1. PICK c : c = Current(deal.cred)
      OBVIOUS
    <2>2. ~VerifyCredential(c)
      BY <1>6, <2>1 DEF PrePickupCheck
    <2>3. c \in Ids /\ mem.status[c].heir = None /\ c \in Issued
      BY <1>1, <1>2, <2>1, CurrentHasNoHeir DEF Issued
    <2>4. mem.status[c] \in {Active, Revoked}
      <3>1. mem.status[c] \notin Superseded
        BY <2>3 DEF Superseded, None
      <3> QED  BY <1>1, <2>3, <3>1
    <2>5. CASE mem.status[c] = Active
      BY <2>2, <2>3, <2>5 DEF VerifyCredential
    <2>6. CASE mem.status[c] = Revoked
      BY <2>3, <2>6 DEF Revoked, Active
    <2> QED  BY <2>4, <2>5, <2>6
  <1>7. CASE Write
    <2>1. ~SignatureTrustedAt(deal.cred, deal.at)
      BY <1>3, <1>7 DEF Write
    <2> QED  BY <1>5, <2>1
  <1> QED  BY <1>4, <1>5, <1>6, <1>7

LEMMA DealStarts == IdentityInit => DealInv
  BY DEF IdentityInit, StartsWith, NoDealAhead, NoDeal, DealInv

\* The credential in force is followed when a company changes its key: a deal is voided
\* only when a credential has been revoked, compromised or has expired (prePickupChecks,
\* currentInLineage); and a key known to be revoked is not relied on once the copies that
\* may not show it are too old (filerKeyOfRecord)
THEOREM KeysAlwaysInTurn == MCSpec => KeysInTurn
  <1> DEFINE Inv == IdInv /\ DealInv
             A == deal.state = "active" /\ deal'.state = "voided" =>
                    \E i \in Issued : \/ mem.status[i].kind = "REVOKED" \/ ~Unexpired(i)
                                      \/ mem.status[i].since # None
             B == Directory!Heard => \E t \in Directory!Recent :
                    Directory!FilerKeyAt(signature'.key, t, signature'.at)
  <1>1. MCInit => Inv
    BY PartsStart, DealStarts DEF MCInit
  <1>2. Inv /\ [MCNext]_<<part, vars, others>> => Inv'
    BY PartsStep, IdentityStep, DealStands
  <1>3. Inv /\ [MCNext]_<<part, vars, others>> => [A]_vars
    BY PartsStep, VoidedForCause
  <1>4. [MCNext]_<<part, vars, others>> => [B]_(Directory!vars)
    <2>1. directory = Directory!vars /\ directory' = Directory!vars'
      BY DEF directory, Directory!vars
    <2>2. Directory!Next => B
      BY HonestAsked
    <2> HIDE DEF B
    <2> QED  BY <2>1, <2>2, PartsStep
  <1>5. MCSpec => [][A]_vars /\ [][B]_(Directory!vars)
    <2> HIDE DEF Inv, A, B
    <2> QED  BY <1>1, <1>2, <1>3, <1>4, PTL DEF MCSpec
  <1> QED  BY <1>5 DEF KeysInTurn, RotationVoidsNothing, Directory!RevokedIsRefused
=============================================================================
