----------------------------- MODULE Watchlist ------------------------------
(***************************************************************************)
(* News of a company from the vetting provider's watchlist: watchlistSweep   *)
(* (venue/service.ts), run by the scheduler one at a time, and watch and      *)
(* changes of CarrierOkMonitor (identity/vetting-carrierok.ts).               *)
(*                                                                         *)
(* The provider tells what changed of what it watches, from a day on; the     *)
(* venue asks from the day of the sweep before.  What a sweep does with news,   *)
(* the checks before pickup, is in Identity and VenueCommit.                    *)
(***************************************************************************)
EXTENDS Naturals

CONSTANTS
    HoursADay,
    MaxHours,  \* bound: the clock
    MaxNews    \* bound: changes at the provider

VARIABLES
    hour,
    live,     \* is there an ACTIVE commitment of the company?
    watched,  \* does the provider watch it?
    news,     \* changes not told yet: the hour of each, and whether the company was
              \* watched then and some sweep had been answered
    since,    \* watchlistSince, on disk; 0: never
    sweep,    \* the sweep that runs
    happened  \* changes so far

watchlistVars == <<hour, live, watched, news, since, sweep, happened>>

NoSweep == [stage |-> "none"]
Day(h) == h \div HoursADay

WatchlistInit ==
    /\ hour = HoursADay /\ live = FALSE /\ watched = FALSE
    /\ news = {} /\ since = 0 /\ happened = 0
    /\ sweep = NoSweep

Tick ==
    /\ hour < MaxHours /\ hour' = hour + 1
    /\ UNCHANGED <<live, watched, news, since, sweep, happened>>

\* A deal is made, or has ended
Deals ==
    /\ live' = ~live
    /\ UNCHANGED <<hour, watched, news, since, sweep, happened>>

\* The authority or the insurance of the company changes
Changes ==
    /\ happened < MaxNews /\ happened' = happened + 1
    /\ news' = news \cup {[at |-> hour, followed |-> watched /\ since # 0]}
    /\ UNCHANGED <<hour, live, watched, since, sweep>>

Begin ==
    /\ sweep = NoSweep
    /\ sweep' = [stage |-> "watch", began |-> hour, live |-> live, told |-> {}]
    /\ UNCHANGED <<hour, live, watched, news, since, happened>>

\* watch: with nobody to watch nothing is asked, and a refusal is not looked at
Watch ==
    /\ sweep.stage = "watch"
    /\ sweep' = [sweep EXCEPT !.stage = "changes"]
    /\ watched' \in {watched, watched \/ sweep.live}
    /\ UNCHANGED <<hour, live, news, since, happened>>

\* From the sweep before on, or from a day ago
From == IF since = 0 THEN sweep.began - HoursADay ELSE since

\* The provider looks up what changed, by the day
Look ==
    /\ sweep.stage = "changes"
    /\ sweep' = [sweep EXCEPT !.stage = "told",
                    !.told = {n \in news : watched /\ Day(n.at) >= Day(From)}]
    /\ UNCHANGED <<hour, live, watched, news, since, happened>>

\* Mutant: from when this sweep ends
AsOfTheAnswer(s) == hour

\* The next sweep asks from when this one began
AskedFrom(s) == s.began

\* The answer arrives, and the checks it calls for are done
Told ==
    /\ sweep.stage = "told"
    /\ news' = news \ sweep.told
    /\ since' = AskedFrom(sweep)
    /\ sweep' = NoSweep
    /\ UNCHANGED <<hour, live, watched, happened>>

\* No answer, or the venue dies on the way
Fails ==
    /\ sweep # NoSweep /\ sweep' = NoSweep
    /\ UNCHANGED <<hour, live, watched, news, since, happened>>

WatchlistNext ==
    Tick \/ Deals \/ Changes \/ Begin \/ Watch \/ Look \/ Told \/ Fails

----------------------------------------------------------------------------
(* Properties *)

NotAskedFor(n) == since # 0 /\ Day(n.at) < Day(since)

\* Once a sweep has been answered, what changes of a company the provider watches
\* is told by some sweep, or the next one still asks for it, with sweeps that
\* fail, that take until the next day, and changes while they run
\* (watchlistSweep, changes).  Before, it is asked for a day back only.
NoNewsLost == \A n \in news : n.followed => ~NotAskedFor(n)
=============================================================================
