----------------------------- MODULE VenueStore -----------------------------
(***************************************************************************)
(* How the venue's state gets to disk and back: commit (venue/db.ts), load   *)
(* and persist (venue/state.ts).  The maps in memory are written in one       *)
(* transaction, row by row where a row is not what was written last; what     *)
(* was written last is remembered in memory.  A venue that is started takes    *)
(* its state from the database, or the first time from the file it had before.  *)
(*                                                                         *)
(* A row is a version number; SQLite is external: what a transaction writes     *)
(* is on disk when it commits, or not at all.                                  *)
(***************************************************************************)
EXTENDS Naturals

CONSTANTS
    Rows,        \* of all tables; Alive is the one that every persist changes
    Alive,
    MaxVersions, \* bound: versions of a row
    MaxFaults    \* bound: crashes and writes that fail

VARIABLES
    mem,     \* [Rows -> version]; 0: no such row
    written, \* what was written last, as the process remembers it
    disk,    \* what the last transaction that committed has left
    legacy,  \* snapshot.json: its rows, or none
    phase, \* "down", "loaded" (state taken from snapshot.json), "up"
    writing, \* rows the transaction under way has yet to come to
    last,    \* history: the state last persisted without an error, or found at the
             \* start after a process in which a write failed
    failed,  \* history: a write has failed in the life of this process
    faults

storeVars == <<mem, written, disk, legacy, phase, writing, last, failed, faults>>

NoRows == [r \in Rows |-> 0]
NoFile == [r \in {} |-> 0]
NotWriting == [todo |-> {}, rows |-> NoRows, open |-> FALSE]

StoreInit ==
    /\ disk = NoRows /\ mem = NoRows /\ written = NoRows
    /\ legacy \in {NoFile, [r \in Rows |-> 1]}
    /\ phase = "down" /\ writing = NotWriting
    /\ last = IF legacy = NoFile THEN NoRows ELSE legacy
    /\ failed = FALSE /\ faults = 0

\* A handler changes rows, adds and drops them
Work ==
    /\ phase = "up" /\ ~writing.open
    /\ \E r \in Rows \ {Alive}, v \in 0 .. MaxVersions :
        v # mem[r] /\ mem' = [mem EXCEPT ![r] = v]
    /\ UNCHANGED <<written, disk, legacy, phase, writing, last, failed, faults>>

\* persist: BEGIN, and the heartbeat, which is a row that changes every time
Persist ==
    /\ phase \in {"up", "loaded"} /\ ~writing.open
    /\ mem' = [mem EXCEPT ![Alive] = IF @ = MaxVersions THEN 1 ELSE @ + 1]
    /\ writing' = [todo |-> Rows, rows |-> disk, open |-> TRUE]
    /\ UNCHANGED <<written, disk, legacy, phase, last, failed, faults>>

\* One row: upserted or deleted if it is not as it was written, and remembered
WriteRow ==
    /\ writing.open
    /\ \E r \in writing.todo :
        /\ writing' = [writing EXCEPT !.todo = @ \ {r},
                          !.rows[r] = IF written[r] = mem[r] THEN @ ELSE mem[r]]
        /\ written' = [written EXCEPT ![r] = mem[r]]
    /\ UNCHANGED <<mem, disk, legacy, phase, last, failed, faults>>

\* COMMIT.  A state taken from snapshot.json is in the database now
Commit ==
    /\ writing.open /\ writing.todo = {}
    /\ disk' = writing.rows /\ last' = mem
    /\ writing' = NotWriting
    /\ UNCHANGED <<mem, written, legacy, phase, failed, faults>>

\* A write fails: ROLLBACK, and the exception goes to whoever called persist.
\* One that has just been started ends with it
Fault == faults < MaxFaults /\ faults' = faults + 1
Rollback ==
    /\ Fault /\ writing.open
    /\ writing' = NotWriting
    /\ phase' = IF phase = "loaded" THEN "down" ELSE phase
    /\ failed' = TRUE
    /\ UNCHANGED <<mem, written, disk, legacy, last>>

Crash ==
    /\ Fault /\ phase # "down"
    /\ phase' = "down" /\ writing' = NotWriting
    /\ UNCHANGED <<mem, written, disk, legacy, last, failed>>

WithLegacy == legacy # NoFile /\ disk[Alive] = 0

\* What load finds on disk is what was written
Loaded == disk

Start ==
    /\ phase = "down"
    /\ IF WithLegacy
       THEN mem' = legacy /\ written' = NoRows /\ phase' = "loaded"
       ELSE mem' = disk /\ written' = Loaded /\ phase' = "up"
    /\ failed' = FALSE /\ last' = IF failed THEN mem' ELSE last
    /\ UNCHANGED <<disk, legacy, writing, faults>>

\* The file is removed when its rows have been written
Unlink ==
    /\ phase = "loaded" /\ ~writing.open /\ disk[Alive] # 0
    /\ phase' = "up" /\ legacy' = NoFile
    /\ UNCHANGED <<mem, written, disk, writing, last, failed, faults>>

StoreNext ==
    Work \/ Persist \/ WriteRow \/ Commit \/ Rollback \/ Crash \/ Start \/ Unlink

----------------------------------------------------------------------------
(* Properties *)

Restored == IF WithLegacy THEN legacy ELSE disk

\* A venue that is started again has the state it last persisted, with all the
\* rows of one moment and none that were dropped since, whatever the crash came in
\* between, and while it took its state over from snapshot.json (commit, load):
\* as long as no write has failed in the life of its process.
RestoredAsPersisted == ~failed /\ ~writing.open => Restored = last

\* db.ts:5, "every persisted view is internally consistent": the rows on disk are
\* those of one moment
ConsistentView == ~writing.open => Restored = last
=============================================================================
