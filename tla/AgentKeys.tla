------------------------------ MODULE AgentKeys -----------------------------
(***************************************************************************)
(* How an agent gets its credential and changes its key (onboard,          *)
(* rotatePrepare, rotateSubmit, installKey of src/agentkit/runtime.ts).    *)
(*                                                                         *)
(* The agent's key is generated at its first start.  It onboards with a    *)
(* proof of control, good once, at its start and when the operator says    *)
(* so.  A key is changed in two steps: the next key is generated and       *)
(* handed to the principal, then sent to the venue with the principal's    *)
(* word.  The operator may call any of these while another one waits for   *)
(* the venue's answer, and the agent may die at any time.                  *)
(***************************************************************************)
EXTENDS Naturals, FiniteSets

CONSTANTS
    MaxKeys,   \* bound: keys the agent generates
    MaxFaults  \* bound: calls or answers lost, deaths

VARIABLES
    credential, \* the venue's: the key of the agent's credential, or 0
    spent,      \* the venue's: the proof of control has been used
    disk,       \* the agent's files: its key, the next key, its credential
    mem,        \* the same in memory
    waiting,    \* functions of the agent waiting for the venue's answer
    calls,      \* calls on their way to the venue
    replies,    \* answers on their way to the agent
    generated,  \* keys generated so far
    faults,     \* faults so far
    replayed,   \* history: an onboarding was refused for its proof
    again       \* history: a next key was prepared over one already sent

vars == <<credential, spent, disk, mem, waiting, calls, replies, generated, faults,
          replayed, again>>
venueVars == <<credential, spent>>

\* Keys are numbers, 0 for none; a credential is known by its key
Files(key, next, cred) == [key |-> key, next |-> next, cred |-> cred]

Init ==
    /\ credential = 0 /\ spent = FALSE
    /\ disk = Files(1, 0, 0) /\ mem = disk
    /\ waiting = {} /\ calls = {} /\ replies = {}
    /\ generated = 1 /\ faults = 0 /\ replayed = FALSE /\ again = FALSE

Fault == faults < MaxFaults /\ faults' = faults + 1

----------------------------------------------------------------------------
(* Onboarding                                                              *)

\* onboard(): a second caller waits for the first one's answer
MayOnboard(n) == mem.cred = 0 /\ \A w \in waiting : w.what # "onboard"

\* onboardOnce(), to its await; n tells two calls apart
Onboard(n) ==
    LET call == [what |-> "onboard", n |-> n, key |-> mem.key]
    IN  /\ MayOnboard(n) /\ call \notin waiting
        /\ waiting' = waiting \cup {call} /\ calls' = calls \cup {call}
        /\ UNCHANGED <<venueVars, disk, mem, replies, generated, faults, replayed, again>>

\* The venue's onboard: the proof is spent with the credential, which it may
\* still refuse to register; or it refuses before that
VenueOnboards(c) ==
    /\ c \in calls /\ c.what = "onboard"
    /\ calls' = calls \ {c}
    /\ \/ /\ ~spent /\ spent' = TRUE /\ credential' = c.key
          /\ replies' = replies \cup {[call |-> c, cred |-> c.key]}
          /\ UNCHANGED replayed
       \/ /\ ~spent /\ spent' = TRUE
          /\ replies' = replies \cup {[call |-> c, cred |-> 0]}
          /\ UNCHANGED <<credential, replayed>>
       \/ /\ replies' = replies \cup {[call |-> c, cred |-> 0]}
          /\ replayed' = (replayed \/ spent)
          /\ UNCHANGED venueVars
    /\ UNCHANGED <<disk, mem, waiting, generated, faults, again>>

Took(r) == waiting' = waiting \ {r.call} /\ replies' = replies \ {r}

\* onboardOnce(), after it
Onboarded(r) ==
    /\ r \in replies /\ r.call \in waiting /\ r.call.what = "onboard"
    /\ Took(r)
    /\ IF r.cred = 0 THEN UNCHANGED <<disk, mem>>
       ELSE mem' = [mem EXCEPT !.cred = r.cred] /\ disk' = [disk EXCEPT !.cred = r.cred]
    /\ UNCHANGED <<venueVars, calls, generated, faults, replayed, again>>

----------------------------------------------------------------------------
(* Rotation                                                                *)

Prepare ==
    /\ mem.cred # 0 /\ generated < MaxKeys
    /\ generated' = generated + 1
    /\ mem' = [mem EXCEPT !.next = generated'] /\ disk' = [disk EXCEPT !.next = generated']
    /\ again' = (again \/ credential # mem.key
                       \/ \E c \in waiting \cup calls : c.what = "rotate")
    /\ UNCHANGED <<venueVars, waiting, calls, replies, faults, replayed>>

\* rotateSubmit(), to its await: for the credential it holds
Submit ==
    LET call == [what |-> "rotate", n |-> mem.cred, key |-> mem.next]
    IN  /\ mem.cred # 0 /\ mem.next # 0 /\ call \notin waiting \cup calls
        /\ waiting' = waiting \cup {call} /\ calls' = calls \cup {call}
        /\ UNCHANGED <<venueVars, disk, mem, replies, generated, faults, replayed, again>>

\* The venue's rotate: of the current credential only
VenueRotates(c) ==
    /\ c \in calls /\ c.what = "rotate"
    /\ calls' = calls \ {c}
    /\ \/ /\ c.n = credential /\ credential' = c.key
          /\ replies' = replies \cup {[call |-> c, cred |-> c.key]}
       \/ /\ replies' = replies \cup {[call |-> c, cred |-> 0]}
          /\ UNCHANGED credential
    /\ UNCHANGED <<spent, disk, mem, waiting, generated, faults, replayed, again>>

\* rotateSubmit(), after it, and installKey(): the next key as it is by now
Rotated(r) ==
    /\ r \in replies /\ r.call \in waiting /\ r.call.what = "rotate"
    /\ Took(r)
    /\ IF r.cred = 0 \/ mem.next = 0 THEN UNCHANGED <<disk, mem>>
       ELSE /\ mem' = Files(mem.next, 0, r.cred)
            /\ disk' = mem'
    /\ UNCHANGED <<venueVars, calls, generated, faults, replayed, again>>

----------------------------------------------------------------------------
(* Faults                                                                  *)

\* A call is lost, or its answer: the function ends with an error
Drops(w) ==
    /\ w \in waiting /\ Fault
    /\ waiting' = waiting \ {w}
    /\ replies' = {r \in replies : r.call # w}
    /\ \E late \in {{}, {w}} : calls' = calls \ late
    /\ UNCHANGED <<venueVars, disk, mem, generated, replayed, again>>

\* The answer to a call nobody waits for
Unheard(r) ==
    /\ r \in replies /\ r.call \notin waiting
    /\ replies' = replies \ {r}
    /\ UNCHANGED <<venueVars, disk, mem, waiting, calls, generated, faults, replayed, again>>

\* It starts again from its files: the next key is not among what it reads
Restart(files) ==
    /\ Fault
    /\ disk' = files /\ mem' = [files EXCEPT !.next = 0]
    /\ waiting' = {}
    /\ UNCHANGED <<venueVars, calls, replies, generated, replayed, again>>

\* What a death in installKey() leaves: the key, then the credential, are written
CutShort(cred) == {Files(mem.next, disk.next, c) : c \in {mem.cred, cred}}

\* It dies between two steps, or in installKey()
Dies ==
    \/ Restart(disk)
    \/ \E r \in replies :
          /\ r.call \in waiting /\ r.call.what = "rotate" /\ r.cred # 0 /\ mem.next # 0
          /\ \E files \in CutShort(r.cred) : Restart(files)

Next ==
    \/ \E n \in {1, 2} : Onboard(n)
    \/ \E c \in calls : VenueOnboards(c) \/ VenueRotates(c)
    \/ \E r \in replies : Onboarded(r) \/ Rotated(r) \/ Unheard(r)
    \/ Prepare \/ Submit
    \/ \E w \in waiting : Drops(w)
    \/ Dies

Spec == Init /\ [][Next]_vars

----------------------------------------------------------------------------
\* A proof is good once, and the agent never presents it in vain while nothing
\* is lost and the venue registers what it spent the proof on: the calls of its
\* start and of its operator share one attempt (onboard)
ProofNotWasted == faults = 0 /\ (spent => credential # 0) => ~replayed

\* The key of the agent's credential at the venue is in its files, whenever it
\* dies, unless a next key was prepared over one the venue was sent (rotateSubmit,
\* installKey)
KeyInHand == credential # 0 /\ ~again => credential \in {disk.key, disk.next}

\* The agent has what it needs to speak for its principal
KeepsItsIdentity == ProofNotWasted /\ KeyInHand

\* Key and credential are swapped together (runtime.ts:295)
KeyOfItsCredential == mem.cred # 0 => mem.cred = mem.key
=============================================================================
