------------------------------- MODULE StuckNotice -------------------------------
(***************************************************************************)
(* The reminder of a run that waits: sweeps of the reconciler, of which    *)
(* two may overlap when its leadership moves, remind the user once in a    *)
(* waiting episode.  The stamp is a claim until the push is accepted; a    *)
(* claim that is too old is taken to be a dead sweep's.  An episode is a   *)
(* value of the run's updatedAt.                                           *)
(***************************************************************************)
EXTENDS Naturals, FiniteSets

CONSTANTS
  Sweeps,       \* sweeps that may overlap
  MaxEpisodes,  \* bound: waits of the run
  MaxLapses     \* bound: claims that outlive their time, pushes that fail, and crashes

ASSUME StuckNoticeAssumption ==
  IsFiniteSet(Sweeps) /\ MaxEpisodes \in Nat \ {0} /\ MaxLapses \in Nat

VARIABLES
  episode,   \* the run's updatedAt
  waits,     \* its status is one of STUCK_WORK_STATUSES
  age,       \* how long it has waited
  notices,   \* its "stuck" events
  nextId,    \* id of the next event
  sweep,     \* the locals of each sweep
  pushes,    \* per episode, the pushes a device got
  mistaken,  \* history: per episode, the claims that aged out or were dropped after a push
  lapses

noticeVars == <<episode, waits, age, notices, nextId, sweep, pushes, mistaken, lapses>>

Episodes == 1 .. MaxEpisodes
NoSweep == [pc |-> "idle", of |-> 1, claim |-> 0, sent |-> FALSE]

StuckNoticeTypeOK ==
  /\ episode \in Episodes /\ waits \in BOOLEAN /\ age \in {"young", "due", "old"}
  /\ notices \subseteq [id : Nat, of : Episodes, state : {"pending", "delivered"}, fresh : BOOLEAN]
  /\ \A n, m \in notices : n.id = m.id => n = m
  /\ nextId \in Nat
  /\ sweep \in [Sweeps -> [pc : {"idle", "claim", "push", "stamp", "expire"}, of : Episodes,
                           claim : Nat, sent : BOOLEAN]]
  /\ pushes \in [Episodes -> Nat] /\ mistaken \in [Episodes -> Nat]
  /\ lapses \in 0 .. MaxLapses

StuckNoticeInit ==
  /\ episode = 1 /\ waits = TRUE /\ age = "young"
  /\ notices = {} /\ nextId = 1
  /\ sweep = [s \in Sweeps |-> NoSweep]
  /\ pushes = [e \in Episodes |-> 0] /\ mistaken = [e \in Episodes |-> 0]
  /\ lapses = 0

Lapses == lapses < MaxLapses /\ lapses' = lapses + 1

--------------------------------------------------------------------------------
(* The run *)

GrowOld ==
  /\ waits /\ age # "old"
  /\ age' = IF age = "young" THEN "due" ELSE "old"
  /\ UNCHANGED <<episode, waits, notices, nextId, sweep, pushes, mistaken, lapses>>

\* Answered, taken over, or taken by a worker.
GoesOn ==
  /\ waits
  /\ waits' = FALSE
  /\ UNCHANGED <<episode, age, notices, nextId, sweep, pushes, mistaken, lapses>>

WaitsAgain ==
  /\ ~waits /\ episode < MaxEpisodes /\ age # "old"
  /\ episode' = episode + 1 /\ waits' = TRUE /\ age' = "young"
  /\ UNCHANGED <<notices, nextId, sweep, pushes, mistaken, lapses>>

--------------------------------------------------------------------------------
(* reconcileStuckWork *)

SweepTo(s, pc) == sweep' = [sweep EXCEPT ![s].pc = pc]

\* noticeIsDelivered, pendingClaimFresh
Delivered(e) == \E n \in notices : n.of = e /\ n.state = "delivered"
Claimed(e) == \E n \in notices : n.of = e /\ n.state = "pending" /\ n.fresh

\* The run is read, and then its notices.
Scan(s) ==
  /\ sweep[s].pc = "idle" /\ waits /\ age # "young"
  /\ age = "due" => ~Delivered(episode)
  /\ sweep' = [sweep EXCEPT ![s] = [NoSweep EXCEPT
       !.pc = IF age = "old" THEN "expire" ELSE "claim", !.of = episode]]
  /\ UNCHANGED <<episode, waits, age, notices, nextId, pushes, mistaken, lapses>>

\* Mutant: only the scan has looked for a claim.
TakenMutantScanned(e) == FALSE

Taken(e) == Delivered(e) \/ Claimed(e)

\* claimStuckReminder, under the lock of the thread: a stale claim is replaced.
ClaimReminder(s) ==
  LET e == sweep[s].of IN
  /\ sweep[s].pc = "claim"
  /\ IF waits /\ episode = e /\ ~Taken(e)
     THEN /\ notices' = {n \in notices : ~(n.of = e /\ n.state = "pending")}
                  \cup {[id |-> nextId, of |-> e, state |-> "pending", fresh |-> TRUE]}
          /\ nextId' = nextId + 1
          /\ sweep' = [sweep EXCEPT ![s].pc = "push", ![s].claim = nextId]
     ELSE SweepTo(s, "idle") /\ UNCHANGED <<notices, nextId>>
  /\ UNCHANGED <<episode, waits, age, pushes, mistaken, lapses>>

Push(s) ==
  /\ sweep[s].pc = "push"
  /\ pushes' = [pushes EXCEPT ![sweep[s].of] = @ + 1]
  /\ sweep' = [sweep EXCEPT ![s].pc = "stamp", ![s].sent = TRUE]
  /\ UNCHANGED <<episode, waits, age, notices, nextId, mistaken, lapses>>

\* The call fails; the device may have got the push all the same.
PushFails(s) ==
  /\ sweep[s].pc = "push" /\ Lapses
  /\ \E got \in {0, 1} :
       /\ pushes' = [pushes EXCEPT ![sweep[s].of] = @ + got]
       /\ mistaken' = [mistaken EXCEPT ![sweep[s].of] = @ + got]
  /\ SweepTo(s, "stamp")
  /\ UNCHANGED <<episode, waits, age, notices, nextId>>

\* markStuckNoticeDelivered fails when its claim is gone; clearStuckNotice does not.
Stamp(s) ==
  /\ sweep[s].pc = "stamp"
  /\ notices' = {n \in notices : n.id # sweep[s].claim} \cup
       {[n EXCEPT !.state = "delivered"] : n \in {m \in notices : m.id = sweep[s].claim /\ sweep[s].sent}}
  /\ SweepTo(s, "idle")
  /\ UNCHANGED <<episode, waits, age, nextId, pushes, mistaken, lapses>>

\* STUCK_NOTICE_CLAIM_TTL_MS passes, whether or not its sweep is still at work.
ClaimAges ==
  \E n \in notices :
    /\ n.state = "pending" /\ n.fresh /\ Lapses
    /\ notices' = (notices \ {n}) \cup {[n EXCEPT !.fresh = FALSE]}
    /\ mistaken' = [mistaken EXCEPT ![n.of] = @ + 1]
    /\ UNCHANGED <<episode, waits, age, nextId, sweep, pushes>>

SweepDies(s) ==
  /\ sweep[s].pc # "idle" /\ Lapses
  /\ sweep' = [sweep EXCEPT ![s] = NoSweep]
  /\ UNCHANGED <<episode, waits, age, notices, nextId, pushes, mistaken>>

\* expireOne: the run of this episode is cancelled.
ExpireWait(s) ==
  /\ sweep[s].pc = "expire"
  /\ waits' = (waits /\ episode # sweep[s].of)
  /\ SweepTo(s, "idle")
  /\ UNCHANGED <<episode, age, notices, nextId, pushes, mistaken, lapses>>

StuckNoticeNext ==
  \/ GrowOld \/ GoesOn \/ WaitsAgain \/ ClaimAges
  \/ \E s \in Sweeps :
       \/ Scan(s) \/ ClaimReminder(s) \/ Push(s) \/ PushFails(s) \/ Stamp(s)
       \/ SweepDies(s) \/ ExpireWait(s)

StuckNoticeSpec == StuckNoticeInit /\ [][StuckNoticeNext]_noticeVars

--------------------------------------------------------------------------------
\* "Remind once": in one waiting episode a device gets one reminder, however sweeps overlap.
\* One more comes only for a claim that outlived its time while its sweep was still at work or
\* could not stamp it, and for a push whose answer was lost.  (remindStuckRun)
RemindedOnce == \A e \in Episodes : pushes[e] <= 1 + mistaken[e]
================================================================================
