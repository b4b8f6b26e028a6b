------------------------- MODULE RunLifecycle_promises -------------------------
(***************************************************************************)
(* What RunLifecycle promises the user, for every set of runs, messages,   *)
(* invocations and processes: no steering message is stranded, messages    *)
(* and continuations never start a second conversation, and each step of   *)
(* the API, the sweeps and the workers is one step of Outcome, or none.    *)
(* Where no claim reuses a lease that is at work, only the turn that holds *)
(* the run writes to it, no message is dropped unheard, and a run parked   *)
(* for the screen is bound to it.                                          *)
(***************************************************************************)
EXTENDS RunLifecycle_proofs

\* A row of the table rw has its owner in the runs rn.
Owned(m, rn, rw) ==
  rw[m].state # "absent" =>
    \/ rw[m].run = NoRun /\ \E r \in Runs : rn[r].status \in ActiveStatuses
    \/ /\ rw[m].run # NoRun
       /\ \/ rn[rw[m].run].status \in ActiveStatuses
          \/ rn[rw[m].run].status = "failed" /\ m <= rn[rw[m].run].src

\* r is not started by this step, or as the only active run, or by a wake.
StartsAlone(r) ==
  Starts(r) /\ run'[r].trigger \in {"user", "follow_up"}
    => \A q \in Runs \ {r} : run'[q].status \notin ActiveStatuses

SInv == TypeOK /\ SteeringHasOwner

\* What each step keeps.
Safe == SteeringHasOwner' /\ \A r \in Runs : StartsAlone(r)

LEMMA OwnedIs == SteeringHasOwner <=> \A m \in Msgs : Owned(m, run, row)
BY DEF SteeringHasOwner, Owned, Active

LEMMA OwnedNext == SteeringHasOwner' <=> \A m \in Msgs : Owned(m, run', row')
BY DEF SteeringHasOwner, Owned, Active

\* A run that keeps going keeps its messages.
Keeps(r) ==
  /\ run[r].status \in ActiveStatuses => run'[r].status \in ActiveStatuses
  /\ run[r].status = "failed" => run'[r].status = "failed" /\ run'[r].src = run[r].src
  /\ run[r].status = "none" => run'[r].status = "none"

RowsKept ==
  \A m \in Msgs : \/ row'[m].state = "absent"
                  \/ row'[m].run = row[m].run /\ row[m].state # "absent"
                  \/ row'[m].run \in Runs /\ run'[row'[m].run].status \in ActiveStatuses

LEMMA KeepsSafe ==
  ASSUME SInv, \A r \in Runs : Keeps(r), RowsKept
  PROVE  Safe
<1>1. ASSUME NEW m \in Msgs PROVE Owned(m, run', row')
  <2>1. Owned(m, run, row) /\ (row[m].run = NoRun \/ row[m].run \in Runs)
    BY OwnedIs DEF SInv, TypeOK, Steering
  <2>2. CASE row'[m].state = "absent"
    BY <2>2 DEF Owned
  <2>3. CASE row'[m].run = row[m].run /\ row[m].state # "absent"
    BY <2>1, <2>3 DEF Owned, Keeps
  <2>4. CASE row'[m].run \in Runs /\ run'[row'[m].run].status \in ActiveStatuses
    BY <2>4, NoRunAssumption DEF Owned
  <2> QED
    BY <2>2, <2>3, <2>4 DEF RowsKept
<1>2. ASSUME NEW r \in Runs PROVE StartsAlone(r)
  BY DEF StartsAlone, Starts, Keeps
<1> QED
  BY <1>1, <1>2, OwnedNext DEF Safe

LEMMA RowsKeptSafe ==
  ASSUME SInv, \A r \in Runs : Keeps(r), UNCHANGED row
  PROVE  Safe
<1>1. RowsKept
  BY DEF RowsKept
<1> QED
  BY <1>1, KeepsSafe

LEMMA UnchangedSafe ==
  ASSUME SInv, UNCHANGED <<run, row>>
  PROVE  Safe
<1>1. \A r \in Runs : Keeps(r)
  BY DEF Keeps
<1> QED
  BY <1>1, RowsKeptSafe

\* One row of the runs table is edited, from and to an active status or in place.
LEMMA EditKeeps ==
  ASSUME TypeOK, NEW q \in Runs, NEW x, run' = [run EXCEPT ![q] = x],
         \/ run[q].status \in ActiveStatuses /\ x.status \in ActiveStatuses
         \/ x.status = run[q].status /\ x.src = run[q].src
  PROVE  \A r \in Runs : Keeps(r)
<1> SUFFICES ASSUME NEW r \in Runs PROVE Keeps(r)
  OBVIOUS
<1>1. run'[r] = IF r = q THEN x ELSE run[r]
  BY DEF TypeOK
<1> QED
  BY <1>1 DEF Keeps, ActiveStatuses

LEMMA EditSafe ==
  ASSUME SInv, NEW q \in Runs, NEW x, run' = [run EXCEPT ![q] = x],
         \/ run[q].status \in ActiveStatuses /\ x.status \in ActiveStatuses
         \/ x.status = run[q].status /\ x.src = run[q].src,
         UNCHANGED row
  PROVE  Safe
<1>1. \A r \in Runs : Keeps(r)
  BY EditKeeps DEF SInv
<1> QED
  BY <1>1, RowsKeptSafe

LEMMA QueuedSafe ==
  ASSUME SInv, NEW q \in Runs, NEW ckpt, run' = Queued(q, ckpt),
         run[q].status \in ActiveStatuses, UNCHANGED row
  PROVE  Safe
<1> DEFINE x == [run[q] EXCEPT !.status = "queued", !.ckpt = ckpt]
<1>1. run' = [run EXCEPT ![q] = x]
  BY DEF Queued
<1>2. x.status \in ActiveStatuses
  BY DEF SInv, TypeOK, Row, ActiveStatuses
<1> QED
  BY <1>1, <1>2, EditSafe

-----------------------------------------------------------------------------
(* Runs that start and runs that end. *)

\* A new run beside which nothing is active, or which a wake started.
LEMMA CreateSafe ==
  ASSUME SInv, NEW q \in Runs, NEW trigger, NEW src, Create(q, trigger, src), UNCHANGED row,
         trigger \in {"user", "follow_up"} => \A r \in Runs : ~Active(r)
  PROVE  Safe
<1>1. run[q].status = "none" /\ run' = [run EXCEPT ![q] = NewRow(trigger, src)]
  BY DEF Create
<1>2. NewRow(trigger, src).status = "queued" /\ NewRow(trigger, src).trigger = trigger
  BY DEF NewRow
<1>3. /\ run'[q].status = "queued" /\ run'[q].trigger = trigger
      /\ \A r \in Runs : r # q => run'[r] = run[r]
  BY <1>1, <1>2 DEF SInv, TypeOK
<1>4. ASSUME NEW m \in Msgs PROVE Owned(m, run', row')
  <2>1. Owned(m, run, row) /\ (row[m].run = NoRun \/ row[m].run \in Runs)
    BY OwnedIs DEF SInv, TypeOK, Steering
  <2> QED
    BY <1>1, <1>3, <2>1 DEF Owned, ActiveStatuses
<1>5. ASSUME NEW r \in Runs PROVE StartsAlone(r)
  BY <1>3 DEF StartsAlone, Starts, Active
<1> QED
  BY <1>4, <1>5, OwnedNext DEF Safe

\* createSteeringContinuation finds an owner for every row that has none, when the rows
\* of the runs that go on are kept.
LEMMA ContinuationSafe ==
  ASSUME SInv, NEW rn \in [Runs -> Row], NEW rw \in [Msgs -> Steering], NEW n,
         createSteeringContinuation(rn, rw, n),
         \A m \in Msgs : rw[m].state # "absent" /\ rw[m].run # NoRun => Owned(m, rn, rw),
         \A r \in Runs : run[r].status = "none" => rn[r].status = "none"
  PROVE  Safe
<1>1. CASE NeedsContinuation(rn, rw)
  <2>1. PICK k \in Msgs : run' = [rn EXCEPT ![n] = NewRow("follow_up", k)]
    BY <1>1 DEF createSteeringContinuation
  <2>2. /\ n \in Runs /\ rn[n].status = "none"
        /\ row' = [m \in Msgs |-> IF m \in Unassigned(rw)
                                  THEN [state |-> "waiting", run |-> n] ELSE rw[m]]
    BY <1>1 DEF createSteeringContinuation
  <2>3. NewRow("follow_up", k).status = "queued"
    BY DEF NewRow
  <2>4. run'[n].status = "queued" /\ \A r \in Runs : r # n => run'[r] = rn[r]
    BY <2>1, <2>2, <2>3
  <2>5. ASSUME NEW m \in Msgs PROVE Owned(m, run', row')
    <3>1. CASE m \in Unassigned(rw)
      <4>1. row'[m].run = n
        BY <2>2, <3>1
      <4> QED
        BY <2>2, <2>4, <4>1, NoRunAssumption DEF Owned, ActiveStatuses
    <3>2. CASE m \notin Unassigned(rw)
      <4>1. row'[m] = rw[m]
        BY <2>2, <3>2
      <4>2. rw[m].state # "absent" => rw[m].run \in Runs /\ Owned(m, rn, rw)
        BY <3>2 DEF Unassigned, Steering
      <4> QED
        BY <2>2, <2>4, <4>1, <4>2, NoRunAssumption DEF Owned, ActiveStatuses
    <3> QED
      BY <3>1, <3>2
  <2>6. ASSUME NEW r \in Runs PROVE StartsAlone(r)
    <3>1. \A q \in Runs : rn[q].status \notin ActiveStatuses
      BY <1>1 DEF NeedsContinuation
    <3>2. CASE r = n
      BY <2>4, <3>1, <3>2 DEF StartsAlone
    <3>3. CASE r # n
      BY <2>4, <3>3 DEF StartsAlone, Starts
    <3> QED
      BY <3>2, <3>3
  <2> QED
    BY <2>5, <2>6, OwnedNext DEF Safe
<1>2. CASE ~NeedsContinuation(rn, rw)
  <2>1. run' = rn /\ row' = rw
    BY <1>2 DEF createSteeringContinuation
  <2>2. ASSUME NEW m \in Msgs PROVE Owned(m, rn, rw)
    <3>1. CASE m \in Unassigned(rw)
      BY <1>2, <3>1 DEF NeedsContinuation, Owned, Unassigned
    <3>2. CASE m \notin Unassigned(rw)
      BY <3>2 DEF Owned, Unassigned
    <3> QED
      BY <3>1, <3>2
  <2>3. ASSUME NEW r \in Runs PROVE StartsAlone(r)
    BY <2>1 DEF StartsAlone, Starts
  <2> QED
    BY <2>1, <2>2, <2>3, OwnedNext DEF Safe
<1> QED
  BY <1>1, <1>2

LEMMA FinalizeSafe ==
  ASSUME SInv, NEW c \in Conts, NEW outcome \in {"completed", "failed"}, NEW n,
         Holder(c), finalizeRun(c, outcome, n)
  PROVE  Safe
<1> DEFINE q  == cont[c].run
           ended == [run[q] EXCEPT !.status = outcome, !.owner = NoProc, !.live = FALSE,
                                   !.commits = run[q].commits + 1]
           rn == [run EXCEPT ![q] = ended]
           rw == [m \in Msgs |-> settled(q, outcome, m)]
<1>1. TypeOK /\ q \in Runs /\ run[q] \in Row /\ run[q].status = "running"
  BY HolderType DEF SInv, TypeOK, Holder
<1>2. ended \in Row /\ ended.status = outcome /\ ended.src = run[q].src
  BY <1>1, EndedType DEF Row
<1>3. rn \in [Runs -> Row] /\ rn[q] = ended /\ \A r \in Runs : r # q => rn[r] = run[r]
  BY <1>1, <1>2 DEF TypeOK
<1>4. rw \in [Msgs -> Steering]
  BY <1>1, SettledType
<1>5. createSteeringContinuation(rn, rw, n)
  BY DEF finalizeRun
<1>6. ASSUME NEW m \in Msgs, rw[m].state # "absent", rw[m].run # NoRun PROVE Owned(m, rn, rw)
  <2>1. rw[m] = settled(q, outcome, m)
    OBVIOUS
  <2>2. row[m] \in Steering /\ Owned(m, run, row) /\ NoRun \notin Runs
    BY <1>1, OwnedIs, NoRunAssumption DEF SInv, TypeOK
  <2>3. rw[m] = row[m] /\ (row[m].run = q => outcome = "failed" /\ ~(m > run[q].src))
    BY <1>6, <2>1, <2>2 DEF settled, Steering, NoSteering
  <2>4. row[m].run \in Runs
    BY <1>6, <2>2, <2>3 DEF Steering
  <2>5. CASE row[m].run = q
    <3>1. m <= run[q].src
      BY <1>1, <2>3, <2>5, BoundsAssumption DEF Msgs, Row
    <3>2. ended.status = "failed" /\ m <= ended.src
      BY <1>2, <2>3, <2>5, <3>1
    <3> HIDE DEF ended, rw, rn, q
    <3> QED
      BY <1>3, <1>6, <2>3, <2>5, <3>2 DEF Owned
  <2>6. CASE row[m].run # q
    <3> HIDE DEF ended, rw, rn, q
    <3> QED
      BY <1>3, <1>6, <2>2, <2>3, <2>4, <2>6 DEF Owned
  <2> QED
    BY <2>5, <2>6
<1>7. \A r \in Runs : run[r].status = "none" => rn[r].status = "none"
  BY <1>1, <1>3
<1> HIDE DEF ended, rw, rn, q
<1> QED
  BY <1>3, <1>4, <1>5, <1>6, <1>7, ContinuationSafe

LEMMA ExpireStuckSafe ==
  ASSUME SInv, NEW q \in Runs, ExpireStuck(q)
  PROVE  Safe
<1> DEFINE x == [run[q] EXCEPT !.status = "cancelled", !.owner = NoProc, !.live = FALSE]
           rn == [run EXCEPT ![q] = x]
           rw == [m \in Msgs |-> IF row[m].run = q THEN [state |-> "waiting", run |-> NoRun]
                                                   ELSE row[m]]
<1>1. TypeOK /\ run[q] \in Row /\ run[q].status \in {"queued"} \cup Waiting
  BY DEF SInv, TypeOK, ExpireStuck
<1>2. x \in Row
  BY <1>1 DEF Row, Statuses, TerminalStatuses
<1>3. rn \in [Runs -> Row] /\ \A r \in Runs : r # q => rn[r] = run[r]
  BY <1>1, <1>2 DEF TypeOK
<1>4. rw \in [Msgs -> Steering]
  BY <1>1 DEF TypeOK, Steering
<1>5. PICK n \in Runs \cup {NoRun} : createSteeringContinuation(rn, rw, n)
  BY DEF ExpireStuck
<1>6. ASSUME NEW m \in Msgs, rw[m].state # "absent", rw[m].run # NoRun PROVE Owned(m, rn, rw)
  <2>1. rw[m] = row[m] /\ row[m].run # q
    BY <1>6
  <2>2. row[m].run \in Runs /\ Owned(m, run, row)
    BY <1>1, <1>6, <2>1, OwnedIs DEF SInv, TypeOK, Steering
  <2> HIDE DEF rn, rw
  <2> QED
    BY <1>3, <1>6, <2>1, <2>2 DEF Owned
<1>7. \A r \in Runs : run[r].status = "none" => rn[r].status = "none"
  BY <1>1, <1>3 DEF Waiting
<1> HIDE DEF rn, rw
<1> QED
  BY <1>3, <1>4, <1>5, <1>6, <1>7, ContinuationSafe

\* stopThreadRuns and clearThread leave no row.
LEMMA CancelSafe ==
  ASSUME SInv, Stop \/ Clear
  PROVE  Safe
<1>1. ASSUME NEW m \in Msgs PROVE Owned(m, run', row')
  <2>1. row' = [k \in Msgs |-> NoSteering]
    BY DEF Stop, Clear
  <2>2. row'[m].state = "absent"
    BY <2>1 DEF NoSteering
  <2> QED
    BY <2>2 DEF Owned
<1>2. ASSUME NEW r \in Runs PROVE StartsAlone(r)
  <2>1. run[r] \in Row
    BY DEF SInv, TypeOK
  <2>2. ASSUME run[r].status = "none" PROVE run'[r].status = "none"
    <3>1. ~Active(r)
      BY <2>2 DEF Active, ActiveStatuses
    <3>2. run'[r] = run[r] \/ run'[r] = [run[r] EXCEPT !.src = 0]
      BY <3>1 DEF Stop, Clear
    <3> QED
      BY <2>1, <2>2, <3>2 DEF Row
  <2> QED
    BY <2>2 DEF StartsAlone, Starts
<1> QED
  BY <1>1, <1>2, OwnedNext DEF Safe

-----------------------------------------------------------------------------
(* Every step. *)

LEMMA UserSafe ==
  ASSUME SInv, User
  PROVE  Safe
<1>1. ASSUME UNCHANGED <<run, row>> PROVE Safe
  BY <1>1, UnchangedSafe
<1>2. ASSUME NEW q \in Runs, NEW t \in {"user", "follow_up"}, SendNew(q, t) PROVE Safe
  BY <1>2, CreateSafe DEF SendNew
<1>3. ASSUME NEW q \in Runs, SendAnswer(q) \/ Answer(q) PROVE Safe
  <2>1. run[q].status \in ActiveStatuses /\ UNCHANGED row
    BY <1>3 DEF SendAnswer, Answer, ActiveStatuses
  <2>2. PICK ckpt : run' = Queued(q, ckpt)
    BY <1>3 DEF SendAnswer, Answer
  <2> QED
    BY <2>1, <2>2, QueuedSafe
<1>4. ASSUME NEW q \in Runs, SendSteer(q) \/ FollowUpSteer(q) PROVE Safe
  <2>1. run[q].status \in ActiveStatuses
    BY <1>4 DEF SendSteer, FollowUpSteer, Active
  <2>2. run' = run \/ run' = Queued(q, "released")
    BY <1>4 DEF SendSteer, FollowUpSteer
  <2>3. (\A r \in Runs : Keeps(r)) /\ run'[q].status \in ActiveStatuses
    <3>1. CASE run' = run
      BY <2>1, <3>1 DEF Keeps
    <3>2. CASE run' = Queued(q, "released")
      <4> DEFINE x == [run[q] EXCEPT !.status = "queued", !.ckpt = "released"]
      <4>1. run' = [run EXCEPT ![q] = x]
        BY <3>2 DEF Queued
      <4>2. x.status \in ActiveStatuses
        BY DEF SInv, TypeOK, Row, ActiveStatuses
      <4>3. run'[q] = x
        BY <4>1 DEF SInv, TypeOK
      <4> HIDE DEF x
      <4> QED
        BY <2>1, <4>1, <4>2, <4>3, EditKeeps DEF SInv
    <3> QED
      BY <2>2, <3>1, <3>2
  <2>4. RowsKept
    <3>1. row' = [row EXCEPT ![sent'] = [state |-> "waiting", run |-> q]]
      BY <1>4 DEF SendSteer, FollowUpSteer
    <3>2. \A m \in Msgs : row'[m] = row[m] \/ row'[m].run = q
      BY <3>1 DEF SInv, TypeOK
    <3> QED
      BY <2>3, <3>2 DEF RowsKept
  <2> QED
    BY <2>3, <2>4, KeepsSafe
<1>5. ASSUME NEW q \in Runs, NEW t \in Wakes, NEW src \in 0..sent, Wake(q, t, src) PROVE Safe
  <2>1. t \notin {"user", "follow_up"}
    BY WakesAssumption
  <2> QED
    BY <1>5, <2>1, CreateSafe DEF Wake
<1>6. ASSUME NEW q \in Runs \cup {NoRun}, TakeControl(q) PROVE Safe
  BY <1>1, <1>6 DEF TakeControl
<1>7. ASSUME ReleaseControl PROVE Safe
  <2>1. UNCHANGED row
    BY <1>7 DEF ReleaseControl
  <2>2. CASE run' = run
    BY <1>1, <2>1, <2>2
  <2>3. CASE ctl \in Runs /\ run[ctl].status = "waiting_takeover" /\ run' = Queued(ctl, "released")
    BY <2>1, <2>3, QueuedSafe DEF ActiveStatuses
  <2>4. CASE ctl \in Runs /\ run' = [run EXCEPT ![ctl] = [@ EXCEPT !.ckpt = "released"]]
    <3> DEFINE x == [run[ctl] EXCEPT !.ckpt = "released"]
    <3>1. x.status = run[ctl].status /\ x.src = run[ctl].src
      BY <2>4 DEF SInv, TypeOK, Row
    <3>2. run' = [run EXCEPT ![ctl] = x]
      BY <2>4
    <3> QED
      BY <2>1, <2>4, <3>1, <3>2, EditSafe
  <2>5. ctl = NoRun \/ ctl \in Runs
    BY DEF SInv, TypeOK
  <2> QED
    BY <1>7, <2>2, <2>3, <2>4, <2>5 DEF ReleaseControl, Leasable
<1> QED
  BY <1>2, <1>3, <1>4, <1>5, <1>6, <1>7, CancelSafe DEF User

LEMMA SweepSafe ==
  ASSUME SInv, Sweep
  PROVE  Safe
<1>1. ASSUME NEW q \in Runs, Expire(q) PROVE Safe
  <2> DEFINE x == [run[q] EXCEPT !.live = FALSE]
  <2>1. x.status = run[q].status /\ x.src = run[q].src
    BY DEF SInv, TypeOK, Row
  <2>2. run' = [run EXCEPT ![q] = x] /\ UNCHANGED row
    BY <1>1 DEF Expire
  <2> QED
    BY <2>1, <2>2, EditSafe
<1>2. ASSUME NEW q \in Runs, Reconcile(q) PROVE Safe
  BY <1>2, UnchangedSafe DEF Reconcile
<1> QED
  BY <1>1, <1>2, ExpireStuckSafe DEF Sweep

LEMMA RequeueSafe ==
  ASSUME SInv, NEW c \in Conts, NEW resume \in BOOLEAN, NEW held \in BOOLEAN, NEW charged,
         requeueComputerRun(c, resume, held, charged)
  PROVE  Safe
<1>1. CASE Holder(c)
  <2> DEFINE q == cont[c].run
             written == writeComputerRunRequeue(run[q], resume, held)
             x == [written EXCEPT !.fails = run[q].fails + charged]
  <2>1. q \in Runs /\ run[q] \in Row /\ run[q].status \in ActiveStatuses
    BY <1>1, HolderType DEF SInv, TypeOK, Holder, ActiveStatuses
  <2>2. written \in Row /\ written.status \in ActiveStatuses
    <3>1. written \in Row
      BY <2>1, RequeueType
    <3>2. written.status \in ActiveStatuses
      BY <2>1 DEF writeComputerRunRequeue, computerRunRequeueData, Row, ActiveStatuses
    <3> QED
      BY <3>1, <3>2
  <2>3. x.status \in ActiveStatuses
    BY <2>2 DEF Row
  <2>4. run' = [run EXCEPT ![q] = x] /\ UNCHANGED row
    BY <1>1 DEF requeueComputerRun
  <2> HIDE DEF x
  <2> QED
    BY <2>1, <2>3, <2>4, EditSafe
<1>2. CASE ~Holder(c)
  BY <1>2, UnchangedSafe DEF requeueComputerRun
<1> QED
  BY <1>1, <1>2

\* claimSteering claims for a run that is running.
LEMMA ClaimSteeringSafe ==
  ASSUME SInv, NEW c \in Conts, claimSteering(c), UNCHANGED run
  PROVE  Safe
<1>1. \A r \in Runs : Keeps(r)
  BY DEF Keeps
<1>2. CASE Holder(c)
  <2>1. cont[c].run \in Runs /\ run[cont[c].run].status \in ActiveStatuses
    BY <1>2, HolderType DEF SInv, Holder, ActiveStatuses
  <2>2. row' = [m \in Msgs |-> IF m \in Claimable(c) /\ row[m].state = "waiting"
                               THEN [state |-> "claimed", run |-> cont[c].run] ELSE row[m]]
    BY <1>2 DEF claimSteering
  <2>3. \A m \in Msgs : row'[m] = row[m] \/ row'[m].run = cont[c].run
    BY <2>2
  <2>4. RowsKept
    BY <2>1, <2>3 DEF RowsKept
  <2> QED
    BY <1>1, <2>4, KeepsSafe
<1>3. CASE ~Holder(c)
  BY <1>3, UnchangedSafe DEF claimSteering
<1> QED
  BY <1>2, <1>3

LEMMA AdvanceSafe ==
  ASSUME SInv, NEW c \in Conts, Advance(c)
  PROVE  Safe
<1>1. ASSUME UNCHANGED <<run, row>> PROVE Safe
  BY <1>1, UnchangedSafe
<1> DEFINE q == cont[c].run
<1>2. CASE Claim(c)
  <2> DEFINE x == [run[q] EXCEPT !.status = "leased", !.owner = ProcOf[c],
                                 !.fence = cont[c].fence, !.live = TRUE, !.ckpt = "none"]
  <2>1. CASE claimable(c)
    <3>1. q \in Runs
      BY <1>2 DEF Claim, SInv, TypeOK, Local, Slot
    <3>2. run[q] \in Row /\ run[q].status \in ActiveStatuses
      BY <2>1, <3>1 DEF SInv, TypeOK, claimable, Waiting, Leasable, ActiveStatuses
    <3>3. x.status \in ActiveStatuses
      BY <3>2 DEF Row, ActiveStatuses
    <3>4. run' = [run EXCEPT ![q] = x] /\ UNCHANGED row
      BY <1>2, <2>1 DEF Claim
    <3> HIDE DEF x
    <3> QED
      BY <3>1, <3>2, <3>3, <3>4, EditSafe
  <2>2. CASE ~claimable(c)
    BY <1>1, <1>2, <2>2 DEF Claim
  <2> QED
    BY <2>1, <2>2
<1>3. CASE Start(c)
  <2> DEFINE x == [run[q] EXCEPT !.status = "running"]
  <2>1. q \in Runs /\ UNCHANGED row
    BY <1>3 DEF Start, SInv, TypeOK, Local, Slot
  <2>2. x.status \in ActiveStatuses
    BY <2>1 DEF SInv, TypeOK, Row, ActiveStatuses
  <2>3. CASE run' = run
    BY <1>1, <2>1, <2>3
  <2>4. CASE run[q].status = "leased" /\ run' = [run EXCEPT ![q] = x]
    <3>1. run[q].status \in ActiveStatuses
      BY <2>4 DEF ActiveStatuses
    <3> HIDE DEF x
    <3> QED
      BY <2>1, <2>2, <2>4, <3>1, EditSafe
  <2> QED
    BY <1>3, <2>3, <2>4 DEF Start
<1>4. CASE Acquire(c) \/ Prepare(c) \/ Lost(c)
  BY <1>1, <1>4 DEF Acquire, Prepare, Lost
<1>5. CASE BeginTurn(c)
  BY <1>5, ClaimSteeringSafe DEF BeginTurn
<1>6. CASE HeldReleased(c)
  BY <1>6, RequeueSafe DEF HeldReleased
<1> QED
  BY <1>2, <1>3, <1>4, <1>5, <1>6 DEF Advance

LEMMA WorkerSafe ==
  ASSUME SInv, Worker
  PROVE  Safe
<1>1. ASSUME UNCHANGED <<run, row>> PROVE Safe
  BY <1>1, UnchangedSafe
<1>2. ASSUME NEW c \in Conts PROVE cont[c].resume \in BOOLEAN /\ cont[c].held \in BOOLEAN
  BY DEF SInv, TypeOK, Local, Slot
<1>3. ASSUME NEW c \in Conts, Heartbeat(c) PROVE Safe
  <2> DEFINE q == cont[c].run
             x == [run[q] EXCEPT !.live = TRUE]
  <2>1. q \in Runs
    BY <1>3, HolderType DEF Heartbeat, SInv
  <2>2. x.status = run[q].status /\ x.src = run[q].src
    BY <2>1 DEF SInv, TypeOK, Row
  <2>3. run' = [run EXCEPT ![q] = x] /\ UNCHANGED row
    BY <1>3 DEF Heartbeat
  <2> QED
    BY <2>1, <2>2, <2>3, EditSafe
<1>4. ASSUME NEW c \in Conts, Ask(c) \/ RequestTakeover(c) PROVE Safe
  <2> DEFINE q == cont[c].run
             x(s, k) == [run[q] EXCEPT !.status = s, !.owner = NoProc, !.live = FALSE, !.ckpt = k]
  <2>1. q \in Runs /\ run[q] \in Row /\ run[q].status = "running" /\ UNCHANGED row
    BY <1>4, HolderType DEF Ask, RequestTakeover, Holder, SInv, TypeOK
  <2>2. PICK s \in Waiting : \E k : run' = [run EXCEPT ![q] = x(s, k)]
    BY <1>4 DEF Ask, RequestTakeover, Waiting
  <2>3. PICK k : run' = [run EXCEPT ![q] = x(s, k)]
    BY <2>2
  <2>4. x(s, k).status \in ActiveStatuses /\ run[q].status \in ActiveStatuses
    BY <2>1 DEF Row, Waiting, ActiveStatuses
  <2> HIDE DEF x
  <2> QED
    BY <2>1, <2>3, <2>4, EditSafe
<1>5. ASSUME NEW c \in Conts, EndTurn(c) PROVE Safe
  <2>1. ASSUME NEW n \in Runs \cup {NoRun}, NEW outcome \in {"completed", "failed"},
               Finish(c, outcome, n)
        PROVE  Safe
    BY <2>1, FinalizeSafe DEF Finish
  <2> QED
    BY <1>4, <1>5, <2>1 DEF EndTurn
<1>6. ASSUME NEW c \in Conts, SetupFails(c) PROVE Safe
  <2>1. ASSUME NEW n \in Runs \cup {NoRun}, SetupTerminal(c, n) PROVE Safe
    BY <2>1, FinalizeSafe DEF SetupTerminal
  <2>2. CASE SetupRetry(c)
    <3> DEFINE q == cont[c].run
               back == computerRunRequeueData(run[q], cont[c].resume, FALSE)
               x == [back EXCEPT !.fails = run[q].fails + 1]
    <3>1. q \in Runs /\ run[q] \in Row /\ run[q].status \in ActiveStatuses /\ UNCHANGED row
      BY <2>2, HolderType DEF SetupRetry, Holder, SInv, TypeOK, ActiveStatuses
    <3>2. back \in Row /\ back.status \in ActiveStatuses
      <4>1. back \in Row
        BY <1>2, <3>1, RequeueType
      <4>2. back.status \in ActiveStatuses
        BY <3>1 DEF computerRunRequeueData, Row, ActiveStatuses
      <4> QED
        BY <4>1, <4>2
    <3>3. x.status \in ActiveStatuses
      BY <3>2 DEF Row
    <3>4. run' = [run EXCEPT ![q] = x]
      BY <2>2 DEF SetupRetry
    <3> HIDE DEF x
    <3> QED
      BY <3>1, <3>3, <3>4, EditSafe
  <2>3. CASE SetupBusy(c)
    BY <1>2, <2>3, RequeueSafe DEF SetupBusy
  <2>4. CASE AcquireBusy(c)
    BY <1>2, <2>4, RequeueSafe DEF AcquireBusy
  <2> QED
    BY <1>6, <2>1, <2>2, <2>3, <2>4 DEF SetupFails
<1>7. ASSUME NEW c \in Conts, (\E r \in Runs : Deliver(c, r)) \/ Abandon(c) PROVE Safe
  BY <1>1, <1>7 DEF Deliver, Abandon
<1>8. ASSUME NEW c \in Conts, ClaimMore(c) PROVE Safe
  BY <1>8, ClaimSteeringSafe DEF ClaimMore
<1>9. ASSUME NEW p \in Procs, Crash(p) PROVE Safe
  BY <1>1, <1>9 DEF Crash
<1> QED
  BY <1>3, <1>5, <1>6, <1>7, <1>8, <1>9, AdvanceSafe DEF Worker

LEMMA StepSafe ==
  ASSUME SInv, [Next]_vars
  PROVE  Safe
<1>1. CASE UNCHANGED vars
  BY <1>1, UnchangedSafe DEF vars
<1> QED
  BY <1>1, UserSafe, SweepSafe, WorkerSafe DEF Next

LEMMA SteeringInductive == Spec => []SInv
<1>1. Init => SteeringHasOwner
  BY DEF Init, SteeringHasOwner, NoSteering
<1>2. SInv /\ [Next]_vars => SteeringHasOwner'
  BY StepSafe DEF Safe
<1> QED
  BY <1>1, <1>2, TypeCorrect, PTL DEF Spec, SInv

-----------------------------------------------------------------------------
\* No message sent into a busy thread is stranded: whatever ends, is requeued, expires or
\* is stopped, a steering row has a run that will claim or continue it.
THEOREM SteeringIsOwned == Spec => []SteeringHasOwner
<1>1. SInv => SteeringHasOwner
  BY DEF SInv
<1> QED
  BY <1>1, SteeringInductive, PTL

\* Neither a message nor the continuation of an ended run starts a run beside an active one.
THEOREM ConversationsAreOne == Spec => OneConversation
<1>1. SInv /\ [Next]_vars
        => [\A r \in Runs :
              Starts(r) /\ run'[r].trigger \in {"user", "follow_up"}
                => \A q \in Runs \ {r} : run'[q].status \notin ActiveStatuses]_vars
  BY StepSafe DEF Safe, StartsAlone
<1> QED
  BY <1>1, SteeringInductive, PTL DEF Spec, OneConversation

-----------------------------------------------------------------------------
(* The refinement of Outcome *)

Phase == [r \in Runs |-> PhaseOf(run[r].status)]

LEMMA PhaseIs == \A r \in Runs : Phase[r] = PhaseOf(run[r].status)
BY DEF Phase

LEMMA PhasesApart ==
  /\ \A s \in {"queued"} \cup Leasable : PhaseOf(s) = "working"
  /\ \A s \in Waiting : PhaseOf(s) = "waiting"
  /\ \A s \in TerminalStatuses \cup {"none"} : PhaseOf(s) = s
  /\ \A s \in Statuses : PhaseOf(s) \in Promise!Open <=> s \in ActiveStatuses
BY DEF PhaseOf, Leasable, Waiting, TerminalStatuses, Statuses, ActiveStatuses, Promise!Open

\* Nothing the user sees.
Stutters == Phase' = Phase

LEMMA UnchangedStutters == UNCHANGED run => Stutters
BY DEF Stutters, Phase

LEMMA EditPhase ==
  ASSUME TypeOK, NEW q \in Runs, NEW x, run' = [run EXCEPT ![q] = x]
  PROVE  Phase' = [Phase EXCEPT ![q] = PhaseOf(x.status)]
BY DEF TypeOK, Phase

LEMMA EditStutters ==
  ASSUME TypeOK, NEW q \in Runs, NEW x, run' = [run EXCEPT ![q] = x],
         PhaseOf(x.status) = PhaseOf(run[q].status)
  PROVE  Stutters
<1>1. Phase' = [Phase EXCEPT ![q] = Phase[q]]
  BY EditPhase, PhaseIs
<1> QED
  BY <1>1 DEF Stutters, Phase

Promised == Promise!Next \/ Stutters

\* A row parked, or put back to work.
LEMMA EditPromised ==
  ASSUME TypeOK, NEW q \in Runs, NEW x, run' = [run EXCEPT ![q] = x],
         \/ run[q].status \in Waiting /\ x.status \in {"queued"} \cup Leasable
         \/ run[q].status \in {"queued"} \cup Leasable /\ x.status \in Waiting
         \/ run[q].status = "none" /\ x.status = "queued"
         \/ PhaseOf(x.status) = PhaseOf(run[q].status)
  PROVE  Promised
<1>1. Phase' = [Phase EXCEPT ![q] = PhaseOf(x.status)] /\ Phase[q] = PhaseOf(run[q].status)
  BY EditPhase, PhaseIs
<1>2. CASE run[q].status \in Waiting /\ x.status \in {"queued"} \cup Leasable
  <2>1. Promise!Resume(q)
    BY <1>1, <1>2, PhasesApart DEF Promise!Resume, Phase
  <2> QED
    BY <2>1 DEF Promised, Promise!Next
<1>3. CASE run[q].status \in {"queued"} \cup Leasable /\ x.status \in Waiting
  <2>1. Promise!Park(q)
    BY <1>1, <1>3, PhasesApart DEF Promise!Park, Phase
  <2> QED
    BY <2>1 DEF Promised, Promise!Next
<1>4. CASE run[q].status = "none" /\ x.status = "queued"
  <2>1. Promise!Accept(q)
    BY <1>1, <1>4, PhasesApart DEF Promise!Accept, Phase
  <2> QED
    BY <2>1 DEF Promised, Promise!Next
<1>5. CASE PhaseOf(x.status) = PhaseOf(run[q].status)
  BY <1>5, EditStutters DEF Promised
<1> QED
  BY <1>2, <1>3, <1>4, <1>5

LEMMA CreatePromised ==
  ASSUME TypeOK, NEW q \in Runs, NEW trigger, NEW src, Create(q, trigger, src)
  PROVE  Promised
<1>1. run[q].status = "none" /\ run' = [run EXCEPT ![q] = NewRow(trigger, src)]
  BY DEF Create
<1>2. NewRow(trigger, src).status = "queued"
  BY DEF NewRow
<1> QED
  BY <1>1, <1>2, EditPromised

LEMMA QueuedPromised ==
  ASSUME TypeOK, NEW q \in Runs, NEW ckpt, run' = Queued(q, ckpt), run[q].status \in Waiting
  PROVE  Promised
<1> DEFINE x == [run[q] EXCEPT !.status = "queued", !.ckpt = ckpt]
<1>1. run' = [run EXCEPT ![q] = x]
  BY DEF Queued
<1>2. x.status = "queued"
  BY DEF TypeOK, Row
<1> QED
  BY <1>1, <1>2, EditPromised

-----------------------------------------------------------------------------
(* Work that ends, and what it leaves over. *)

LEMMA ContinuationPromised ==
  ASSUME NEW rn \in [Runs -> Row], NEW rw, NEW n, createSteeringContinuation(rn, rw, n)
  PROVE  Promise!EndWith([r \in Runs |-> PhaseOf(rn[r].status)])
<1> DEFINE p == [r \in Runs |-> PhaseOf(rn[r].status)]
<1>1. CASE NeedsContinuation(rn, rw)
  <2>1. PICK m \in Msgs : run' = [rn EXCEPT ![n] = NewRow("follow_up", m)]
    BY <1>1 DEF createSteeringContinuation
  <2>2. n \in Runs /\ rn[n].status = "none"
    BY <1>1 DEF createSteeringContinuation
  <2>3. NewRow("follow_up", m).status = "queued" /\ PhaseOf("queued") = "working"
        /\ PhaseOf("none") = "none"
    BY PhasesApart DEF NewRow
  <2>4. Phase' = [p EXCEPT ![n] = "working"] /\ p[n] = "none"
    BY <2>1, <2>2, <2>3 DEF Phase
  <2>5. Promise!Quiet(p)
    <3>1. \A r \in Runs : rn[r].status \in Statuses \ ActiveStatuses
      BY <1>1 DEF NeedsContinuation, Row
    <3> QED
      BY <3>1, PhasesApart DEF Promise!Quiet
  <2> QED
    BY <2>2, <2>4, <2>5 DEF Promise!EndWith, Phase
<1>2. CASE ~NeedsContinuation(rn, rw)
  <2>1. run' = rn
    BY <1>2 DEF createSteeringContinuation
  <2> QED
    BY <2>1 DEF Promise!EndWith
<1> QED
  BY <1>1, <1>2

\* The row of q gets its last status.
LEMMA EndedPhase ==
  ASSUME TypeOK, NEW q \in Runs, NEW x
  PROVE  [r \in Runs |-> PhaseOf([run EXCEPT ![q] = x][r].status)]
           = [Phase EXCEPT ![q] = PhaseOf(x.status)]
BY DEF TypeOK, Phase

LEMMA FinalizePromised ==
  ASSUME TypeOK, NEW c \in Conts, NEW outcome \in {"completed", "failed"}, NEW n,
         Holder(c), finalizeRun(c, outcome, n)
  PROVE  Promised
<1> DEFINE q  == cont[c].run
           ended == [run[q] EXCEPT !.status = outcome, !.owner = NoProc, !.live = FALSE,
                                   !.commits = run[q].commits + 1]
           rn == [run EXCEPT ![q] = ended]
           rw == [m \in Msgs |-> settled(q, outcome, m)]
<1>1. q \in Runs /\ run[q] \in Row /\ run[q].status = "running"
  BY HolderType DEF TypeOK, Holder
<1>2. ended \in Row /\ ended.status = outcome
  BY <1>1, EndedType DEF Row
<1>3. rn \in [Runs -> Row]
  BY <1>2 DEF TypeOK
<1>4. createSteeringContinuation(rn, rw, n)
  BY DEF finalizeRun
<1>5. Promise!EndWith([r \in Runs |-> PhaseOf(rn[r].status)])
  BY <1>3, <1>4, ContinuationPromised
<1>6. [r \in Runs |-> PhaseOf(rn[r].status)] = [Phase EXCEPT ![q] = outcome]
  <2>1. PhaseOf(ended.status) = outcome
    BY <1>2, PhasesApart DEF TerminalStatuses
  <2> HIDE DEF ended, q
  <2> QED
    BY <1>1, <2>1, EndedPhase
<1>7. Phase[q] = "working"
  BY <1>1, PhaseIs, PhasesApart DEF Leasable
<1>8. Promise!Deliver(q)
  BY <1>5, <1>6, <1>7 DEF Promise!Deliver, Phase
<1> QED
  BY <1>1, <1>8 DEF Promised, Promise!Next

LEMMA ExpireStuckPromised ==
  ASSUME TypeOK, NEW q \in Runs, ExpireStuck(q)
  PROVE  Promised
<1> DEFINE x == [run[q] EXCEPT !.status = "cancelled", !.owner = NoProc, !.live = FALSE]
           rn == [run EXCEPT ![q] = x]
           rw == [m \in Msgs |-> IF row[m].run = q THEN [state |-> "waiting", run |-> NoRun]
                                                   ELSE row[m]]
<1>1. run[q] \in Row /\ run[q].status \in {"queued"} \cup Waiting
  BY DEF TypeOK, ExpireStuck
<1>2. x \in Row /\ x.status = "cancelled"
  BY <1>1 DEF Row, Statuses, TerminalStatuses
<1>3. rn \in [Runs -> Row]
  BY <1>2 DEF TypeOK
<1>4. PICK n \in Runs \cup {NoRun} : createSteeringContinuation(rn, rw, n)
  BY DEF ExpireStuck
<1>5. Promise!EndWith([r \in Runs |-> PhaseOf(rn[r].status)])
  BY <1>3, <1>4, ContinuationPromised
<1>6. [r \in Runs |-> PhaseOf(rn[r].status)] = [Phase EXCEPT ![q] = "cancelled"]
  <2>1. PhaseOf(x.status) = "cancelled"
    BY <1>2, PhasesApart DEF TerminalStatuses
  <2> HIDE DEF x
  <2> QED
    BY <2>1, EndedPhase
<1>7. Phase[q] \in Promise!Open
  BY <1>1, PhaseIs, PhasesApart DEF Waiting, ActiveStatuses, Statuses
<1>8. Promise!GiveUp(q)
  BY <1>5, <1>6, <1>7 DEF Promise!GiveUp, Phase
<1> QED
  BY <1>8 DEF Promised, Promise!Next

\* stopThreadRuns and clearThread.
LEMMA CancelPromised ==
  ASSUME TypeOK, Stop \/ Clear
  PROVE  Promised
<1>1. \A r \in Runs : run[r] \in Row /\ run[r].status \in Statuses
  BY DEF TypeOK, Row
<1>2. \A r \in Runs : run'[r].status = IF run[r].status \in ActiveStatuses THEN "cancelled"
                                       ELSE run[r].status
  BY <1>1 DEF Stop, Clear, Active, Row
<1>3. PhaseOf("cancelled") = "cancelled"
  BY PhasesApart DEF TerminalStatuses
<1>4. \A r \in Runs : PhaseOf(run'[r].status) = IF Phase[r] \in Promise!Open THEN "cancelled" ELSE Phase[r]
  BY <1>1, <1>2, <1>3, PhaseIs, PhasesApart
<1>5. Phase' = [r \in Runs |-> IF Phase[r] \in Promise!Open THEN "cancelled" ELSE Phase[r]]
  BY <1>4 DEF Phase
<1>6. Promise!CancelAll
  BY <1>5 DEF Promise!CancelAll, Phase
<1> QED
  BY <1>6 DEF Promised, Promise!Next

-----------------------------------------------------------------------------
(* Every step. *)

LEMMA UserPromised ==
  ASSUME TypeOK, User
  PROVE  Promised
<1>1. ASSUME UNCHANGED run PROVE Promised
  BY <1>1, UnchangedStutters DEF Promised
<1>2. ASSUME NEW q \in Runs, NEW t \in {"user", "follow_up"}, SendNew(q, t) PROVE Promised
  BY <1>2, CreatePromised DEF SendNew
<1>3. ASSUME NEW q \in Runs, SendAnswer(q) \/ Answer(q) PROVE Promised
  <2>1. run[q].status \in Waiting
    BY <1>3 DEF SendAnswer, Answer, Waiting
  <2>2. PICK ckpt : run' = Queued(q, ckpt)
    BY <1>3 DEF SendAnswer, Answer
  <2> QED
    BY <2>1, <2>2, QueuedPromised
<1>4. ASSUME NEW q \in Runs, SendSteer(q) PROVE Promised
  <2>1. CASE run[q].status = "waiting_takeover" /\ ~userHolds
    BY <1>4, <2>1, QueuedPromised DEF SendSteer, Waiting
  <2>2. CASE ~(run[q].status = "waiting_takeover" /\ ~userHolds)
    BY <1>1, <1>4, <2>2 DEF SendSteer
  <2> QED
    BY <2>1, <2>2
<1>5. ASSUME NEW q \in Runs, FollowUpSteer(q) PROVE Promised
  BY <1>1, <1>5 DEF FollowUpSteer
<1>6. ASSUME NEW q \in Runs, NEW t \in Wakes, NEW src \in 0..sent, Wake(q, t, src) PROVE Promised
  BY <1>6, CreatePromised DEF Wake
<1>7. ASSUME NEW q \in Runs \cup {NoRun}, TakeControl(q) PROVE Promised
  BY <1>1, <1>7 DEF TakeControl
<1>8. ASSUME ReleaseControl PROVE Promised
  <2>1. CASE run' = run
    BY <1>1, <2>1
  <2>2. CASE ctl \in Runs /\ run[ctl].status = "waiting_takeover" /\ run' = Queued(ctl, "released")
    BY <2>2, QueuedPromised DEF Waiting
  <2>3. CASE ctl \in Runs /\ run' = [run EXCEPT ![ctl] = [@ EXCEPT !.ckpt = "released"]]
    <3> DEFINE x == [run[ctl] EXCEPT !.ckpt = "released"]
    <3>1. x.status = run[ctl].status
      BY <2>3 DEF TypeOK, Row
    <3>2. run' = [run EXCEPT ![ctl] = x]
      BY <2>3
    <3> QED
      BY <2>3, <3>1, <3>2, EditPromised
  <2>4. ctl = NoRun \/ ctl \in Runs
    BY DEF TypeOK
  <2> QED
    BY <1>8, <2>1, <2>2, <2>3, <2>4 DEF ReleaseControl, Leasable
<1> QED
  BY <1>2, <1>3, <1>4, <1>5, <1>6, <1>7, <1>8, CancelPromised DEF User

LEMMA SweepPromised ==
  ASSUME TypeOK, Sweep
  PROVE  Promised
<1>1. ASSUME NEW q \in Runs, Expire(q) PROVE Promised
  <2> DEFINE x == [run[q] EXCEPT !.live = FALSE]
  <2>1. x.status = run[q].status
    BY DEF TypeOK, Row
  <2>2. run' = [run EXCEPT ![q] = x]
    BY <1>1 DEF Expire
  <2> QED
    BY <2>1, <2>2, EditPromised
<1>2. ASSUME NEW q \in Runs, Reconcile(q) PROVE Promised
  BY <1>2, UnchangedStutters DEF Reconcile, Promised
<1> QED
  BY <1>1, <1>2, ExpireStuckPromised DEF Sweep

LEMMA RequeueStatus ==
  ASSUME NEW row0 \in Row, NEW resume \in BOOLEAN, NEW held \in BOOLEAN
  PROVE  /\ computerRunRequeueData(row0, resume, held).status \in {"queued", "waiting_takeover"}
         /\ writeComputerRunRequeue(row0, resume, held).status \in {"queued", "waiting_takeover"}
         /\ computerRunRequeueData(row0, resume, FALSE).status = "queued"
BY DEF computerRunRequeueData, writeComputerRunRequeue, Row

LEMMA RequeuePromised ==
  ASSUME TypeOK, NEW c \in Conts, NEW resume \in BOOLEAN, NEW held \in BOOLEAN, NEW charged,
         requeueComputerRun(c, resume, held, charged)
  PROVE  Promised
<1>1. CASE Holder(c)
  <2> DEFINE q == cont[c].run
             written == writeComputerRunRequeue(run[q], resume, held)
             x == [written EXCEPT !.fails = run[q].fails + charged]
  <2>1. q \in Runs /\ run[q] \in Row /\ run[q].status = "running"
    BY <1>1, HolderType DEF TypeOK, Holder
  <2>2. written \in Row /\ written.status \in {"queued", "waiting_takeover"}
    BY <2>1, RequeueType, RequeueStatus
  <2>3. x.status \in {"queued", "waiting_takeover"}
    BY <2>2 DEF Row
  <2>4. run' = [run EXCEPT ![q] = x]
    BY <1>1 DEF requeueComputerRun
  <2>5. x.status \in Waiting \/ PhaseOf(x.status) = PhaseOf(run[q].status)
    BY <2>1, <2>3, PhasesApart DEF Waiting, Leasable
  <2> HIDE DEF x
  <2> QED
    BY <2>1, <2>4, <2>5, EditPromised DEF Leasable
<1>2. CASE ~Holder(c)
  BY <1>2, UnchangedStutters DEF requeueComputerRun, Promised
<1> QED
  BY <1>1, <1>2

LEMMA AdvancePromised ==
  ASSUME TypeOK, NEW c \in Conts, Advance(c)
  PROVE  Promised
<1>1. ASSUME UNCHANGED run PROVE Promised
  BY <1>1, UnchangedStutters DEF Promised
<1> DEFINE q == cont[c].run
<1>2. CASE Claim(c)
  <2> DEFINE x == [run[q] EXCEPT !.status = "leased", !.owner = ProcOf[c],
                                 !.fence = cont[c].fence, !.live = TRUE, !.ckpt = "none"]
  <2>1. CASE claimable(c)
    <3>1. q \in Runs
      BY <1>2 DEF Claim, TypeOK, Local, Slot
    <3>2. run[q] \in Row /\ run[q].status \in {"queued"} \cup Waiting \cup Leasable
      BY <2>1, <3>1 DEF TypeOK, claimable
    <3>3. x.status = "leased"
      BY <3>2 DEF Row
    <3>4. run' = [run EXCEPT ![q] = x]
      BY <1>2, <2>1 DEF Claim
    <3>5. run[q].status \in Waiting \/ PhaseOf(x.status) = PhaseOf(run[q].status)
      BY <3>2, <3>3, PhasesApart DEF Leasable
    <3> HIDE DEF x
    <3> QED
      BY <3>1, <3>3, <3>4, <3>5, EditPromised DEF Leasable
  <2>2. CASE ~claimable(c)
    BY <1>1, <1>2, <2>2 DEF Claim
  <2> QED
    BY <2>1, <2>2
<1>3. CASE Start(c)
  <2> DEFINE x == [run[q] EXCEPT !.status = "running"]
  <2>1. q \in Runs
    BY <1>3 DEF Start, TypeOK, Local, Slot
  <2>2. x.status = "running"
    BY <2>1 DEF TypeOK, Row
  <2>3. CASE run' = run
    BY <1>1, <2>3
  <2>4. CASE run[q].status = "leased" /\ run' = [run EXCEPT ![q] = x]
    <3>1. PhaseOf(x.status) = PhaseOf(run[q].status)
      BY <2>2, <2>4, PhasesApart DEF Leasable
    <3> QED
      BY <2>1, <2>4, <3>1, EditPromised
  <2> QED
    BY <1>3, <2>3, <2>4 DEF Start
<1>4. CASE Acquire(c) \/ Prepare(c) \/ BeginTurn(c) \/ Lost(c)
  BY <1>1, <1>4 DEF Acquire, Prepare, BeginTurn, Lost
<1>5. CASE HeldReleased(c)
  BY <1>5, RequeuePromised DEF HeldReleased
<1> QED
  BY <1>2, <1>3, <1>4, <1>5 DEF Advance

LEMMA WorkerPromised ==
  ASSUME TypeOK, Worker
  PROVE  Promised
<1>1. ASSUME UNCHANGED run PROVE Promised
  BY <1>1, UnchangedStutters DEF Promised
<1>2. ASSUME NEW c \in Conts PROVE cont[c].resume \in BOOLEAN /\ cont[c].held \in BOOLEAN
  BY DEF TypeOK, Local, Slot
<1>3. ASSUME NEW c \in Conts, Heartbeat(c) PROVE Promised
  <2> DEFINE q == cont[c].run
             x == [run[q] EXCEPT !.live = TRUE]
  <2>1. q \in Runs
    BY <1>3, HolderType DEF Heartbeat
  <2>2. x.status = run[q].status
    BY <2>1 DEF TypeOK, Row
  <2>3. run' = [run EXCEPT ![q] = x]
    BY <1>3 DEF Heartbeat
  <2> QED
    BY <2>1, <2>2, <2>3, EditPromised
<1>4. ASSUME NEW c \in Conts, Ask(c) \/ RequestTakeover(c) PROVE Promised
  <2> DEFINE q == cont[c].run
             x(s, k) == [run[q] EXCEPT !.status = s, !.owner = NoProc, !.live = FALSE, !.ckpt = k]
  <2>1. q \in Runs /\ run[q] \in Row /\ run[q].status = "running"
    BY <1>4, HolderType DEF Ask, RequestTakeover, Holder, TypeOK
  <2>2. PICK s \in Waiting : \E k : run' = [run EXCEPT ![q] = x(s, k)]
    BY <1>4 DEF Ask, RequestTakeover, Waiting
  <2>3. PICK k : run' = [run EXCEPT ![q] = x(s, k)]
    BY <2>2
  <2>4. x(s, k).status = s
    BY <2>1 DEF Row
  <2> HIDE DEF x
  <2> QED
    BY <2>1, <2>2, <2>3, <2>4, EditPromised DEF Leasable
<1>5. ASSUME NEW c \in Conts, EndTurn(c) PROVE Promised
  <2>1. ASSUME NEW n \in Runs \cup {NoRun}, NEW outcome \in {"completed", "failed"},
               Finish(c, outcome, n)
        PROVE  Promised
    BY <2>1, FinalizePromised DEF Finish
  <2> QED
    BY <1>4, <1>5, <2>1 DEF EndTurn
<1>6. ASSUME NEW c \in Conts, SetupFails(c) PROVE Promised
  <2>1. ASSUME NEW n \in Runs \cup {NoRun}, SetupTerminal(c, n) PROVE Promised
    BY <2>1, FinalizePromised DEF SetupTerminal
  <2>2. CASE SetupRetry(c)
    <3> DEFINE q == cont[c].run
               back == computerRunRequeueData(run[q], cont[c].resume, FALSE)
               x == [back EXCEPT !.fails = run[q].fails + 1]
    <3>1. q \in Runs /\ run[q] \in Row /\ run[q].status = "running"
      BY <2>2, HolderType DEF SetupRetry, Holder, TypeOK
    <3>2. back \in Row /\ back.status = "queued"
      BY <1>2, <3>1, RequeueType, RequeueStatus
    <3>3. x.status = "queued"
      BY <3>2 DEF Row
    <3>4. run' = [run EXCEPT ![q] = x]
      BY <2>2 DEF SetupRetry
    <3>5. PhaseOf(x.status) = PhaseOf(run[q].status)
      BY <3>1, <3>3, PhasesApart DEF Leasable
    <3> HIDE DEF x
    <3> QED
      BY <3>1, <3>4, <3>5, EditPromised
  <2>3. CASE SetupBusy(c)
    BY <1>2, <2>3, RequeuePromised DEF SetupBusy
  <2>4. CASE AcquireBusy(c)
    BY <1>2, <2>4, RequeuePromised DEF AcquireBusy
  <2> QED
    BY <1>6, <2>1, <2>2, <2>3, <2>4 DEF SetupFails
<1>7. ASSUME NEW c \in Conts, (\E r \in Runs : Deliver(c, r)) \/ ClaimMore(c) \/ Abandon(c)
      PROVE  Promised
  BY <1>1, <1>7 DEF Deliver, ClaimMore, Abandon
<1>8. ASSUME NEW p \in Procs, Crash(p) PROVE Promised
  BY <1>1, <1>8 DEF Crash
<1> QED
  BY <1>3, <1>5, <1>6, <1>7, <1>8, AdvancePromised DEF Worker

-----------------------------------------------------------------------------
\* The user of a thread sees what Outcome promises: work is accepted once, goes on or waits,
\* ends once, is continued in the step that ends it and never beside other work, and nothing
\* that workers, leases, retries and sweeps do shows.
THEOREM PromiseIsKept == Spec => KeepsPromise
<1>1. Init => Promise!Init
  <2> SUFFICES ASSUME Init PROVE Promise!Init
    OBVIOUS
  <2>1. \A r \in Runs : run[r].status = "none"
    BY DEF Init, NoRow, NewRow
  <2> QED
    BY <2>1, PhasesApart DEF Promise!Init
<1>2. TypeOK /\ [Next]_vars => [Promise!Next]_Phase
  <2> SUFFICES ASSUME TypeOK, [Next]_vars PROVE Promised
    BY DEF Promised, Stutters
  <2>1. CASE UNCHANGED vars
    BY <2>1, UnchangedStutters DEF vars, Promised
  <2> QED
    BY <2>1, UserPromised, SweepPromised, WorkerPromised DEF Next
<1> QED
  BY <1>1, <1>2, TypeCorrect, PTL DEF Spec, KeepsPromise, Promise!Spec, Phase

-----------------------------------------------------------------------------
(* The lease.  Nothing in the claim compares the fence of the snapshot with *)
(* the fence of the row, so that a claim may be granted the very lease an   *)
(* invocation of the same process still works under (ReclaimRaisesFence).   *)
(* What the worker promises beyond CommitOnce holds as long as none is.     *)

\* An invocation that was granted a lease and has not returned.
Working(c) == cont[c].pc \notin {"idle", "read"}

\* The claim of c succeeds.
Takes(c) == Claim(c) /\ claimable(c)

\* No claim is granted the lease, owner and fence, of an invocation at work on the run.
FreshLeases ==
  [][\A c, d \in Conts :
       Takes(c) /\ Working(d) /\ cont[d].run = cont[c].run
         => ~(ProcOf[d] = ProcOf[c] /\ cont[d].fence = cont[c].fence)]_vars

\* The claim raises the fence of the run, as if it compared the fence of its snapshot.
ClaimsRaiseFence ==
  [][\A c \in Conts : Takes(c) => cont[c].fence > run[cont[c].run].fence]_vars

\* c has the lease of its run.
Leased(c) ==
  /\ run[cont[c].run].status \in Leasable
  /\ run[cont[c].run].owner = ProcOf[c]
  /\ run[cont[c].run].fence = cont[c].fence

\* c continues its run while the user holds the screen, and will park it again.
Gated(c) ==
  /\ Working(c) /\ Leased(c)
  /\ cont[c].held /\ ~cont[c].resume
  /\ run[cont[c].run].ckpt # "released"

\* r waits for the user at the screen, or is continued meanwhile.
AtScreen(r) ==
  run[r].status = "waiting_takeover" \/ \E c \in Conts : Gated(c) /\ cont[c].run = r

\* No run asks for the screen while another one waits there: on a team's computer, a run that
\* pauses for it holds its bot's execution lease, which no other run of the bot then gets.
TakeoversApart ==
  [][\A c \in Conts, r \in Runs :
       RequestTakeover(c) /\ AtScreen(r) => r = cont[c].run]_vars

-----------------------------------------------------------------------------
(* What a step does to the local state of one invocation. *)

SlotMove(c, x) ==
  /\ x.pc \notin {"idle", "read"} =>
       /\ x.run = cont[c].run /\ x.fence = cont[c].fence
       /\ Working(c) \/ Takes(c)
       /\ x.held /\ ~x.resume => cont[c].held /\ ~cont[c].resume
       /\ x.pc = "turn" => \/ cont[c].pc = "turn" /\ cont[c].got \subseteq x.got
                           \/ BeginTurn(c)
  /\ x.pc = "read" /\ x.held => x = cont[c] \/ x.seen = "waiting_takeover"

LEMMA UnchangedSlot ==
  ASSUME NEW c \in Conts
  PROVE  SlotMove(c, cont[c])
BY DEF SlotMove, Working

LEMMA IdleSlot ==
  ASSUME NEW c \in Conts
  PROVE  SlotMove(c, Idle)
BY DEF SlotMove, Idle

LEMMA EditSlot ==
  ASSUME TypeOK, NEW d \in Conts, NEW x, cont' = [cont EXCEPT ![d] = x], SlotMove(d, x)
  PROVE  \A c \in Conts : SlotMove(c, cont'[c])
<1> SUFFICES ASSUME NEW c \in Conts PROVE SlotMove(c, cont'[c])
  OBVIOUS
<1>1. cont'[c] = IF c = d THEN x ELSE cont[c]
  BY DEF TypeOK
<1>2. CASE c = d
  BY <1>1, <1>2
<1>3. CASE c # d
  <2>1. cont'[c] = cont[c]
    BY <1>1, <1>3
  <2> QED
    BY <2>1, UnchangedSlot
<1> QED
  BY <1>2, <1>3

LEMMA EndSlot ==
  ASSUME TypeOK, NEW d \in Conts, End(d)
  PROVE  \A c \in Conts : SlotMove(c, cont'[c])
BY EditSlot, IdleSlot DEF End

\* An invocation at work goes on under its lease.
LEMMA GoesOnSlot ==
  ASSUME TypeOK, NEW d \in Conts, NEW x, Working(d) \/ Takes(d),
         x.run = cont[d].run, x.fence = cont[d].fence, x.pc # "read",
         x.held /\ ~x.resume => cont[d].held /\ ~cont[d].resume,
         \/ x.pc # "turn" 
         \/ cont[d].pc = "turn" /\ cont[d].got \subseteq x.got 
         \/ BeginTurn(d)
  PROVE  SlotMove(d, x)
BY DEF SlotMove

\* claimSteering, by the turn that begins or by one that goes on.
LEMMA ClaimSteeringSlot ==
  ASSUME TypeOK, NEW d \in Conts, claimSteering(d),
         \/ BeginTurn(d) /\ cont[d].pc = "prepared"
         \/ cont[d].pc = "turn"
  PROVE  \A c \in Conts : SlotMove(c, cont'[c])
<1> DEFINE x(S) == [cont[d] EXCEPT !.pc = "turn", !.got = S]
<1>1. cont[d] \in Slot /\ Working(d)
  BY DEF TypeOK, Local, Working
<1>2. ASSUME NEW S, cont[d].got \subseteq S PROVE SlotMove(d, x(S))
  <2>1. /\ x(S).run = cont[d].run /\ x(S).fence = cont[d].fence /\ x(S).pc = "turn"
        /\ x(S).held = cont[d].held /\ x(S).resume = cont[d].resume /\ x(S).got = S
    BY <1>1 DEF Slot
  <2> HIDE DEF x
  <2> QED
    BY <1>1, <1>2, <2>1, GoesOnSlot
<1>3. CASE Holder(d)
  <2>1. cont' = [cont EXCEPT ![d] = x(cont[d].got \cup Claimable(d))]
    BY <1>3 DEF claimSteering
  <2>2. SlotMove(d, x(cont[d].got \cup Claimable(d)))
    BY <1>2
  <2> HIDE DEF x
  <2> QED
    BY <2>1, <2>2, EditSlot
<1>4. CASE ~Holder(d)
  <2>1. cont' = [cont EXCEPT ![d] = [cont[d] EXCEPT !.pc = "turn"]]
    BY <1>4 DEF claimSteering
  <2>2. [cont[d] EXCEPT !.pc = "turn"] = x(cont[d].got)
    BY <1>1 DEF Slot
  <2>3. SlotMove(d, x(cont[d].got))
    BY <1>2
  <2> HIDE DEF x
  <2> QED
    BY <2>1, <2>2, <2>3, EditSlot
<1> QED
  BY <1>3, <1>4

LEMMA AdvanceSlots ==
  ASSUME TypeOK, NEW d \in Conts, Advance(d)
  PROVE  \A c \in Conts : SlotMove(c, cont'[c])
<1>1. cont[d] \in Slot
  BY DEF TypeOK, Local
<1>2. ASSUME End(d) PROVE \A c \in Conts : SlotMove(c, cont'[c])
  BY <1>2, EndSlot
<1>3. CASE Claim(d)
  <2> DEFINE x == [cont[d] EXCEPT !.pc = "claimed", !.seen = "none", !.seenCkpt = "none"]
  <2>1. CASE claimable(d)
    <3>1. Takes(d) /\ cont' = [cont EXCEPT ![d] = x]
      BY <1>3, <2>1 DEF Takes, Claim
    <3>2. /\ x.run = cont[d].run /\ x.fence = cont[d].fence /\ x.pc = "claimed"
          /\ x.held = cont[d].held /\ x.resume = cont[d].resume
      BY <1>1 DEF Slot
    <3> HIDE DEF x
    <3>3. SlotMove(d, x)
      BY <3>1, <3>2, GoesOnSlot
    <3> QED
      BY <3>1, <3>3, EditSlot
  <2>2. CASE ~claimable(d)
    BY <1>2, <1>3, <2>2 DEF Claim
  <2> QED
    BY <2>1, <2>2
<1>4. ASSUME NEW p \in {"started", "setup"}, cont[d].pc \in {"claimed", "started"},
             cont' = [cont EXCEPT ![d] = [cont[d] EXCEPT !.pc = p]]
      PROVE  \A c \in Conts : SlotMove(c, cont'[c])
  <2> DEFINE x == [cont[d] EXCEPT !.pc = p]
  <2>1. /\ x.run = cont[d].run /\ x.fence = cont[d].fence /\ x.pc = p
        /\ x.held = cont[d].held /\ x.resume = cont[d].resume
    BY <1>1 DEF Slot
  <2>2. Working(d) /\ p # "turn" /\ p # "read"
    BY <1>4 DEF Working
  <2>3. cont' = [cont EXCEPT ![d] = x]
    BY <1>4
  <2> HIDE DEF x
  <2>4. SlotMove(d, x)
    BY <2>1, <2>2, GoesOnSlot
  <2> QED
    BY <2>3, <2>4, EditSlot
<1>5. CASE Start(d)
  BY <1>2, <1>4, <1>5 DEF Start
<1>6. CASE Acquire(d)
  BY <1>4, <1>6 DEF Acquire
<1>7. CASE Prepare(d)
  <2> DEFINE released == cont[d].held /\ run[cont[d].run].ckpt = "released"
             x == [cont[d] EXCEPT !.pc = "prepared", !.held = cont[d].held /\ ~released,
                                  !.resume = cont[d].resume \/ released]
  <2>1. cont' = [cont EXCEPT ![d] = x] /\ Working(d)
    BY <1>7 DEF Prepare, Working
  <2>2. /\ x.run = cont[d].run /\ x.fence = cont[d].fence /\ x.pc = "prepared"
        /\ x.held = (cont[d].held /\ ~released) /\ x.resume = (cont[d].resume \/ released)
    BY <1>1 DEF Slot
  <2>3. x.held /\ ~x.resume => cont[d].held /\ ~cont[d].resume
    BY <2>2
  <2> HIDE DEF x
  <2>4. SlotMove(d, x)
    BY <2>1, <2>2, <2>3, GoesOnSlot
  <2> QED
    BY <2>1, <2>4, EditSlot
<1>8. CASE BeginTurn(d)
  BY <1>8, ClaimSteeringSlot DEF BeginTurn
<1>9. CASE Lost(d)
  BY <1>2, <1>9 DEF Lost
<1>10. CASE HeldReleased(d)
  BY <1>2, <1>10 DEF HeldReleased, requeueComputerRun
<1> QED
  BY <1>3, <1>5, <1>6, <1>7, <1>8, <1>9, <1>10 DEF Advance

LEMMA DeliverSlots ==
  ASSUME TypeOK, NEW d \in Conts, NEW r \in Runs, Deliver(d, r)
  PROVE  \A c \in Conts : SlotMove(c, cont'[c])
<1> DEFINE x == [Idle EXCEPT
             !.pc = "read", !.run = r, !.seen = run[r].status, !.seenCkpt = run[r].ckpt,
             !.fence = nextFence(run[r].fence),
             !.held = run[r].status = "waiting_takeover" /\ run[r].ckpt # "released",
             !.resume = run[r].ckpt = "released"]
<1>1. x.pc = "read" /\ x.seen = run[r].status
      /\ x.held = (run[r].status = "waiting_takeover" /\ run[r].ckpt # "released")
  BY DEF Idle
<1>2. CASE run[r].status \in TerminalStatuses
  BY <1>2, UnchangedSlot DEF Deliver
<1>3. CASE run[r].status \notin TerminalStatuses
  <2>1. cont' = [cont EXCEPT ![d] = x]
    BY <1>3 DEF Deliver
  <2> HIDE DEF x
  <2>2. SlotMove(d, x)
    BY <1>1 DEF SlotMove
  <2> QED
    BY <2>1, <2>2, EditSlot
<1> QED
  BY <1>2, <1>3

LEMMA StepSlots ==
  ASSUME TypeOK, [Next]_vars
  PROVE  \A c \in Conts : SlotMove(c, cont'[c])
<1>1. ASSUME UNCHANGED cont PROVE \A c \in Conts : SlotMove(c, cont'[c])
  BY <1>1, UnchangedSlot
<1>2. CASE User
  <2>1. UNCHANGED cont
    BY <1>2 DEF User, SendNew, SendAnswer, SendSteer, FollowUpSteer, Answer, Wake, Stop, Clear,
                TakeControl, ReleaseControl
  <2> QED
    BY <1>1, <2>1
<1>3. CASE Sweep
  <2>1. UNCHANGED cont
    BY <1>3 DEF Sweep, Expire, Reconcile, ExpireStuck
  <2> QED
    BY <1>1, <2>1
<1>4. ASSUME NEW d \in Conts, ClaimMore(d) PROVE \A c \in Conts : SlotMove(c, cont'[c])
  BY <1>4, ClaimSteeringSlot DEF ClaimMore
<1>5. ASSUME NEW d \in Conts, Heartbeat(d) PROVE \A c \in Conts : SlotMove(c, cont'[c])
  BY <1>1, <1>5 DEF Heartbeat
<1>6. ASSUME NEW d \in Conts, EndTurn(d) \/ SetupFails(d) \/ Abandon(d)
      PROVE  \A c \in Conts : SlotMove(c, cont'[c])
  <2>1. End(d)
    BY <1>6 DEF EndTurn, SetupFails, Abandon, Ask, RequestTakeover, Finish, SetupTerminal,
                SetupRetry, SetupBusy, AcquireBusy, requeueComputerRun
  <2> QED
    BY <2>1, EndSlot
<1>7. ASSUME NEW p \in Procs, Crash(p) PROVE \A c \in Conts : SlotMove(c, cont'[c])
  <2> SUFFICES ASSUME NEW c \in Conts PROVE SlotMove(c, cont'[c])
    OBVIOUS
  <2>1. cont'[c] = Idle \/ cont'[c] = cont[c]
    BY <1>7 DEF Crash
  <2> QED
    BY <2>1, IdleSlot, UnchangedSlot
<1>8. CASE UNCHANGED vars
  BY <1>1, <1>8 DEF vars
<1> QED
  BY <1>2, <1>3, <1>4, <1>5, <1>6, <1>7, <1>8, AdvanceSlots, DeliverSlots DEF Next, Worker

-----------------------------------------------------------------------------
(* What a step does to one row of the runs table. *)

\* The claim of c gives it the lease of r.
Granted(r, x) ==
  \E c \in Conts : /\ Takes(c) /\ cont[c].run = r
                   /\ x.status = "leased" /\ x.owner = ProcOf[c] /\ x.fence = cont[c].fence

Started(r, x) ==
  \E c \in Conts : /\ cont[c].pc = "claimed" /\ cont[c].run = r
                   /\ x.owner = ProcOf[c] /\ x.fence = cont[c].fence

\* The lease of the row x is the one that r has.
SameLease(r, x) ==
  /\ run[r].status \in Leasable
  /\ x.owner = run[r].owner /\ x.fence = run[r].fence
  /\ x.ckpt \in {run[r].ckpt, "released"}

RowMove(r, x) ==
  /\ x.status = "none" => run[r].status = "none"
  /\ run[r].status = "none" => x.status = "none" \/ x.trigger \in {"user", "follow_up"} \cup Wakes
  /\ x.fence = run[r].fence \/ run[r].status = "none" \/ Granted(r, x)
  /\ x.status \in Leasable => SameLease(r, x) \/ Granted(r, x)
  /\ x.status = "running" => run[r].status = "running" \/ Started(r, x)
  /\ x.status = "waiting_takeover" =>
       \/ run[r].status = "waiting_takeover"
       \/ \E c \in Conts : cont[c].run = r /\ (RequestTakeover(c) \/ Gated(c))

\* The row keeps its status and its lease.
LEMMA KeptRow ==
  ASSUME NEW r \in Runs, NEW x, x.status = run[r].status, x.fence = run[r].fence,
         x.owner = run[r].owner, x.ckpt \in {run[r].ckpt, "released"}
  PROVE  RowMove(r, x)
BY DEF RowMove, SameLease

\* The row gives up its lease, to be neither parked for the screen nor deleted.
LEMMA FreedRow ==
  ASSUME NEW r \in Runs, NEW x, run[r].status # "none", x.fence = run[r].fence,
         x.status \notin Leasable \cup {"none", "waiting_takeover"}
  PROVE  RowMove(r, x)
BY DEF RowMove, Leasable

LEMMA UnchangedRows ==
  ASSUME UNCHANGED run
  PROVE  \A r \in Runs : RowMove(r, run'[r])
BY KeptRow

LEMMA EditRow ==
  ASSUME TypeOK, NEW q \in Runs, NEW x, run' = [run EXCEPT ![q] = x], RowMove(q, x)
  PROVE  \A r \in Runs : RowMove(r, run'[r])
<1> SUFFICES ASSUME NEW r \in Runs PROVE RowMove(r, run'[r])
  OBVIOUS
<1>1. run'[r] = IF r = q THEN x ELSE run[r]
  BY DEF TypeOK
<1>2. CASE r = q
  BY <1>1, <1>2
<1>3. CASE r # q
  <2>1. run'[r] = run[r]
    BY <1>1, <1>3
  <2> QED
    BY <2>1, KeptRow
<1> QED
  BY <1>2, <1>3

LEMMA QueuedRows ==
  ASSUME TypeOK, NEW q \in Runs, NEW ckpt, run' = Queued(q, ckpt), run[q].status # "none"
  PROVE  \A r \in Runs : RowMove(r, run'[r])
<1> DEFINE x == [run[q] EXCEPT !.status = "queued", !.ckpt = ckpt]
<1>1. run' = [run EXCEPT ![q] = x]
  BY DEF Queued
<1>2. x.status = "queued" /\ x.fence = run[q].fence
  BY DEF TypeOK, Row
<1> HIDE DEF x
<1>3. RowMove(q, x)
  BY <1>2, FreedRow DEF Leasable
<1> QED
  BY <1>1, <1>3, EditRow

LEMMA CreateRows ==
  ASSUME TypeOK, NEW q \in Runs, NEW trigger \in {"user", "follow_up"} \cup Wakes, NEW src,
         Create(q, trigger, src)
  PROVE  \A r \in Runs : RowMove(r, run'[r])
<1>1. run[q].status = "none" /\ run' = [run EXCEPT ![q] = NewRow(trigger, src)]
  BY DEF Create
<1>2. NewRow(trigger, src).status = "queued" /\ NewRow(trigger, src).trigger = trigger
  BY DEF NewRow
<1>3. RowMove(q, NewRow(trigger, src))
  BY <1>1, <1>2 DEF RowMove, Leasable
<1> QED
  BY <1>1, <1>3, EditRow

\* The continuation takes an identity no row has had.
LEMMA ContinuationMoves ==
  ASSUME TypeOK, NEW rn \in [Runs -> Row], NEW rw, NEW n, createSteeringContinuation(rn, rw, n),
         \A r \in Runs : RowMove(r, rn[r])
  PROVE  \A r \in Runs : RowMove(r, run'[r])
<1>1. CASE NeedsContinuation(rn, rw)
  <2>1. PICK m \in Msgs : run' = [rn EXCEPT ![n] = NewRow("follow_up", m)]
    BY <1>1 DEF createSteeringContinuation
  <2>2. n \in Runs /\ rn[n].status = "none"
    BY <1>1 DEF createSteeringContinuation
  <2>3. NewRow("follow_up", m).status = "queued" /\ NewRow("follow_up", m).trigger = "follow_up"
    BY DEF NewRow
  <2>4. run[n].status = "none"
    BY <2>2 DEF RowMove
  <2>5. RowMove(n, NewRow("follow_up", m))
    BY <2>3, <2>4 DEF RowMove, Leasable
  <2>6. run'[n] = NewRow("follow_up", m) /\ \A r \in Runs : r # n => run'[r] = rn[r]
    BY <2>1, <2>2
  <2> SUFFICES ASSUME NEW r \in Runs PROVE RowMove(r, run'[r])
    OBVIOUS
  <2>7. CASE r = n
    BY <2>5, <2>6, <2>7
  <2>8. CASE r # n
    BY <2>6, <2>8
  <2> QED
    BY <2>7, <2>8
<1>2. CASE ~NeedsContinuation(rn, rw)
  BY <1>2 DEF createSteeringContinuation
<1> QED
  BY <1>1, <1>2

LEMMA FinalizeRows ==
  ASSUME TypeOK, NEW c \in Conts, NEW outcome \in {"completed", "failed"}, NEW n,
         Holder(c), finalizeRun(c, outcome, n)
  PROVE  \A r \in Runs : RowMove(r, run'[r])
<1> DEFINE q  == cont[c].run
           ended == [run[q] EXCEPT !.status = outcome, !.owner = NoProc, !.live = FALSE,
                                   !.commits = run[q].commits + 1]
           rn == [run EXCEPT ![q] = ended]
           rw == [m \in Msgs |-> settled(q, outcome, m)]
<1>1. q \in Runs /\ run[q] \in Row /\ run[q].status = "running"
  BY HolderType DEF TypeOK, Holder
<1>2. ended \in Row /\ ended.status = outcome /\ ended.fence = run[q].fence
  BY <1>1, EndedType DEF Row
<1>3. rn \in [Runs -> Row] /\ \A r \in Runs : rn[r] = IF r = q THEN ended ELSE run[r]
  BY <1>2 DEF TypeOK
<1>4. createSteeringContinuation(rn, rw, n)
  BY DEF finalizeRun
<1> HIDE DEF ended, rn, rw, q
<1>5. RowMove(q, ended)
  BY <1>1, <1>2, FreedRow DEF Leasable
<1>6. \A r \in Runs : RowMove(r, rn[r])
  BY <1>3, <1>5, KeptRow
<1> QED
  BY <1>3, <1>4, <1>6, ContinuationMoves

LEMMA ExpireStuckRows ==
  ASSUME TypeOK, NEW q \in Runs, ExpireStuck(q)
  PROVE  (\A r \in Runs : RowMove(r, run'[r])) /\ run'[q].status = "cancelled"
<1> DEFINE x == [run[q] EXCEPT !.status = "cancelled", !.owner = NoProc, !.live = FALSE]
           rn == [run EXCEPT ![q] = x]
           rw == [m \in Msgs |-> IF row[m].run = q THEN [state |-> "waiting", run |-> NoRun]
                                                   ELSE row[m]]
<1>1. run[q] \in Row /\ run[q].status # "none"
  BY DEF TypeOK, ExpireStuck, Waiting
<1>2. x \in Row /\ x.status = "cancelled" /\ x.fence = run[q].fence
  BY <1>1 DEF Row, Statuses, TerminalStatuses
<1>3. rn \in [Runs -> Row] /\ \A r \in Runs : rn[r] = IF r = q THEN x ELSE run[r]
  BY <1>2 DEF TypeOK
<1>4. PICK n \in Runs \cup {NoRun} : createSteeringContinuation(rn, rw, n)
  BY DEF ExpireStuck
<1> HIDE DEF x, rn, rw
<1>5. RowMove(q, x)
  BY <1>1, <1>2, FreedRow DEF Leasable
<1>6. \A r \in Runs : RowMove(r, rn[r])
  BY <1>3, <1>5, KeptRow
<1>7. run'[q] = rn[q]
  BY <1>2, <1>3, <1>4, ContinuationRows
<1> QED
  BY <1>2, <1>3, <1>4, <1>6, <1>7, ContinuationMoves

LEMMA UserRows ==
  ASSUME TypeOK, User
  PROVE  \A r \in Runs : RowMove(r, run'[r])
<1>1. ASSUME NEW q \in Runs, NEW t \in {"user", "follow_up"}, SendNew(q, t)
      PROVE  \A r \in Runs : RowMove(r, run'[r])
  BY <1>1, CreateRows DEF SendNew
<1>2. ASSUME NEW q \in Runs, SendAnswer(q) \/ Answer(q) PROVE \A r \in Runs : RowMove(r, run'[r])
  <2>1. run[q].status # "none"
    BY <1>2 DEF SendAnswer, Answer
  <2>2. PICK ckpt : run' = Queued(q, ckpt)
    BY <1>2 DEF SendAnswer, Answer
  <2> QED
    BY <2>1, <2>2, QueuedRows
<1>3. ASSUME NEW q \in Runs, SendSteer(q) \/ FollowUpSteer(q)
      PROVE  \A r \in Runs : RowMove(r, run'[r])
  <2>1. run[q].status # "none"
    BY <1>3 DEF SendSteer, FollowUpSteer, Active, ActiveStatuses
  <2>2. run' = run \/ run' = Queued(q, "released")
    BY <1>3 DEF SendSteer, FollowUpSteer
  <2> QED
    BY <2>1, <2>2, QueuedRows, UnchangedRows
<1>4. ASSUME NEW q \in Runs, NEW t \in Wakes, NEW src \in 0..sent, Wake(q, t, src)
      PROVE  \A r \in Runs : RowMove(r, run'[r])
  BY <1>4, CreateRows DEF Wake
<1>5. ASSUME Stop \/ Clear PROVE \A r \in Runs : RowMove(r, run'[r])
  <2> SUFFICES ASSUME NEW r \in Runs PROVE RowMove(r, run'[r])
    OBVIOUS
  <2>1. run[r] \in Row
    BY DEF TypeOK
  <2>2. CASE Active(r)
    <3>1. run'[r].status = "cancelled" /\ run'[r].fence = run[r].fence
      BY <1>5, <2>1, <2>2 DEF Stop, Clear, Row
    <3>2. run[r].status # "none"
      BY <2>2 DEF Active, ActiveStatuses
    <3> QED
      BY <3>1, <3>2, FreedRow DEF Leasable
  <2>3. CASE ~Active(r)
    <3>1. run'[r] = run[r] \/ run'[r] = [run[r] EXCEPT !.src = 0]
      BY <1>5, <2>3 DEF Stop, Clear
    <3>2. /\ run'[r].status = run[r].status /\ run'[r].fence = run[r].fence
          /\ run'[r].owner = run[r].owner /\ run'[r].ckpt = run[r].ckpt
      BY <2>1, <3>1 DEF Row
    <3> QED
      BY <3>2, KeptRow
  <2> QED
    BY <2>2, <2>3
<1>6. ASSUME NEW q \in Runs \cup {NoRun}, TakeControl(q) PROVE \A r \in Runs : RowMove(r, run'[r])
  BY <1>6, UnchangedRows DEF TakeControl
<1>7. ASSUME ReleaseControl PROVE \A r \in Runs : RowMove(r, run'[r])
  <2>1. CASE run' = run
    BY <2>1, UnchangedRows
  <2>2. CASE ctl \in Runs /\ run[ctl].status = "waiting_takeover" /\ run' = Queued(ctl, "released")
    BY <2>2, QueuedRows
  <2>3. CASE ctl \in Runs /\ run' = [run EXCEPT ![ctl] = [@ EXCEPT !.ckpt = "released"]]
    <3> DEFINE x == [run[ctl] EXCEPT !.ckpt = "released"]
    <3>1. /\ x.status = run[ctl].status /\ x.fence = run[ctl].fence
          /\ x.owner = run[ctl].owner /\ x.ckpt = "released"
      BY <2>3 DEF TypeOK, Row
    <3>2. run' = [run EXCEPT ![ctl] = x]
      BY <2>3
    <3> HIDE DEF x
    <3>3. RowMove(ctl, x)
      BY <2>3, <3>1, KeptRow
    <3> QED
      BY <2>3, <3>2, <3>3, EditRow
  <2>4. ctl = NoRun \/ ctl \in Runs
    BY DEF TypeOK
  <2> QED
    BY <1>7, <2>1, <2>2, <2>3, <2>4 DEF ReleaseControl, Leasable
<1> QED
  BY <1>1, <1>2, <1>3, <1>4, <1>5, <1>6, <1>7 DEF User

LEMMA SweepRows ==
  ASSUME TypeOK, Sweep
  PROVE  \A r \in Runs : RowMove(r, run'[r])
<1>1. ASSUME NEW q \in Runs, Expire(q) PROVE \A r \in Runs : RowMove(r, run'[r])
  <2> DEFINE x == [run[q] EXCEPT !.live = FALSE]
  <2>1. /\ x.status = run[q].status /\ x.fence = run[q].fence
        /\ x.owner = run[q].owner /\ x.ckpt = run[q].ckpt
    BY DEF TypeOK, Row
  <2>2. run' = [run EXCEPT ![q] = x]
    BY <1>1 DEF Expire
  <2> HIDE DEF x
  <2>3. RowMove(q, x)
    BY <2>1, KeptRow
  <2> QED
    BY <2>2, <2>3, EditRow
<1>2. ASSUME NEW q \in Runs, Reconcile(q) PROVE \A r \in Runs : RowMove(r, run'[r])
  BY <1>2, UnchangedRows DEF Reconcile
<1> QED
  BY <1>1, <1>2, ExpireStuckRows DEF Sweep

\* A run is parked again only by the invocation that continued it as held.
LEMMA RequeueRows ==
  ASSUME TypeOK, NEW c \in Conts, NEW resume \in BOOLEAN, NEW held \in BOOLEAN, NEW charged,
         requeueComputerRun(c, resume, held, charged),
         held /\ ~resume => Working(c) /\ cont[c].held /\ ~cont[c].resume
  PROVE  \A r \in Runs : RowMove(r, run'[r])
<1>1. CASE Holder(c)
  <2> DEFINE q == cont[c].run
             written == writeComputerRunRequeue(run[q], resume, held)
             x == [written EXCEPT !.fails = run[q].fails + charged]
  <2>1. q \in Runs /\ run[q] \in Row /\ run[q].status = "running"
    BY <1>1, HolderType DEF TypeOK, Holder
  <2>2. written \in Row
    BY <2>1, RequeueType
  <2>3. /\ written.fence = run[q].fence
        /\ \/ written.status = "queued"
           \/ written.status = "waiting_takeover" /\ run[q].ckpt # "released" /\ held /\ ~resume
    BY <2>1 DEF writeComputerRunRequeue, computerRunRequeueData, Row
  <2>4. x.fence = written.fence /\ x.status = written.status
    BY <2>2 DEF Row
  <2>5. run' = [run EXCEPT ![q] = x]
    BY <1>1 DEF requeueComputerRun
  <2>6. held /\ ~resume /\ run[q].ckpt # "released" => Gated(c)
    BY <1>1 DEF Gated, Leased, Holder, Leasable
  <2> HIDE DEF x, written
  <2>7. CASE written.status = "queued"
    <3>1. RowMove(q, x)
      BY <2>1, <2>3, <2>4, <2>7, FreedRow DEF Leasable
    <3> QED
      BY <2>1, <2>5, <3>1, EditRow
  <2>8. CASE written.status = "waiting_takeover" /\ run[q].ckpt # "released" /\ held /\ ~resume
    <3>1. RowMove(q, x)
      BY <2>1, <2>3, <2>4, <2>6, <2>8 DEF RowMove, Leasable
    <3> QED
      BY <2>1, <2>5, <3>1, EditRow
  <2> QED
    BY <2>3, <2>7, <2>8
<1>2. CASE ~Holder(c)
  BY <1>2, UnchangedRows DEF requeueComputerRun
<1> QED
  BY <1>1, <1>2

LEMMA ClaimRows ==
  ASSUME TypeOK, NEW c \in Conts, Claim(c)
  PROVE  \A r \in Runs : RowMove(r, run'[r])
<1> DEFINE q == cont[c].run
           x == [run[q] EXCEPT !.status = "leased", !.owner = ProcOf[c],
                               !.fence = cont[c].fence, !.live = TRUE, !.ckpt = "none"]
<1>1. CASE claimable(c)
  <2>1. q \in Runs /\ Takes(c)
    BY <1>1 DEF Takes, Claim, TypeOK, Local, Slot
  <2>2. run[q] \in Row /\ run[q].status # "none"
    BY <1>1, <2>1 DEF TypeOK, claimable, Waiting, Leasable
  <2>3. x.status = "leased" /\ x.owner = ProcOf[c] /\ x.fence = cont[c].fence
    BY <2>2 DEF Row
  <2>4. run' = [run EXCEPT ![q] = x]
    BY <1>1 DEF Claim
  <2> HIDE DEF x
  <2>5. Granted(q, x)
    BY <2>1, <2>3 DEF Granted
  <2>6. RowMove(q, x)
    BY <2>2, <2>3, <2>5 DEF RowMove
  <2> QED
    BY <2>1, <2>4, <2>6, EditRow
<1>2. CASE ~claimable(c)
  BY <1>2, UnchangedRows DEF Claim
<1> QED
  BY <1>1, <1>2

LEMMA StartRows ==
  ASSUME TypeOK, NEW c \in Conts, Start(c)
  PROVE  \A r \in Runs : RowMove(r, run'[r])
<1> DEFINE q == cont[c].run
           x == [run[q] EXCEPT !.status = "running"]
<1>1. q \in Runs /\ run[q] \in Row /\ cont[c].pc = "claimed"
  BY DEF Start, TypeOK, Local, Slot
<1>2. CASE run[q].status = "leased" /\ run[q].owner = ProcOf[c] /\ run[q].fence = cont[c].fence
  <2>1. run' = [run EXCEPT ![q] = x]
    BY <1>2 DEF Start
  <2>2. /\ x.status = "running" /\ x.owner = run[q].owner /\ x.fence = run[q].fence
        /\ x.ckpt = run[q].ckpt
    BY <1>1 DEF Row
  <2> HIDE DEF x
  <2>3. Started(q, x)
    BY <1>1, <1>2, <2>2 DEF Started
  <2>4. SameLease(q, x)
    BY <1>2, <2>2 DEF SameLease, Leasable
  <2>5. RowMove(q, x)
    BY <1>2, <2>2, <2>3, <2>4 DEF RowMove
  <2> QED
    BY <1>1, <2>1, <2>5, EditRow
<1>3. CASE ~(run[q].status = "leased" /\ run[q].owner = ProcOf[c] /\ run[q].fence = cont[c].fence)
  BY <1>3, UnchangedRows DEF Start
<1> QED
  BY <1>2, <1>3

LEMMA PauseRows ==
  ASSUME TypeOK, NEW c \in Conts, Ask(c) \/ RequestTakeover(c)
  PROVE  \A r \in Runs : RowMove(r, run'[r])
<1> DEFINE q == cont[c].run
           x(s, k) == [run[q] EXCEPT !.status = s, !.owner = NoProc, !.live = FALSE, !.ckpt = k]
<1>1. q \in Runs /\ run[q] \in Row /\ run[q].status = "running"
  BY HolderType DEF Ask, RequestTakeover, Holder, TypeOK
<1>2. ASSUME NEW s, NEW k PROVE x(s, k).status = s /\ x(s, k).fence = run[q].fence
  BY <1>1 DEF Row
<1>3. CASE Ask(c)
  <2>1. PICK k : run' = [run EXCEPT ![q] = x("waiting_input", k)]
    BY <1>3 DEF Ask
  <2>2. x("waiting_input", k).status = "waiting_input" /\ x("waiting_input", k).fence = run[q].fence
    BY <1>2
  <2> HIDE DEF x
  <2>3. RowMove(q, x("waiting_input", k))
    BY <1>1, <2>2, FreedRow DEF Leasable
  <2> QED
    BY <1>1, <2>1, <2>3, EditRow
<1>4. CASE RequestTakeover(c)
  <2> DEFINE y == x("waiting_takeover", "none")
  <2>1. run' = [run EXCEPT ![q] = y]
    BY <1>4 DEF RequestTakeover
  <2>2. y.status = "waiting_takeover" /\ y.fence = run[q].fence
    BY <1>2
  <2> HIDE DEF x, y
  <2>3. RowMove(q, y)
    BY <1>1, <1>4, <2>2 DEF RowMove, Leasable
  <2> QED
    BY <1>1, <2>1, <2>3, EditRow
<1> QED
  BY <1>3, <1>4

LEMMA SetupRetryRows ==
  ASSUME TypeOK, NEW c \in Conts, SetupRetry(c)
  PROVE  \A r \in Runs : RowMove(r, run'[r])
<1> DEFINE q == cont[c].run
           back == computerRunRequeueData(run[q], cont[c].resume, FALSE)
           x == [back EXCEPT !.fails = run[q].fails + 1]
<1>1. q \in Runs /\ run[q] \in Row /\ run[q].status = "running" /\ cont[c].resume \in BOOLEAN
  BY HolderType DEF SetupRetry, Holder, TypeOK, Local, Slot
<1>2. back \in Row
  BY <1>1, RequeueType
<1>3. back.fence = run[q].fence /\ back.status = "queued"
  BY <1>1 DEF computerRunRequeueData, Row
<1>4. x.fence = back.fence /\ x.status = back.status
  BY <1>2 DEF Row
<1>5. run' = [run EXCEPT ![q] = x]
  BY DEF SetupRetry
<1> HIDE DEF x, back
<1>6. RowMove(q, x)
  BY <1>1, <1>3, <1>4, FreedRow DEF Leasable
<1> QED
  BY <1>1, <1>5, <1>6, EditRow

LEMMA WorkerRows ==
  ASSUME TypeOK, Worker
  PROVE  \A r \in Runs : RowMove(r, run'[r])
<1>1. ASSUME NEW c \in Conts PROVE cont[c].resume \in BOOLEAN /\ cont[c].held \in BOOLEAN
  BY DEF TypeOK, Local, Slot
<1>2. ASSUME NEW c \in Conts, Advance(c) PROVE \A r \in Runs : RowMove(r, run'[r])
  <2>1. CASE Acquire(c) \/ Prepare(c) \/ BeginTurn(c) \/ Lost(c)
    BY <2>1, UnchangedRows DEF Acquire, Prepare, BeginTurn, Lost
  <2>2. CASE HeldReleased(c)
    BY <2>2, RequeueRows DEF HeldReleased
  <2> QED
    BY <1>2, <2>1, <2>2, ClaimRows, StartRows DEF Advance
<1>3. ASSUME NEW c \in Conts, Heartbeat(c) PROVE \A r \in Runs : RowMove(r, run'[r])
  <2> DEFINE q == cont[c].run
             x == [run[q] EXCEPT !.live = TRUE]
  <2>1. q \in Runs
    BY <1>3, HolderType DEF Heartbeat
  <2>2. /\ x.status = run[q].status /\ x.fence = run[q].fence
        /\ x.owner = run[q].owner /\ x.ckpt = run[q].ckpt
    BY <2>1 DEF TypeOK, Row
  <2>3. run' = [run EXCEPT ![q] = x]
    BY <1>3 DEF Heartbeat
  <2> HIDE DEF x
  <2>4. RowMove(q, x)
    BY <2>1, <2>2, KeptRow
  <2> QED
    BY <2>1, <2>3, <2>4, EditRow
<1>4. ASSUME NEW c \in Conts, EndTurn(c) PROVE \A r \in Runs : RowMove(r, run'[r])
  <2>1. ASSUME NEW n \in Runs \cup {NoRun}, NEW outcome \in {"completed", "failed"},
               Finish(c, outcome, n)
        PROVE  \A r \in Runs : RowMove(r, run'[r])
    BY <2>1, FinalizeRows DEF Finish
  <2> QED
    BY <1>4, <2>1, PauseRows DEF EndTurn
<1>5. ASSUME NEW c \in Conts, SetupFails(c) PROVE \A r \in Runs : RowMove(r, run'[r])
  <2>1. ASSUME NEW n \in Runs \cup {NoRun}, SetupTerminal(c, n)
        PROVE  \A r \in Runs : RowMove(r, run'[r])
    BY <2>1, FinalizeRows DEF SetupTerminal
  <2>2. ASSUME SetupBusy(c) \/ AcquireBusy(c) PROVE \A r \in Runs : RowMove(r, run'[r])
    <3>1. Working(c)
      BY <2>2 DEF SetupBusy, AcquireBusy, Working
    <3>2. PICK charged : requeueComputerRun(c, cont[c].resume, cont[c].held, charged)
      BY <2>2 DEF SetupBusy, AcquireBusy
    <3> QED
      BY <1>1, <3>1, <3>2, RequeueRows
  <2> QED
    BY <1>5, <2>1, <2>2, SetupRetryRows DEF SetupFails
<1>6. ASSUME NEW c \in Conts, (\E r \in Runs : Deliver(c, r)) \/ ClaimMore(c) \/ Abandon(c)
      PROVE  \A r \in Runs : RowMove(r, run'[r])
  BY <1>6, UnchangedRows DEF Deliver, ClaimMore, Abandon
<1>7. ASSUME NEW p \in Procs, Crash(p) PROVE \A r \in Runs : RowMove(r, run'[r])
  BY <1>7, UnchangedRows DEF Crash
<1> QED
  BY <1>2, <1>3, <1>4, <1>5, <1>6, <1>7 DEF Worker

LEMMA StepRows ==
  ASSUME TypeOK, [Next]_vars
  PROVE  \A r \in Runs : RowMove(r, run'[r])
<1>1. CASE UNCHANGED vars
  BY <1>1, UnchangedRows DEF vars
<1> QED
  BY <1>1, UserRows, SweepRows, WorkerRows DEF Next

-----------------------------------------------------------------------------
(* One lease, one holder. *)

\* No two invocations at work hold the same lease of the same run.
LeasesApart ==
  \A c, d \in Conts :
    Working(c) /\ Working(d) /\ cont[c].run = cont[d].run
      /\ ProcOf[c] = ProcOf[d] /\ cont[c].fence = cont[d].fence => c = d

\* At most one of the invocations at work on a run may write to it.
OneHolder ==
  \A c, d \in Conts :
    Working(c) /\ Working(d) /\ Holder(c) /\ Holder(d) /\ cont[c].run = cont[d].run => c = d

Fresh ==
  \A c, d \in Conts :
    Takes(c) /\ Working(d) /\ cont[d].run = cont[c].run
      => ~(ProcOf[d] = ProcOf[c] /\ cont[d].fence = cont[c].fence)

LEMMA LeasesStayApart ==
  ASSUME TypeOK, LeasesApart, [Next]_vars, Fresh \/ UNCHANGED vars
  PROVE  LeasesApart'
<1>1. CASE UNCHANGED vars
  BY <1>1 DEF vars, LeasesApart, Working
<1>2. CASE Fresh
  <2> SUFFICES ASSUME NEW c \in Conts, NEW d \in Conts, Working(c)', Working(d)',
                      cont'[c].run = cont'[d].run, ProcOf[c] = ProcOf[d],
                      cont'[c].fence = cont'[d].fence
               PROVE  c = d
    BY DEF LeasesApart
  <2>1. /\ Working(c) \/ Takes(c)
        /\ cont'[c].run = cont[c].run /\ cont'[c].fence = cont[c].fence
        /\ Working(d) \/ Takes(d)
        /\ cont'[d].run = cont[d].run /\ cont'[d].fence = cont[d].fence
    BY StepSlots DEF SlotMove, Working
  <2>2. CASE Working(c) /\ Working(d)
    BY <2>1, <2>2 DEF LeasesApart
  <2>3. CASE Working(c) /\ Takes(d)
    BY <1>2, <2>1, <2>3 DEF Fresh
  <2>4. CASE Takes(c) /\ Working(d)
    BY <1>2, <2>1, <2>4 DEF Fresh
  <2>5. CASE Takes(c) /\ Takes(d)
    <3>1. cont' = [cont EXCEPT ![c] = cont'[c]]
      BY <2>5 DEF Takes, Claim, TypeOK
    <3>2. c # d => cont'[d] = cont[d]
      BY <3>1 DEF TypeOK
    <3>3. cont[d].pc = "read"
      BY <2>5 DEF Takes, Claim
    <3> QED
      BY <3>2, <3>3 DEF Working
  <2> QED
    BY <2>1, <2>2, <2>3, <2>4, <2>5
<1> QED
  BY <1>1, <1>2

LEMMA ApartInductive == Spec /\ FreshLeases => [](TypeOK /\ LeasesApart)
<1>1. Init => LeasesApart
  BY DEF Init, LeasesApart, Working, Idle
<1>2. TypeOK /\ LeasesApart /\ [Next]_vars /\ [Fresh]_vars => LeasesApart'
  BY LeasesStayApart
<1>3. FreshLeases <=> [][Fresh]_vars
  BY DEF FreshLeases, Fresh
<1> QED
  BY <1>1, <1>2, <1>3, TypeCorrect, PTL DEF Spec

\* While no lease is granted twice, at most one of the invocations at work on a run may
\* write to it, however they were delivered, stalled or reclaimed.
THEOREM HoldersAreOne == Spec /\ FreshLeases => []OneHolder
<1>1. LeasesApart => OneHolder
  BY DEF LeasesApart, OneHolder, Holder
<1> QED
  BY <1>1, ApartInductive, PTL

-----------------------------------------------------------------------------
(* When leases are fresh. *)

\* No invocation works under a fence its run has not reached.
FencesReached ==
  \A d \in Conts :
    Working(d) => run[cont[d].run].status # "none" /\ cont[d].fence <= run[cont[d].run].fence

Raises == \A c \in Conts : Takes(c) => cont[c].fence > run[cont[c].run].fence

LEMMA FencesStayReached ==
  ASSUME TypeOK, FencesReached, [Next]_vars, Raises \/ UNCHANGED vars
  PROVE  FencesReached'
<1>1. CASE UNCHANGED vars
  BY <1>1 DEF vars, FencesReached, Working
<1>2. CASE Raises
  <2> SUFFICES ASSUME NEW d \in Conts, Working(d)'
               PROVE  /\ run'[cont'[d].run].status # "none"
                      /\ cont'[d].fence <= run'[cont'[d].run].fence
    BY DEF FencesReached
  <2> DEFINE r == cont[d].run
  <2>1. Working(d) \/ Takes(d)
    BY StepSlots DEF SlotMove, Working
  <2>2. cont'[d].run = r /\ cont'[d].fence = cont[d].fence
    BY StepSlots DEF SlotMove, Working
  <2>3. cont[d].fence \in Nat /\ r \in Runs /\ run[r].fence \in Nat
    BY <2>1 DEF TypeOK, Local, Slot, Row, Working, Takes, Claim
  <2>4. RowMove(r, run'[r])
    BY <2>3, StepRows
  <2>5. CASE Takes(d)
    <3>1. run' = [run EXCEPT ![r] = [run[r] EXCEPT !.status = "leased", !.owner = ProcOf[d],
                                !.fence = cont[d].fence, !.live = TRUE, !.ckpt = "none"]]
      BY <2>5 DEF Takes, Claim
    <3>2. run'[r].status = "leased" /\ run'[r].fence = cont[d].fence
      BY <2>3, <3>1 DEF TypeOK, Row
    <3> QED
      BY <2>2, <2>3, <3>2
  <2>6. CASE Working(d)
    <3>1. run[r].status # "none" /\ cont[d].fence <= run[r].fence
      BY <2>6 DEF FencesReached
    <3>2. run'[r].status # "none"
      BY <2>4, <3>1 DEF RowMove
    <3>3. CASE run'[r].fence = run[r].fence
      BY <2>2, <3>1, <3>2, <3>3
    <3>4. CASE Granted(r, run'[r])
      <4>1. PICK c \in Conts : Takes(c) /\ cont[c].run = r /\ run'[r].fence = cont[c].fence
        BY <3>4 DEF Granted
      <4>2. run'[r].fence > run[r].fence /\ run'[r].fence \in Nat
        BY <1>2, <4>1 DEF Raises, TypeOK, Local, Slot
      <4> QED
        BY <2>2, <2>3, <3>1, <3>2, <4>2
    <3> QED
      BY <2>4, <3>1, <3>3, <3>4 DEF RowMove
  <2> QED
    BY <2>1, <2>5, <2>6
<1> QED
  BY <1>1, <1>2

\* If the claim compared the fence of its snapshot, as the reclaim is said to do, no lease
\* would be granted twice.
THEOREM RaisedFencesAreFresh == Spec /\ ClaimsRaiseFence => FreshLeases
<1>1. Init => FencesReached
  BY DEF Init, FencesReached, Working, Idle
<1>2. TypeOK /\ FencesReached /\ [Next]_vars /\ [Raises]_vars => FencesReached'
  BY FencesStayReached
<1>3. TypeOK /\ FencesReached /\ [Raises]_vars => [Fresh]_vars
  <2> SUFFICES ASSUME TypeOK, FencesReached, Raises PROVE Fresh
    OBVIOUS
  <2> SUFFICES ASSUME NEW c \in Conts, NEW d \in Conts, Takes(c), Working(d),
                      cont[d].run = cont[c].run
               PROVE  cont[d].fence # cont[c].fence
    BY DEF Fresh
  <2>1. cont[c].fence \in Nat /\ cont[d].fence \in Nat /\ cont[c].run \in Runs
    BY DEF TypeOK, Local, Slot, Takes, Claim
  <2>2. run[cont[c].run].fence \in Nat
    BY <2>1 DEF TypeOK, Row
  <2>3. cont[d].fence <= run[cont[c].run].fence /\ cont[c].fence > run[cont[c].run].fence
    BY DEF FencesReached, Raises
  <2> QED
    BY <2>1, <2>2, <2>3
<1>4. ClaimsRaiseFence <=> [][Raises]_vars
  BY DEF ClaimsRaiseFence, Raises
<1>5. FreshLeases <=> [][Fresh]_vars
  BY DEF FreshLeases, Fresh
<1> QED
  BY <1>1, <1>2, <1>3, <1>4, <1>5, TypeCorrect, PTL DEF Spec

\* A worker process that executes one invocation at a time is granted no lease twice.
THEOREM OneInvocationIsFresh ==
  ASSUME \A c, d \in Conts : ProcOf[c] = ProcOf[d] => c = d
  PROVE  Spec => FreshLeases
<1>1. Fresh
  BY DEF Fresh, Takes, Claim, Working
<1>2. FreshLeases <=> [][Fresh]_vars
  BY DEF FreshLeases, Fresh
<1> QED
  BY <1>1, <1>2, PTL DEF Spec

-----------------------------------------------------------------------------
(* Nothing a turn has not heard is deleted with it. *)

\* What is claimed for a run has been given to the turn that holds it.
ClaimedIsHeard ==
  \A c \in Conts, m \in Msgs :
    cont[c].pc = "turn" /\ Holder(c) /\ row[m].state = "claimed" /\ row[m].run = cont[c].run
      => m \in cont[c].got

\* A row is claimed by the turn it is given to.
SteeringMove(m) ==
  row'[m].state = "claimed" /\ row'[m].run # NoRun =>
    \/ row'[m] = row[m]
    \/ \E d \in Conts : /\ cont[d].pc \in {"prepared", "turn"} /\ Holder(d)
                        /\ row'[m].run = cont[d].run /\ m \in cont'[d].got

\* A row is deleted with its run, or by the commit of the turn.
Deleted(m) ==
  row[m].state # "absent" /\ row'[m].state = "absent" /\ row[m].run \in Runs =>
    \/ ~Active(row[m].run)
    \/ run'[row[m].run].status = "cancelled"
    \/ \E c \in Conts : /\ cont[c].pc = "turn" /\ Holder(c) /\ cont[c].run = row[m].run
                        /\ row[m].state = "claimed" \/ run[row[m].run].trigger = "follow_up"

SteeringMoves == \A m \in Msgs : SteeringMove(m) /\ Deleted(m)

LEMMA UnchangedSteering ==
  ASSUME UNCHANGED row
  PROVE  SteeringMoves
BY DEF SteeringMoves, SteeringMove, Deleted

LEMMA WaitingSteering ==
  ASSUME TypeOK, NEW k, NEW r, row' = [row EXCEPT ![k] = [state |-> "waiting", run |-> r]]
  PROVE  SteeringMoves
<1> SUFFICES ASSUME NEW m \in Msgs PROVE SteeringMove(m) /\ Deleted(m)
  BY DEF SteeringMoves
<1>1. row'[m] = row[m] \/ row'[m].state = "waiting"
  BY DEF TypeOK
<1> QED
  BY <1>1 DEF SteeringMove, Deleted

LEMMA ContinuationSteering ==
  ASSUME NEW rn, NEW rw, NEW n, createSteeringContinuation(rn, rw, n)
  PROVE  \A m \in Msgs : \/ row'[m] = rw[m]
                         \/ rw[m].state # "absent" /\ row'[m].state = "waiting"
BY DEF createSteeringContinuation, Unassigned

LEMMA FinalizeSteering ==
  ASSUME TypeOK, NEW c \in Conts, NEW outcome \in {"completed", "failed"}, NEW n,
         Holder(c), finalizeRun(c, outcome, n), cont[c].pc = "turn" \/ outcome = "failed"
  PROVE  SteeringMoves
<1> DEFINE q  == cont[c].run
           rn == [run EXCEPT ![q] = [@ EXCEPT !.status = outcome, !.owner = NoProc, !.live = FALSE,
                                              !.commits = run[q].commits + 1]]
           rw == [m \in Msgs |-> settled(q, outcome, m)]
<1>1. createSteeringContinuation(rn, rw, n)
  BY DEF finalizeRun
<1> HIDE DEF rn
<1> SUFFICES ASSUME NEW m \in Msgs PROVE SteeringMove(m) /\ Deleted(m)
  BY DEF SteeringMoves
<1>3. row[m] \in Steering /\ rw[m] = settled(q, outcome, m)
  BY DEF TypeOK
<1> HIDE DEF rw
<1>4. \/ row'[m] = rw[m]
      \/ rw[m].state # "absent" /\ row'[m].state = "waiting"
  BY <1>1, ContinuationSteering
<1>5. \/ rw[m] = row[m]
      \/ rw[m].run = NoRun /\ rw[m].state = row[m].state
      \/ /\ rw[m].state = "absent" /\ outcome = "completed" /\ row[m].run = q
         /\ row[m].state = "claimed" \/ run[q].trigger = "follow_up"
  BY <1>3 DEF settled, Steering, NoSteering
<1>6. SteeringMove(m)
  BY <1>4, <1>5 DEF SteeringMove
<1>7. Deleted(m)
  BY <1>4, <1>5 DEF Deleted
<1> QED
  BY <1>6, <1>7

LEMMA ExpireStuckSteering ==
  ASSUME TypeOK, NEW q \in Runs, ExpireStuck(q)
  PROVE  SteeringMoves
<1> DEFINE rn == [run EXCEPT ![q] = [@ EXCEPT !.status = "cancelled", !.owner = NoProc,
                                              !.live = FALSE]]
           rw == [m \in Msgs |-> IF row[m].run = q THEN [state |-> "waiting", run |-> NoRun]
                                                   ELSE row[m]]
<1>1. PICK n \in Runs \cup {NoRun} : createSteeringContinuation(rn, rw, n)
  BY DEF ExpireStuck
<1> HIDE DEF rn
<1> SUFFICES ASSUME NEW m \in Msgs PROVE SteeringMove(m) /\ Deleted(m)
  BY DEF SteeringMoves
<1>3. rw[m] = row[m] \/ rw[m].state = "waiting"
  OBVIOUS
<1> HIDE DEF rw
<1>4. \/ row'[m] = rw[m]
      \/ rw[m].state # "absent" /\ row'[m].state = "waiting"
  BY <1>1, ContinuationSteering
<1> QED
  BY <1>3, <1>4 DEF SteeringMove, Deleted

LEMMA CancelSteering ==
  ASSUME TypeOK, Stop \/ Clear
  PROVE  SteeringMoves
<1> SUFFICES ASSUME NEW m \in Msgs PROVE SteeringMove(m) /\ Deleted(m)
  BY DEF SteeringMoves
<1>1. row' = [k \in Msgs |-> NoSteering]
  BY DEF Stop, Clear
<1>2. row'[m].state = "absent"
  BY <1>1 DEF NoSteering
<1>3. \A r \in Runs : Active(r) => run'[r].status = "cancelled"
  BY DEF Stop, Clear, TypeOK, Row
<1> QED
  BY <1>2, <1>3 DEF SteeringMove, Deleted

LEMMA ClaimSteeringSteering ==
  ASSUME TypeOK, NEW c \in Conts, claimSteering(c), cont[c].pc \in {"prepared", "turn"}
  PROVE  SteeringMoves
<1>1. CASE Holder(c)
  <2> SUFFICES ASSUME NEW m \in Msgs PROVE SteeringMove(m) /\ Deleted(m)
    BY DEF SteeringMoves
  <2>1. row' = [k \in Msgs |-> IF k \in Claimable(c) /\ row[k].state = "waiting"
                               THEN [state |-> "claimed", run |-> cont[c].run] ELSE row[k]]
    BY <1>1 DEF claimSteering
  <2>2. cont' = [cont EXCEPT ![c] = [cont[c] EXCEPT !.pc = "turn",
                                                    !.got = cont[c].got \cup Claimable(c)]]
    BY <1>1 DEF claimSteering
  <2>3. cont'[c].got = cont[c].got \cup Claimable(c)
    BY <2>2 DEF TypeOK, Local, Slot
  <2>4. CASE row'[m] = row[m]
    BY <2>4 DEF SteeringMove, Deleted
  <2>5. CASE row'[m] # row[m]
    <3>1. m \in Claimable(c) /\ row'[m] = [state |-> "claimed", run |-> cont[c].run]
      BY <2>1, <2>5
    <3>2. m \in cont'[c].got
      BY <2>3, <3>1
    <3> QED
      BY <1>1, <3>1, <3>2 DEF SteeringMove, Deleted
  <2> QED
    BY <2>4, <2>5
<1>2. CASE ~Holder(c)
  BY <1>2, UnchangedSteering DEF claimSteering
<1> QED
  BY <1>1, <1>2

LEMMA StepSteering ==
  ASSUME TypeOK, [Next]_vars
  PROVE  SteeringMoves
<1>1. CASE UNCHANGED vars
  BY <1>1, UnchangedSteering DEF vars
<1>2. CASE User
  <2>1. ASSUME NEW q \in Runs, SendSteer(q) \/ FollowUpSteer(q) PROVE SteeringMoves
    <3>1. row' = [row EXCEPT ![sent'] = [state |-> "waiting", run |-> q]]
      BY <2>1 DEF SendSteer, FollowUpSteer
    <3> QED
      BY <3>1, WaitingSteering
  <2>2. ASSUME UNCHANGED row PROVE SteeringMoves
    BY <2>2, UnchangedSteering
  <2> QED
    BY <1>2, <2>1, <2>2, CancelSteering
    DEF User, SendNew, SendAnswer, Answer, Wake, TakeControl, ReleaseControl
<1>3. CASE Sweep
  BY <1>3, UnchangedSteering, ExpireStuckSteering DEF Sweep, Expire, Reconcile
<1>4. ASSUME NEW c \in Conts, Advance(c) \/ ClaimMore(c) PROVE SteeringMoves
  <2>1. CASE BeginTurn(c) \/ ClaimMore(c)
    BY <2>1, ClaimSteeringSteering DEF BeginTurn, ClaimMore
  <2>2. CASE Claim(c) \/ Start(c) \/ Acquire(c) \/ Prepare(c) \/ Lost(c) \/ HeldReleased(c)
    BY <2>2, UnchangedSteering
    DEF Claim, Start, Acquire, Prepare, Lost, HeldReleased, requeueComputerRun
  <2> QED
    BY <1>4, <2>1, <2>2 DEF Advance
<1>5. ASSUME NEW c \in Conts, EndTurn(c) PROVE SteeringMoves
  <2>1. ASSUME NEW n \in Runs \cup {NoRun}, NEW outcome \in {"completed", "failed"},
               Finish(c, outcome, n)
        PROVE  SteeringMoves
    BY <2>1, FinalizeSteering DEF Finish
  <2> QED
    BY <1>5, <2>1, UnchangedSteering DEF EndTurn, Ask, RequestTakeover
<1>6. ASSUME NEW c \in Conts, SetupFails(c) PROVE SteeringMoves
  <2>1. ASSUME NEW n \in Runs \cup {NoRun}, SetupTerminal(c, n) PROVE SteeringMoves
    BY <2>1, FinalizeSteering DEF SetupTerminal
  <2> QED
    BY <1>6, <2>1, UnchangedSteering
    DEF SetupFails, SetupRetry, SetupBusy, AcquireBusy, requeueComputerRun
<1>7. ASSUME NEW c \in Conts, (\E r \in Runs : Deliver(c, r)) \/ Heartbeat(c) \/ Abandon(c)
      PROVE  SteeringMoves
  BY <1>7, UnchangedSteering DEF Deliver, Heartbeat, Abandon
<1>8. ASSUME NEW p \in Procs, Crash(p) PROVE SteeringMoves
  BY <1>8, UnchangedSteering DEF Crash
<1> QED
  BY <1>1, <1>2, <1>3, <1>4, <1>5, <1>6, <1>7, <1>8 DEF Next, Worker

\* The turn that writes to its run after a step wrote to it before.
LEMMA HolderStays ==
  ASSUME TypeOK, LeasesApart, [Next]_vars, NEW c \in Conts, cont'[c].pc = "turn", Holder(c)'
  PROVE  /\ Holder(c) /\ Working(c) /\ cont'[c].run = cont[c].run
         /\ \/ cont[c].pc = "turn" /\ cont[c].got \subseteq cont'[c].got
            \/ BeginTurn(c)
<1> DEFINE r == cont[c].run
<1>1. /\ cont'[c].run = r /\ cont'[c].fence = cont[c].fence
      /\ \/ cont[c].pc = "turn" /\ cont[c].got \subseteq cont'[c].got
         \/ BeginTurn(c)
  BY StepSlots DEF SlotMove
<1>2. cont[c].pc \in {"prepared", "turn"} /\ Working(c) /\ r \in Runs
  BY <1>1 DEF BeginTurn, Working, TypeOK, Local, Slot
<1>3. /\ run'[r].status = "running"
      /\ run'[r].owner = ProcOf[c] /\ run'[r].fence = cont[c].fence
  BY <1>1 DEF Holder
<1>4. RowMove(r, run'[r])
  BY <1>2, StepRows
<1>5. SameLease(r, run'[r])
  BY <1>3, <1>4 DEF RowMove, Granted, Leasable
<1>6. run[r].status = "running"
  <2>1. CASE Started(r, run'[r])
    <3>1. PICK d \in Conts : /\ cont[d].pc = "claimed" /\ cont[d].run = r
                             /\ run'[r].owner = ProcOf[d] /\ run'[r].fence = cont[d].fence
      BY <2>1 DEF Started
    <3>2. c = d
      BY <1>2, <1>3, <3>1 DEF LeasesApart, Working
    <3> QED
      BY <1>2, <3>1, <3>2
  <2> QED
    BY <1>3, <1>4, <2>1 DEF RowMove
<1>7. Holder(c)
  BY <1>2, <1>3, <1>5, <1>6, NoRunAssumption DEF Holder, SameLease
<1> QED
  BY <1>1, <1>2, <1>7

LEMMA ClaimedStaysHeard ==
  ASSUME TypeOK, LeasesApart, ClaimedIsHeard, [Next]_vars
  PROVE  ClaimedIsHeard'
<1> SUFFICES ASSUME NEW c \in Conts, NEW m \in Msgs, cont'[c].pc = "turn", Holder(c)',
                    row'[m].state = "claimed", row'[m].run = cont'[c].run
             PROVE  m \in cont'[c].got
  BY DEF ClaimedIsHeard
<1>1. /\ Holder(c) /\ Working(c) /\ cont'[c].run = cont[c].run
      /\ \/ cont[c].pc = "turn" /\ cont[c].got \subseteq cont'[c].got
         \/ BeginTurn(c)
  BY HolderStays
<1>2. row'[m].run # NoRun
  BY <1>1, HolderType, NoRunAssumption
<1>3. SteeringMove(m)
  BY StepSteering DEF SteeringMoves
<1>4. ASSUME NEW d \in Conts, cont[d].pc \in {"prepared", "turn"}, Holder(d),
             row'[m].run = cont[d].run, m \in cont'[d].got
      PROVE  m \in cont'[c].got
  <2>1. c = d
    BY <1>1, <1>4 DEF LeasesApart, Working, Holder
  <2> QED
    BY <1>4, <2>1
<1>5. ASSUME row'[m] = row[m] PROVE m \in cont'[c].got
  <2>1. row[m].state = "claimed" /\ row[m].run = cont[c].run
    BY <1>1, <1>5
  <2>2. CASE cont[c].pc = "turn" /\ cont[c].got \subseteq cont'[c].got
    BY <1>1, <2>1, <2>2 DEF ClaimedIsHeard
  <2>3. CASE BeginTurn(c)
    <3>1. cont' = [cont EXCEPT ![c] = [cont[c] EXCEPT !.pc = "turn",
                                                      !.got = cont[c].got \cup Claimable(c)]]
      BY <1>1, <2>3 DEF BeginTurn, claimSteering
    <3>2. cont'[c].got = cont[c].got \cup Claimable(c)
      BY <3>1 DEF TypeOK, Local, Slot
    <3> QED
      BY <2>1, <3>2 DEF Claimable
  <2> QED
    BY <1>1, <2>2, <2>3
<1> QED
  BY <1>2, <1>3, <1>4, <1>5 DEF SteeringMove

LEMMA DropsAreHeard ==
  ASSUME TypeOK, ClaimedIsHeard, [Next]_vars, NEW m \in Msgs, Dropped(m)
  PROVE  run[row[m].run].trigger = "follow_up"
<1>1. row[m].run \in Runs
  BY DEF Dropped, TypeOK, Steering
<1>2. Deleted(m)
  BY StepSteering DEF SteeringMoves
<1>3. PICK c \in Conts : /\ cont[c].pc = "turn" /\ Holder(c) /\ cont[c].run = row[m].run
                         /\ row[m].state = "claimed" \/ run[row[m].run].trigger = "follow_up"
  BY <1>1, <1>2 DEF Deleted, Dropped
<1>4. CASE row[m].state = "claimed"
  <2>1. m \in cont[c].got
    BY <1>3, <1>4 DEF ClaimedIsHeard
  <2> QED
    BY <1>3, <2>1 DEF Dropped, Heard
<1> QED
  BY <1>3, <1>4

\* While no lease is granted twice, a message sent into a busy thread leaves the steering
\* table only with a turn that was given it, by a stop or a clear, or with a run that is
\* itself a continuation.
THEOREM NothingDroppedUnheard == Spec /\ FreshLeases => NoSilentDrop
<1>1. Init => ClaimedIsHeard
  BY DEF Init, ClaimedIsHeard, Idle
<1>2. TypeOK /\ LeasesApart /\ ClaimedIsHeard /\ [Next]_vars => ClaimedIsHeard'
  BY ClaimedStaysHeard
<1>3. TypeOK /\ ClaimedIsHeard /\ [Next]_vars
        => [\A m \in Msgs : Dropped(m) => run[row[m].run].trigger = "follow_up"]_vars
  BY DropsAreHeard
<1> QED
  BY <1>1, <1>2, <1>3, ApartInductive, PTL DEF Spec, NoSilentDrop

-----------------------------------------------------------------------------
(* A run parked for the screen is bound to it. *)

\* An invocation that has read a run as held has read it waiting for the screen.
HeldIsRead ==
  \A c \in Conts : cont[c].pc = "read" /\ cont[c].held => cont[c].seen = "waiting_takeover"

ScreenBound == \A r \in Runs : AtScreen(r) => ctl = r

Apart ==
  \A c \in Conts, r \in Runs : RequestTakeover(c) /\ AtScreen(r) => r = cont[c].run

LEMMA HeldStaysRead ==
  ASSUME TypeOK, HeldIsRead, [Next]_vars
  PROVE  HeldIsRead'
BY StepSlots DEF HeldIsRead, SlotMove

\* A run comes to the screen by asking for it, and otherwise only stays there.
LEMMA ComesToScreen ==
  ASSUME TypeOK, HeldIsRead, [Next]_vars, Fresh \/ UNCHANGED vars, NEW r \in Runs, AtScreen(r)'
  PROVE  AtScreen(r) \/ \E c \in Conts : RequestTakeover(c) /\ cont[c].run = r
<1>1. RowMove(r, run'[r])
  BY StepRows
<1>2. CASE run'[r].status = "waiting_takeover"
  BY <1>1, <1>2 DEF RowMove, AtScreen
<1>3. ASSUME NEW c \in Conts, Gated(c)', cont'[c].run = r PROVE AtScreen(r)
  <2>1. /\ cont[c].run = r /\ cont'[c].fence = cont[c].fence
        /\ Working(c) \/ Takes(c)
        /\ cont[c].held /\ ~cont[c].resume
    BY <1>3, StepSlots DEF SlotMove, Gated, Working
  <2>2. /\ run'[r].status \in Leasable
        /\ run'[r].owner = ProcOf[c] /\ run'[r].fence = cont[c].fence
        /\ run'[r].ckpt # "released"
    BY <1>3, <2>1 DEF Gated, Leased
  <2>3. CASE Takes(c)
    <3>1. cont[c].pc = "read" /\ run[r].status = cont[c].seen
      BY <2>1, <2>3 DEF Takes, Claim, claimable
    <3> QED
      BY <2>1, <3>1 DEF HeldIsRead, AtScreen
  <2>4. CASE Working(c)
    <3>1. CASE SameLease(r, run'[r])
      <4>1. Gated(c)
        BY <2>1, <2>2, <2>4, <3>1 DEF SameLease, Gated, Leased
      <4> QED
        BY <2>1, <4>1 DEF AtScreen
    <3>2. CASE Granted(r, run'[r])
      <4>1. PICK d \in Conts : /\ Takes(d) /\ cont[d].run = r
                               /\ run'[r].owner = ProcOf[d] /\ run'[r].fence = cont[d].fence
        BY <3>2 DEF Granted
      <4>2. CASE Fresh
        BY <2>1, <2>2, <2>4, <4>1, <4>2 DEF Fresh
      <4>3. CASE UNCHANGED vars
        BY <1>3, <4>3 DEF vars, AtScreen, Gated, Leased, Working
      <4> QED
        BY <4>2, <4>3
    <3> QED
      BY <1>1, <2>2, <3>1, <3>2 DEF RowMove
  <2> QED
    BY <2>1, <2>3, <2>4
<1> QED
  BY <1>2, <1>3 DEF AtScreen

\* What a step does to the control of the screen.
LEMMA ControlMoves ==
  ASSUME TypeOK, [Next]_vars
  PROVE  \/ ctl' = ctl
         \/ \E c \in Conts : RequestTakeover(c) /\ ctl' = cont[c].run
         \/ \E q \in Runs \cup {NoRun} : TakeControl(q)
         \/ ReleaseControl
         \/ ctl \in Runs /\ ExpireStuck(ctl)
<1>1. CASE User
  BY <1>1 DEF User, SendNew, SendAnswer, SendSteer, FollowUpSteer, Answer, Wake, Stop, Clear
<1>2. CASE Sweep
  BY <1>2 DEF Sweep, Expire, Reconcile, ExpireStuck
<1>3. ASSUME NEW c \in Conts, Advance(c) \/ ClaimMore(c) \/ Heartbeat(c) \/ SetupFails(c) \/ Abandon(c)
      PROVE  ctl' = ctl
  BY <1>3 DEF Advance, Claim, Start, Acquire, Prepare, BeginTurn, Lost, HeldReleased, ClaimMore,
              Heartbeat, SetupFails, SetupTerminal, SetupRetry, SetupBusy, AcquireBusy, Abandon,
              requeueComputerRun
<1>4. ASSUME NEW c \in Conts, EndTurn(c)
      PROVE  \/ ctl' = ctl
             \/ RequestTakeover(c) /\ ctl' = cont[c].run
  BY <1>4 DEF EndTurn, Ask, RequestTakeover, Finish
<1>5. ASSUME NEW c \in Conts, NEW r \in Runs, Deliver(c, r) PROVE ctl' = ctl
  BY <1>5 DEF Deliver
<1>6. ASSUME NEW p \in Procs, Crash(p) PROVE ctl' = ctl
  BY <1>6 DEF Crash
<1>7. CASE UNCHANGED vars
  BY <1>7 DEF vars
<1> QED
  BY <1>1, <1>2, <1>3, <1>4, <1>5, <1>6, <1>7 DEF Next, Worker

LEMMA AtScreenActive ==
  ASSUME TypeOK, NEW r \in Runs, AtScreen(r)
  PROVE  Active(r)
BY DEF AtScreen, Gated, Leased, Leasable, Active, ActiveStatuses

\* A release ends the stay of the run that the screen is bound to.
LEMMA ReleaseLeaves ==
  ASSUME TypeOK, ReleaseControl, NEW r \in Runs, ctl = r, AtScreen(r)
  PROVE  ~AtScreen(r)'
<1>1. run[r] \in Row /\ NoRun # r
  BY NoRunAssumption DEF TypeOK
<1>2. run[r].status = "waiting_takeover" \/ run[r].status \in Leasable
  BY DEF AtScreen, Gated, Leased
<1>3. CASE run[r].status = "waiting_takeover"
  <2>1. run' = [run EXCEPT ![r] = [run[r] EXCEPT !.status = "queued", !.ckpt = "released"]]
    BY <1>1, <1>3 DEF ReleaseControl, Queued, Leasable
  <2>2. run'[r].status = "queued"
    BY <1>1, <2>1 DEF TypeOK, Row
  <2> QED
    BY <2>2 DEF AtScreen, Gated, Leased, Leasable
<1>4. CASE run[r].status \in Leasable
  <2>1. run' = [run EXCEPT ![r] = [run[r] EXCEPT !.ckpt = "released"]]
    BY <1>1, <1>4 DEF ReleaseControl, Leasable
  <2>2. run'[r].ckpt = "released" /\ run'[r].status = run[r].status
    BY <1>1, <2>1 DEF TypeOK, Row
  <2> QED
    BY <1>4, <2>2 DEF AtScreen, Gated, Leasable
<1> QED
  BY <1>2, <1>3, <1>4

LEMMA ScreenStaysBound ==
  ASSUME TypeOK, HeldIsRead, ScreenBound, [Next]_vars,
         Fresh \/ UNCHANGED vars, Apart \/ UNCHANGED vars
  PROVE  ScreenBound'
<1> SUFFICES ASSUME NEW r \in Runs, AtScreen(r)' PROVE ctl' = r
  BY DEF ScreenBound
<1>1. CASE UNCHANGED vars
  <2>1. ctl' = ctl /\ (AtScreen(r)' <=> AtScreen(r))
    BY <1>1 DEF vars, AtScreen, Gated, Leased, Working
  <2> QED
    BY <2>1 DEF ScreenBound
<1>2. CASE Apart /\ \E c \in Conts : RequestTakeover(c)
  <2>1. PICK c \in Conts : RequestTakeover(c)
    BY <1>2
  <2>2. ctl' = cont[c].run
    BY <2>1 DEF RequestTakeover
  <2>3. ASSUME NEW d \in Conts, RequestTakeover(d), cont[d].run = r PROVE ctl' = r
    BY <2>3 DEF RequestTakeover
  <2> QED
    BY <1>2, <2>1, <2>2, <2>3, ComesToScreen DEF Apart
<1>3. CASE ~\E c \in Conts : RequestTakeover(c)
  <2>1. AtScreen(r) /\ ctl = r
    BY <1>3, ComesToScreen DEF ScreenBound
  <2>2. ASSUME NEW q \in Runs \cup {NoRun}, TakeControl(q) PROVE ctl' = r
    <3>1. CASE q \in Runs /\ run[q].status = "waiting_takeover"
      <4>1. AtScreen(q)
        BY <3>1 DEF AtScreen
      <4> QED
        BY <2>1, <2>2, <3>1, <4>1 DEF TakeControl, ScreenBound
    <3>2. CASE \A k \in Runs : ~Active(k)
      BY <2>1, <3>2, AtScreenActive
    <3> QED
      BY <2>2, <3>1, <3>2 DEF TakeControl
  <2>3. ~ReleaseControl
    BY <2>1, ReleaseLeaves
  <2>4. ASSUME ExpireStuck(ctl) PROVE FALSE
    <3>1. run'[r].status = "cancelled"
      BY <2>1, <2>4, ExpireStuckRows
    <3> QED
      BY <3>1 DEF AtScreen, Gated, Leased, Leasable
  <2> QED
    BY <1>3, <2>1, <2>2, <2>3, <2>4, ControlMoves
<1> QED
  BY <1>1, <1>2, <1>3

\* While no lease is granted twice and runs ask for the screen one at a time, a run parked
\* for the screen is bound to it, so that a release resumes it: a run continued while the
\* user holds the screen is parked again only if no release came between.
THEOREM ParkedRunsAreBound == Spec /\ FreshLeases /\ TakeoversApart => []NoOrphanTakeover
<1>1. Init => HeldIsRead /\ ScreenBound
  BY DEF Init, HeldIsRead, ScreenBound, AtScreen, Gated, Working, Idle, NoRow, NewRow
<1>2. TypeOK /\ HeldIsRead /\ [Next]_vars => HeldIsRead'
  BY HeldStaysRead
<1>3. TypeOK /\ HeldIsRead /\ ScreenBound /\ [Next]_vars /\ [Fresh]_vars /\ [Apart]_vars
        => ScreenBound'
  BY ScreenStaysBound
<1>4. ScreenBound => NoOrphanTakeover
  BY DEF ScreenBound, NoOrphanTakeover, AtScreen
<1>5. FreshLeases <=> [][Fresh]_vars
  BY DEF FreshLeases, Fresh
<1>6. TakeoversApart <=> [][Apart]_vars
  BY DEF TakeoversApart, Apart
<1> QED
  BY <1>1, <1>2, <1>3, <1>4, <1>5, <1>6, TypeCorrect, PTL DEF Spec

-----------------------------------------------------------------------------
(* Instances that meet the conditions. *)

\* A process that executes one invocation at a time drops no message unheard.
THEOREM OneInvocationDropsNothing ==
  ASSUME \A c, d \in Conts : ProcOf[c] = ProcOf[d] => c = d
  PROVE  Spec => NoSilentDrop
<1>1. Spec => FreshLeases
  BY OneInvocationIsFresh
<1> QED
  BY <1>1, NothingDroppedUnheard, PTL

\* The conversation has one active run.
OneActive == \A q, r \in Runs : Active(q) /\ Active(r) => q = r

LEMMA OneStaysActive ==
  ASSUME Wakes = {}, IInv, SInv, OneActive, [Next]_vars
  PROVE  OneActive'
<1> SUFFICES ASSUME NEW q \in Runs, NEW r \in Runs, Active(q)', Active(r)' PROVE q = r
  BY DEF OneActive
<1>1. ASSUME NEW k \in Runs, Active(k)' PROVE Active(k) \/ Starts(k)
  <2>1. Moves(k) /\ run[k].status \in Statuses
    BY StepMoves DEF IInv, TypeOK, Row
  <2>2. run'[k].status \in ActiveStatuses
    BY <1>1 DEF Active
  <2>3. CASE run[k].status \in TerminalStatuses
    BY <2>1, <2>2, <2>3 DEF Moves, TerminalStatuses, ActiveStatuses
  <2>4. CASE run[k].status = "none"
    BY <2>2, <2>4 DEF Starts, ActiveStatuses
  <2>5. CASE run[k].status \in ActiveStatuses
    BY <2>5 DEF Active
  <2> QED
    BY <2>1, <2>3, <2>4, <2>5 DEF Statuses
<1>2. ASSUME NEW k \in Runs, NEW j \in Runs, Starts(k), Active(j)' PROVE j = k
  <2>1. RowMove(k, run'[k])
    BY StepRows DEF IInv
  <2>2. run'[k].trigger \in {"user", "follow_up"}
    BY <1>2, <2>1 DEF RowMove, Starts
  <2>3. StartsAlone(k)
    BY StepSafe DEF Safe
  <2> QED
    BY <1>2, <2>2, <2>3 DEF StartsAlone, Active
<1>3. CASE Active(q) /\ Active(r)
  BY <1>3 DEF OneActive
<1> QED
  BY <1>1, <1>2, <1>3

\* Where nothing but the user's messages and their continuations starts a run, the bot has
\* one active run at a time, whatever ends, expires or is stopped meanwhile.
THEOREM OneRunAtATime ==
  ASSUME Wakes = {}
  PROVE  Spec => []OneActive
<1>1. Init => OneActive
  BY DEF Init, OneActive, Active, ActiveStatuses, NoRow, NewRow
<1>2. IInv /\ SInv /\ OneActive /\ [Next]_vars => OneActive'
  BY OneStaysActive
<1>3. Spec => [](IInv /\ SInv)
  BY TypeCorrect, CommitsOnce, SteeringInductive, PTL DEF IInv
<1> QED
  BY <1>1, <1>2, <1>3, PTL DEF Spec

\* There every parked run is bound to the screen as long as no lease is granted twice.
THEOREM OneRunIsBound ==
  ASSUME Wakes = {}
  PROVE  Spec /\ FreshLeases => []NoOrphanTakeover
<1>1. TypeOK /\ OneActive => Apart
  <2> SUFFICES ASSUME TypeOK, OneActive, NEW c \in Conts, NEW r \in Runs,
                      RequestTakeover(c), AtScreen(r)
               PROVE  r = cont[c].run
    BY DEF Apart
  <2>1. cont[c].run \in Runs /\ Active(cont[c].run)
    BY HolderType DEF RequestTakeover, Holder, Active, ActiveStatuses
  <2> QED
    BY <2>1, AtScreenActive DEF OneActive
<1>2. TakeoversApart <=> [][Apart]_vars
  BY DEF TakeoversApart, Apart
<1>3. Spec => []OneActive
  BY OneRunAtATime
<1>4. Spec => TakeoversApart
  BY <1>1, <1>2, <1>3, TypeCorrect, PTL
<1> QED
  BY <1>4, ParkedRunsAreBound, PTL
=============================================================================
