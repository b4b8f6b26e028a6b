------------------------- MODULE RunLifecycle_proofs -------------------------
(***************************************************************************)
(* What RunLifecycle guarantees for every set of runs, invocations and     *)
(* processes and every bound: its types, that a run commits at most one    *)
(* outcome, and that a run which has ended never moves again.              *)
(***************************************************************************)
EXTENDS RunLifecycle, TLAPS

-----------------------------------------------------------------------------
(* The building blocks of the actions keep the types of the tables. *)

LEMMA NewRowType ==
  ASSUME NEW trigger \in Triggers, NEW src \in Nat
  PROVE  NewRow(trigger, src) \in Row
BY DEF NewRow, Row, Statuses, ActiveStatuses, TerminalStatuses, Checkpoints

LEMMA RequeueType ==
  ASSUME NEW row0 \in Row, NEW resume \in BOOLEAN, NEW held \in BOOLEAN
  PROVE  /\ computerRunRequeueData(row0, resume, held) \in Row
         /\ writeComputerRunRequeue(row0, resume, held) \in Row
BY DEF computerRunRequeueData, writeComputerRunRequeue, Row, Statuses, ActiveStatuses,
       TerminalStatuses, Checkpoints

LEMMA IdleType == Idle \in Local
BY DEF Idle, Local, Slot, Phases, Statuses, Checkpoints

LEMMA InitType == Init => TypeOK
<1> SUFFICES ASSUME Init PROVE TypeOK
  OBVIOUS
<1>1. run \in [Runs -> Row]
  <2>1. NoRow \in Row
    BY DEF NoRow, NewRow, Row, Statuses, Checkpoints, Triggers
  <2> QED
    BY <2>1 DEF Init
<1>2. cont \in [Conts -> Local]
  BY IdleType DEF Init
<1>3. row \in [Msgs -> Steering]
  <2>1. NoSteering \in Steering
    BY DEF NoSteering, Steering
  <2> QED
    BY <2>1 DEF Init
<1>4. sent \in 0..NMsgs
  BY BoundsAssumption DEF Init
<1> QED
  BY <1>1, <1>2, <1>3, <1>4 DEF Init, TypeOK

-----------------------------------------------------------------------------
LEMMA QueuedType ==
  ASSUME TypeOK, NEW r \in Runs, NEW ckpt \in Checkpoints
  PROVE  Queued(r, ckpt) \in [Runs -> Row]
BY DEF TypeOK, Queued, Row, Statuses, ActiveStatuses

LEMMA EnqueueType ==
  ASSUME TypeOK, NEW r \in Runs, Enqueue(r)
  PROVE  jobs' \subseteq Runs /\ faults' \in Nat
BY DEF TypeOK, Enqueue, Fault, NoFault

LEMMA EndType ==
  ASSUME TypeOK, NEW c \in Conts, End(c)
  PROVE  cont' \in [Conts -> Local]
BY IdleType DEF TypeOK, End

LEMMA WaitingType ==
  ASSUME TypeOK, NEW m, NEW r \in Runs,
         row' = [row EXCEPT ![m] = [state |-> "waiting", run |-> r]]
  PROVE  row' \in [Msgs -> Steering]
<1>1. [state |-> "waiting", run |-> r] \in Steering
  BY DEF Steering
<1> QED
  BY <1>1 DEF TypeOK

LEMMA CreateType ==
  ASSUME TypeOK, NEW r \in Runs, NEW trigger \in Triggers, NEW src \in Nat,
         Create(r, trigger, src)
  PROVE  run' \in [Runs -> Row] /\ jobs' \subseteq Runs /\ faults' \in Nat
BY NewRowType, EnqueueType DEF TypeOK, Create

LEMMA ContinuationType ==
  ASSUME NEW rn \in [Runs -> Row], NEW rw \in [Msgs -> Steering],
         NEW n \in Runs \cup {NoRun}, createSteeringContinuation(rn, rw, n)
  PROVE  run' \in [Runs -> Row] /\ row' \in [Msgs -> Steering]
<1>1. CASE NeedsContinuation(rn, rw)
  <2>1. PICK m \in Msgs : run' = [rn EXCEPT ![n] = NewRow("follow_up", m)]
    BY <1>1 DEF createSteeringContinuation
  <2>2. NewRow("follow_up", m) \in Row
    BY NewRowType, BoundsAssumption DEF Triggers, Msgs
  <2>3. n \in Runs
    BY <1>1 DEF createSteeringContinuation
  <2>4. row' \in [Msgs -> Steering]
    BY <1>1, <2>3 DEF createSteeringContinuation, Steering
  <2> QED
    BY <2>1, <2>2, <2>4
<1>2. CASE ~NeedsContinuation(rn, rw)
  BY <1>2 DEF createSteeringContinuation
<1> QED
  BY <1>1, <1>2

-----------------------------------------------------------------------------
(* Every action keeps the types. *)

LEMMA UserType ==
  ASSUME TypeOK, User
  PROVE  TypeOK'
<1> USE DEF TypeOK
<1>1. ASSUME NEW r \in Runs, NEW t \in {"user", "follow_up"}, SendNew(r, t) PROVE TypeOK'
  BY <1>1, CreateType, BoundsAssumption DEF SendNew, Triggers
<1>2. ASSUME NEW r \in Runs, SendAnswer(r) PROVE TypeOK'
  <2>1. PICK ckpt \in {run[r].ckpt, "none"} : run' = Queued(r, ckpt)
    BY <1>2 DEF SendAnswer
  <2>2. ckpt \in Checkpoints
    BY DEF Row, Checkpoints
  <2> QED
    BY <1>2, <2>1, <2>2, QueuedType, EnqueueType, BoundsAssumption DEF SendAnswer
<1>3. ASSUME NEW r \in Runs, SendSteer(r) PROVE TypeOK'
  <2>1. run' \in [Runs -> Row]
    BY <1>3, QueuedType DEF SendSteer, Checkpoints
  <2>2. jobs' \subseteq Runs /\ faults' \in Nat
    BY <1>3, EnqueueType DEF SendSteer, NoFault
  <2>3. sent' \in 0..NMsgs
    BY <1>3, BoundsAssumption DEF SendSteer
  <2>4. row' \in [Msgs -> Steering]
    BY <1>3, WaitingType DEF SendSteer
  <2> QED
    BY <1>3, <2>1, <2>2, <2>3, <2>4 DEF SendSteer
<1>4. ASSUME NEW r \in Runs, FollowUpSteer(r) PROVE TypeOK'
  <2>1. sent' \in 0..NMsgs
    BY <1>4, BoundsAssumption DEF FollowUpSteer
  <2>2. row' \in [Msgs -> Steering]
    BY <1>4, WaitingType DEF FollowUpSteer
  <2> QED
    BY <1>4, <2>1, <2>2 DEF FollowUpSteer
<1>5. ASSUME NEW r \in Runs, Answer(r) PROVE TypeOK'
  <2>1. PICK ckpt \in {run[r].ckpt, "none"} : run' = Queued(r, ckpt)
    BY <1>5 DEF Answer
  <2>2. ckpt \in Checkpoints
    BY DEF Row, Checkpoints
  <2> QED
    BY <1>5, <2>1, <2>2, QueuedType, EnqueueType DEF Answer
<1>6. ASSUME NEW r \in Runs, NEW t \in Wakes, NEW src \in 0..sent, Wake(r, t, src) PROVE TypeOK'
  BY <1>6, CreateType, WakesAssumption DEF Wake, Triggers
<1>7. ASSUME Stop PROVE TypeOK'
  BY <1>7 DEF Stop, Row, Statuses, TerminalStatuses, Steering, NoSteering
<1>8. ASSUME Clear PROVE TypeOK'
  <2>1. ASSUME NEW r \in Runs
        PROVE  /\ [run[r] EXCEPT !.status = "cancelled", !.owner = NoProc, !.live = FALSE,
                                  !.src = 0] \in Row
               /\ [run[r] EXCEPT !.src = 0] \in Row
    BY DEF Row, Statuses, TerminalStatuses
  <2>2. run' \in [Runs -> Row]
    BY <1>8, <2>1 DEF Clear
  <2> QED
    BY <1>8, <2>2 DEF Clear, Steering, NoSteering
<1>9. ASSUME NEW r \in Runs \cup {NoRun}, TakeControl(r) PROVE TypeOK'
  BY <1>9 DEF TakeControl
<1>10. ASSUME ReleaseControl PROVE TypeOK'
  <2>1. CASE ctl = NoRun
    BY <1>10, <2>1 DEF ReleaseControl, NoFault, Leasable
  <2>2. CASE ctl \in Runs /\ run[ctl].status = "waiting_takeover"
    BY <1>10, <2>2, NoRunAssumption, QueuedType, EnqueueType
    DEF ReleaseControl, Checkpoints, Leasable
  <2>3. CASE ctl \in Runs /\ run[ctl].status \in Leasable
    <3>1. [run EXCEPT ![ctl].ckpt = "released"] \in [Runs -> Row]
      BY <2>3 DEF Row, Checkpoints
    <3> QED
      BY <1>10, <2>3, <3>1, NoRunAssumption, EnqueueType DEF ReleaseControl, Leasable
  <2>4. CASE ctl \in Runs /\ run[ctl].status \notin Leasable \cup {"waiting_takeover"}
    BY <1>10, <2>4, NoRunAssumption DEF ReleaseControl, NoFault, Leasable
  <2> QED
    BY <2>1, <2>2, <2>3, <2>4
<1> QED
  BY <1>1, <1>2, <1>3, <1>4, <1>5, <1>6, <1>7, <1>8, <1>9, <1>10 DEF User

LEMMA SweepType ==
  ASSUME TypeOK, Sweep
  PROVE  TypeOK'
<1> USE DEF TypeOK
<1>1. ASSUME NEW r \in Runs, Expire(r) PROVE TypeOK'
  <2>1. [run[r] EXCEPT !.live = FALSE] \in Row
    BY DEF Row
  <2>2. run' \in [Runs -> Row]
    BY <1>1, <2>1 DEF Expire
  <2>3. faults' \in Nat
    BY <1>1 DEF Expire, Fault, NoFault
  <2> QED
    BY <1>1, <2>2, <2>3 DEF Expire
<1>2. ASSUME NEW r \in Runs, Reconcile(r) PROVE TypeOK'
  BY <1>2 DEF Reconcile
<1>3. ASSUME NEW r \in Runs, ExpireStuck(r) PROVE TypeOK'
  <2> DEFINE rn == [run EXCEPT ![r] = [@ EXCEPT !.status = "cancelled", !.owner = NoProc, !.live = FALSE]]
             rw == [m \in Msgs |-> IF row[m].run = r THEN [state |-> "waiting", run |-> NoRun]
                                                     ELSE row[m]]
  <2>1. rn \in [Runs -> Row]
    <3>1. [run[r] EXCEPT !.status = "cancelled", !.owner = NoProc, !.live = FALSE] \in Row
      BY DEF Row, Statuses, TerminalStatuses
    <3> QED
      BY <3>1
  <2>2. rw \in [Msgs -> Steering]
    BY DEF Steering
  <2>3. PICK n \in Runs \cup {NoRun} :
          createSteeringContinuation(rn, rw, n) /\ jobs' = jobs \cup ({n} \ {NoRun})
    BY <1>3 DEF ExpireStuck
  <2>4. run' \in [Runs -> Row] /\ row' \in [Msgs -> Steering]
    BY <2>1, <2>2, <2>3, ContinuationType
  <2> QED
    BY <1>3, <2>3, <2>4 DEF ExpireStuck, Fault
<1> QED
  BY <1>1, <1>2, <1>3 DEF Sweep

\* What the lease clause says of types.
LEMMA HolderType ==
  ASSUME TypeOK, NEW c \in Conts, Holder(c)
  PROVE  cont[c].run \in Runs
BY DEF TypeOK, Holder, Local, Slot

LEMMA SettledType ==
  ASSUME TypeOK, NEW r \in Runs, NEW outcome, NEW m \in Msgs
  PROVE  settled(r, outcome, m) \in Steering
<1>1. row[m] \in Steering /\ NoSteering \in Steering
  BY DEF TypeOK, Steering, NoSteering
<1>2. [row[m] EXCEPT !.run = NoRun] \in Steering
  BY <1>1 DEF Steering
<1> QED
  BY <1>1, <1>2 DEF settled

LEMMA EndedType ==
  ASSUME NEW x \in Row, NEW outcome \in {"completed", "failed"}
  PROVE  [x EXCEPT !.status = outcome, !.owner = NoProc, !.live = FALSE,
                   !.commits = x.commits + 1] \in Row
<1>1. outcome \in Statuses
  BY DEF Statuses, TerminalStatuses
<1>2. x.commits + 1 \in Nat
  BY DEF Row
<1> QED
  BY <1>1, <1>2 DEF Row

LEMMA FinalizeType ==
  ASSUME TypeOK, NEW c \in Conts, NEW outcome \in {"completed", "failed"},
         NEW n \in Runs \cup {NoRun}, Holder(c), finalizeRun(c, outcome, n)
  PROVE  run' \in [Runs -> Row] /\ row' \in [Msgs -> Steering]
<1> DEFINE r  == cont[c].run
           ended == [run[r] EXCEPT !.status = outcome, !.owner = NoProc, !.live = FALSE,
                                   !.commits = run[r].commits + 1]
           rn == [run EXCEPT ![r] = ended]
           rw == [m \in Msgs |-> settled(r, outcome, m)]
<1>1. r \in Runs
  BY HolderType
<1>2. ended \in Row
  BY <1>1, EndedType DEF TypeOK
<1>3. rn \in [Runs -> Row]
  BY <1>2 DEF TypeOK
<1>4. rw \in [Msgs -> Steering]
  BY <1>1, SettledType
<1>5. createSteeringContinuation(rn, rw, n)
  BY DEF finalizeRun
<1> QED
  BY <1>3, <1>4, <1>5, ContinuationType

LEMMA RequeueRunType ==
  ASSUME TypeOK, NEW c \in Conts, NEW resume \in BOOLEAN, NEW held \in BOOLEAN,
         NEW charged \in Nat, requeueComputerRun(c, resume, held, charged)
  PROVE  /\ run' \in [Runs -> Row] /\ cont' \in [Conts -> Local] /\ jobs' \subseteq Runs
         /\ UNCHANGED <<row, sent, ctl, userHolds>>
<1> USE DEF TypeOK
<1>1. cont' \in [Conts -> Local] /\ UNCHANGED <<row, sent, ctl, userHolds>>
  BY EndType DEF requeueComputerRun
<1>2. CASE Holder(c)
  <2> DEFINE r == cont[c].run
             written == writeComputerRunRequeue(run[r], resume, held)
  <2>1. r \in Runs
    BY <1>2, HolderType
  <2>2. written \in Row
    BY <2>1, RequeueType
  <2>3. [written EXCEPT !.fails = run[r].fails + charged] \in Row
    BY <2>1, <2>2 DEF Row
  <2>4. run' = [run EXCEPT ![r] = [written EXCEPT !.fails = run[r].fails + charged]]
    BY <1>2 DEF requeueComputerRun
  <2>5. run' \in [Runs -> Row]
    BY <2>3, <2>4
  <2> QED
    BY <1>1, <1>2, <2>1, <2>5 DEF requeueComputerRun
<1>3. CASE ~Holder(c)
  BY <1>1, <1>3 DEF requeueComputerRun
<1> QED
  BY <1>2, <1>3

LEMMA ClaimSteeringType ==
  ASSUME TypeOK, NEW c \in Conts, cont[c].pc # "idle", claimSteering(c)
  PROVE  row' \in [Msgs -> Steering] /\ cont' \in [Conts -> Local]
<1> USE DEF TypeOK
<1>1. [cont[c] EXCEPT !.pc = "turn", !.got = cont[c].got \cup Claimable(c)] \in Local
  <2>1. cont[c].got \cup Claimable(c) \in SUBSET Msgs
    BY DEF Local, Slot, Claimable
  <2> QED
    BY <2>1 DEF Local, Slot, Phases
<1>2. [cont[c] EXCEPT !.pc = "turn"] \in Local
  BY DEF Local, Slot, Phases
<1>3. CASE Holder(c)
  <2>1. [state |-> "claimed", run |-> cont[c].run] \in Steering
    BY <1>3, HolderType DEF Steering
  <2>2. row' = [m \in Msgs |-> IF m \in Claimable(c) /\ row[m].state = "waiting"
                               THEN [state |-> "claimed", run |-> cont[c].run] ELSE row[m]]
    BY <1>3 DEF claimSteering
  <2>3. row' \in [Msgs -> Steering]
    BY <2>1, <2>2
  <2>4. cont' \in [Conts -> Local]
    BY <1>1, <1>3 DEF claimSteering
  <2> QED
    BY <2>3, <2>4
<1>4. CASE ~Holder(c)
  BY <1>2, <1>4 DEF claimSteering
<1> QED
  BY <1>3, <1>4

LEMMA WorkerType ==
  ASSUME TypeOK, Worker
  PROVE  TypeOK'
<1> USE DEF TypeOK
<1>1. ASSUME NEW c \in Conts, NEW r \in Runs, Deliver(c, r) PROVE TypeOK'
  <2>1. [Idle EXCEPT !.pc = "read", !.run = r, !.seen = run[r].status, !.seenCkpt = run[r].ckpt,
            !.fence = nextFence(run[r].fence),
            !.held = run[r].status = "waiting_takeover" /\ run[r].ckpt # "released",
            !.resume = run[r].ckpt = "released"] \in Local
    <3>1. run[r].status \in Statuses /\ run[r].ckpt \in Checkpoints /\ run[r].fence + 1 \in Nat
      BY DEF Row
    <3> QED
      BY <3>1, NoRunAssumption DEF Idle, Local, Slot, Phases, nextFence
  <2> QED
    BY <1>1, <2>1 DEF Deliver
<1>2. ASSUME NEW c \in Conts, Advance(c) PROVE TypeOK'
  <2>1. CASE Claim(c)
    <3>1. [cont[c] EXCEPT !.pc = "claimed", !.seen = "none", !.seenCkpt = "none"] \in Local
      BY <2>1 DEF Claim, Local, Slot, Phases, Statuses, Checkpoints
    <3>2. CASE claimable(c)
      <4>1. cont[c].fence \in Nat /\ cont[c].run \in Runs \cup {NoRun} /\ ProcOf[c] \in Procs
        BY ProcOfAssumption DEF Local, Slot
      <4>2. ASSUME NEW x \in Row
            PROVE  [x EXCEPT !.status = "leased", !.owner = ProcOf[c], !.fence = cont[c].fence,
                             !.live = TRUE, !.ckpt = "none"] \in Row
        BY <4>1 DEF Row, Statuses, ActiveStatuses, Checkpoints
      <4> DEFINE leased == [run[cont[c].run] EXCEPT
                   !.status = "leased", !.owner = ProcOf[c], !.fence = cont[c].fence,
                   !.live = TRUE, !.ckpt = "none"]
      <4>3. run' \in [Runs -> Row]
        <5>1. cont[c].run \in Runs
          BY <2>1 DEF Claim, Local, Slot
        <5>2. leased \in Row
          BY <4>2, <5>1
        <5>3. run' = [run EXCEPT ![cont[c].run] = leased]
          BY <2>1, <3>2 DEF Claim
        <5> QED
          BY <5>2, <5>3
      <4>4. cont' \in [Conts -> Local]
        BY <2>1, <3>1, <3>2 DEF Claim
      <4> QED
        BY <2>1, <4>3, <4>4 DEF Claim
    <3>3. CASE ~claimable(c)
      BY <2>1, <3>3, EndType DEF Claim
    <3> QED
      BY <3>2, <3>3
  <2>2. CASE Start(c)
    <3>1. [cont[c] EXCEPT !.pc = "started"] \in Local
      BY <2>2 DEF Start, Local, Slot, Phases
    <3>2. ASSUME NEW x \in Row PROVE [x EXCEPT !.status = "running"] \in Row
      BY DEF Row, Statuses, ActiveStatuses
    <3> QED
      BY <2>2, <3>1, <3>2, EndType DEF Start
  <2>3. CASE Acquire(c)
    <3>1. [cont[c] EXCEPT !.pc = "setup"] \in Local
      BY <2>3 DEF Acquire, Local, Slot, Phases
    <3> QED
      BY <2>3, <3>1 DEF Acquire
  <2>4. CASE Prepare(c)
    <3>1. ASSUME NEW held \in BOOLEAN, NEW resume \in BOOLEAN
          PROVE  [cont[c] EXCEPT !.pc = "prepared", !.held = held, !.resume = resume] \in Local
      BY <2>4 DEF Prepare, Local, Slot, Phases
    <3> QED
      BY <2>4, <3>1 DEF Prepare, Local, Slot
  <2>5. CASE BeginTurn(c)
    BY <2>5, ClaimSteeringType DEF BeginTurn
  <2>6. CASE Lost(c)
    BY <2>6, EndType DEF Lost
  <2>7. CASE HeldReleased(c)
    BY <2>7, RequeueRunType DEF HeldReleased, NoFault
  <2> QED
    BY <1>2, <2>1, <2>2, <2>3, <2>4, <2>5, <2>6, <2>7 DEF Advance
<1>3. ASSUME NEW c \in Conts, ClaimMore(c) PROVE TypeOK'
  BY <1>3, ClaimSteeringType DEF ClaimMore
<1>4. ASSUME NEW c \in Conts, Heartbeat(c) PROVE TypeOK'
  <2>1. ASSUME NEW x \in Row PROVE [x EXCEPT !.live = TRUE] \in Row
    BY DEF Row
  <2> QED
    BY <1>4, <2>1 DEF Heartbeat
<1>5. ASSUME NEW c \in Conts, EndTurn(c) PROVE TypeOK'
  <2>1. ASSUME NEW x \in Row, NEW status \in Waiting, NEW ckpt \in Checkpoints
        PROVE  [x EXCEPT !.status = status, !.owner = NoProc, !.live = FALSE, !.ckpt = ckpt] \in Row
    BY DEF Row, Statuses, ActiveStatuses, Waiting
  <2>2. CASE Ask(c)
    <3>1. cont[c].run \in Runs /\ run[cont[c].run] \in Row /\ run[cont[c].run].ckpt \in Checkpoints
      BY <2>2, HolderType DEF Ask, Row
    <3>2. run' \in [Runs -> Row]
      <4>1. PICK ckpt \in {run[cont[c].run].ckpt, "choices"} :
              run' = [run EXCEPT ![cont[c].run] = [run[cont[c].run] EXCEPT
                 !.status = "waiting_input", !.owner = NoProc, !.live = FALSE, !.ckpt = ckpt]]
        BY <2>2 DEF Ask
      <4>2. ckpt \in Checkpoints /\ "waiting_input" \in Waiting
        BY <3>1 DEF Checkpoints, Waiting
      <4>3. [run[cont[c].run] EXCEPT !.status = "waiting_input", !.owner = NoProc,
                                     !.live = FALSE, !.ckpt = ckpt] \in Row
        BY <2>1, <3>1, <4>2
      <4> QED
        BY <4>1, <4>3
    <3> QED
      BY <2>2, <3>2, EndType DEF Ask
  <2>3. CASE RequestTakeover(c)
    <3>1. cont[c].run \in Runs /\ run[cont[c].run] \in Row
      BY <2>3, HolderType DEF RequestTakeover
    <3> QED
      BY <2>1, <2>3, <3>1, EndType DEF RequestTakeover, Waiting, Checkpoints
  <2>4. ASSUME NEW n \in Runs \cup {NoRun}, NEW outcome \in {"completed", "failed"},
               Finish(c, outcome, n)
        PROVE  TypeOK'
    <3>1. run' \in [Runs -> Row] /\ row' \in [Msgs -> Steering]
      BY <2>4, FinalizeType DEF Finish
    <3>2. jobs' \subseteq Runs /\ faults' \in Nat
      BY <2>4, EnqueueType DEF Finish, NoFault
    <3> QED
      BY <2>4, <3>1, <3>2, EndType DEF Finish
  <2> QED
    BY <1>5, <2>2, <2>3, <2>4 DEF EndTurn
<1>6. ASSUME NEW c \in Conts, SetupFails(c) PROVE TypeOK'
  <2>1. cont[c].resume \in BOOLEAN /\ cont[c].held \in BOOLEAN
    BY DEF Local, Slot
  <2>2. ASSUME NEW n \in Runs \cup {NoRun}, SetupTerminal(c, n) PROVE TypeOK'
    BY <2>2, FinalizeType, EndType DEF SetupTerminal
  <2>3. CASE SetupRetry(c)
    <3> DEFINE r == cont[c].run
               back == computerRunRequeueData(run[r], cont[c].resume, FALSE)
    <3>1. r \in Runs
      BY <2>3, HolderType DEF SetupRetry
    <3>2. back \in Row
      BY <2>1, <3>1, RequeueType
    <3>3. run[r].fails + 1 \in Nat
      BY <3>1 DEF Row
    <3>4. [back EXCEPT !.fails = run[r].fails + 1] \in Row
      BY <3>2, <3>3 DEF Row
    <3> QED
      BY <2>3, <3>1, <3>4, EndType DEF SetupRetry
  <2>4. CASE SetupBusy(c)
    BY <2>1, <2>4, RequeueRunType DEF SetupBusy, Fault
  <2>5. CASE AcquireBusy(c)
    BY <2>1, <2>5, RequeueRunType DEF AcquireBusy, Fault
  <2> QED
    BY <1>6, <2>2, <2>3, <2>4, <2>5 DEF SetupFails
<1>7. ASSUME NEW c \in Conts, Abandon(c) PROVE TypeOK'
  <2>1. cont[c].run \in Runs
    BY <1>7 DEF Abandon, Local, Slot
  <2>2. jobs' \subseteq Runs
    BY <1>7, <2>1 DEF Abandon
  <2> QED
    BY <1>7, <2>2, EndType DEF Abandon, Fault
<1>8. ASSUME NEW p \in Procs, Crash(p) PROVE TypeOK'
  <2> DEFINE dead == {c \in Conts : ProcOf[c] = p /\ cont[c].pc # "idle"}
  <2>1. {cont[c].run : c \in dead} \subseteq Runs
    BY DEF Local, Slot
  <2>2. jobs' \subseteq Runs
    BY <1>8, <2>1 DEF Crash
  <2>3. cont' = [c \in Conts |-> IF c \in dead THEN Idle ELSE cont[c]]
    BY <1>8 DEF Crash
  <2>4. cont' \in [Conts -> Local]
    BY <2>3, IdleType
  <2> QED
    BY <1>8, <2>2, <2>4 DEF Crash, Fault
<1> QED
  BY <1>1, <1>2, <1>3, <1>4, <1>5, <1>6, <1>7, <1>8 DEF Worker

-----------------------------------------------------------------------------
\* The tables keep their types whatever the API, the sweeps and the workers do.
THEOREM TypeCorrect == Spec => []TypeOK
<1>1. Init => TypeOK
  BY InitType
<1>2. TypeOK /\ [Next]_vars => TypeOK'
  <2>1. CASE UNCHANGED vars
    BY <2>1 DEF TypeOK, vars
  <2> QED
    BY <2>1, UserType, SweepType, WorkerType DEF Next
<1> QED
  BY <1>1, <1>2, PTL DEF Spec

-----------------------------------------------------------------------------
(* How the status and the outcome of a run move.  A commit needs the run to *)
(* be running, and a row that is created was never used: both follow from   *)
(* CommitOnce itself, which is inductive together with the types.           *)

IInv == TypeOK /\ CommitOnce

Decided == {"completed", "failed"}

\* A run that has ended keeps its status and its outcome; another one commits
\* exactly when it becomes completed or failed.
Moves(r) ==
  /\ run[r].status \in TerminalStatuses =>
       run'[r].status = run[r].status /\ run'[r].commits = run[r].commits
  /\ run[r].status \notin TerminalStatuses =>
       \/ run'[r].commits = run[r].commits /\ run'[r].status \notin Decided
       \/ run'[r].commits = run[r].commits + 1 /\ run'[r].status \in Decided

LEMMA UnchangedMoves ==
  ASSUME TypeOK, NEW r \in Runs,
         run'[r].status = run[r].status, run'[r].commits = run[r].commits
  PROVE  Moves(r)
BY DEF Moves, Decided, TerminalStatuses

\* A row that only one field group of changes: from a status that has not ended
\* to one that is not an outcome.
LEMMA EditMoves ==
  ASSUME TypeOK, NEW q \in Runs, NEW x, run' = [run EXCEPT ![q] = x],
         x.commits = run[q].commits,
         \/ x.status = run[q].status
         \/ run[q].status \notin TerminalStatuses /\ x.status \notin Decided
  PROVE  \A r \in Runs : Moves(r)
<1> SUFFICES ASSUME NEW r \in Runs PROVE Moves(r)
  OBVIOUS
<1>1. CASE r = q
  BY <1>1 DEF Moves, TypeOK, Decided, TerminalStatuses
<1>2. CASE r # q
  <2>1. run'[r] = run[r]
    BY <1>2 DEF TypeOK
  <2> QED
    BY <2>1, UnchangedMoves
<1> QED
  BY <1>1, <1>2

\* A row without a run in it has no outcome.
LEMMA UnusedRow ==
  ASSUME IInv, NEW r \in Runs, run[r].status = "none"
  PROVE  run[r].commits = 0
<1>1. run[r].commits \in Nat
  BY DEF IInv, TypeOK, Row
<1>2. run[r].commits <= 1 /\ run[r].commits # 1
  BY DEF IInv, CommitOnce
<1> QED
  BY <1>1, <1>2

LEMMA CreateMoves ==
  ASSUME IInv, NEW q \in Runs, NEW trigger, NEW src, Create(q, trigger, src)
  PROVE  \A r \in Runs : Moves(r)
<1>1. run[q].status = "none" /\ run' = [run EXCEPT ![q] = NewRow(trigger, src)]
  BY DEF Create
<1>2. NewRow(trigger, src).commits = run[q].commits /\ NewRow(trigger, src).status \notin Decided
  BY <1>1, UnusedRow DEF NewRow, Decided
<1> QED
  BY <1>1, <1>2, EditMoves DEF IInv, TerminalStatuses

LEMMA RequeueMoves ==
  ASSUME NEW row0 \in Row, NEW resume \in BOOLEAN, NEW held \in BOOLEAN
  PROVE  /\ computerRunRequeueData(row0, resume, held).commits = row0.commits
         /\ computerRunRequeueData(row0, resume, held).status \notin Decided
         /\ writeComputerRunRequeue(row0, resume, held).commits = row0.commits
         /\ writeComputerRunRequeue(row0, resume, held).status \notin Decided
BY DEF computerRunRequeueData, writeComputerRunRequeue, Row, Decided

\* The continuation that the end of a run may create: the other rows are those
\* the transaction wrote.
LEMMA ContinuationRows ==
  ASSUME NEW rn \in [Runs -> Row], NEW rw, NEW n, createSteeringContinuation(rn, rw, n)
  PROVE  \A r \in Runs :
           \/ run'[r] = rn[r]
           \/ /\ rn[r].status = "none"
              /\ run'[r].status = "queued" /\ run'[r].commits = 0
<1>1. CASE NeedsContinuation(rn, rw)
  <2>1. PICK m \in Msgs : run' = [rn EXCEPT ![n] = NewRow("follow_up", m)]
    BY <1>1 DEF createSteeringContinuation
  <2>2. n \in Runs /\ rn[n].status = "none"
    BY <1>1 DEF createSteeringContinuation
  <2>3. NewRow("follow_up", m).status = "queued" /\ NewRow("follow_up", m).commits = 0
    BY DEF NewRow
  <2> QED
    BY <2>1, <2>2, <2>3
<1>2. CASE ~NeedsContinuation(rn, rw)
  BY <1>2 DEF createSteeringContinuation
<1> QED
  BY <1>1, <1>2

LEMMA FinalizeMoves ==
  ASSUME IInv, NEW c \in Conts, NEW outcome \in {"completed", "failed"}, NEW n,
         Holder(c), finalizeRun(c, outcome, n)
  PROVE  \A r \in Runs : Moves(r)
<1> DEFINE q  == cont[c].run
           ended == [run[q] EXCEPT !.status = outcome, !.owner = NoProc, !.live = FALSE,
                                   !.commits = run[q].commits + 1]
           rn == [run EXCEPT ![q] = ended]
           rw == [m \in Msgs |-> settled(q, outcome, m)]
<1>1. q \in Runs /\ run[q] \in Row /\ run[q].status = "running"
  BY HolderType DEF IInv, TypeOK, Holder
<1>2. ended \in Row
  BY <1>1, EndedType
<1>3. rn \in [Runs -> Row]
  BY <1>2 DEF IInv, TypeOK
<1>4. createSteeringContinuation(rn, rw, n)
  BY DEF finalizeRun
<1>5. ended.status = outcome /\ ended.commits = run[q].commits + 1
  BY <1>1 DEF Row
<1> SUFFICES ASSUME NEW r \in Runs PROVE Moves(r)
  OBVIOUS
<1>6. \/ run'[r] = rn[r]
      \/ rn[r].status = "none" /\ run'[r].status = "queued" /\ run'[r].commits = 0
  BY <1>3, <1>4, ContinuationRows
<1>7. CASE r = q
  <2>1. rn[r] = ended
    BY <1>1, <1>7 DEF IInv, TypeOK
  <2>2. run'[r] = ended
    BY <1>5, <1>6, <2>1
  <2> QED
    BY <1>1, <1>5, <1>7, <2>2 DEF Moves, TerminalStatuses, Decided
<1>8. CASE r # q
  <2>1. rn[r] = run[r]
    BY <1>1, <1>8 DEF IInv, TypeOK
  <2>2. CASE run'[r] = run[r]
    BY <2>2, UnchangedMoves DEF IInv
  <2>3. CASE run[r].status = "none" /\ run'[r].status = "queued" /\ run'[r].commits = 0
    BY <2>3, UnusedRow DEF Moves, TerminalStatuses, Decided
  <2> QED
    BY <1>6, <2>1, <2>2, <2>3
<1> QED
  BY <1>7, <1>8

LEMMA QueuedMoves ==
  ASSUME TypeOK, NEW q \in Runs, NEW ckpt, run' = Queued(q, ckpt),
         run[q].status \notin TerminalStatuses
  PROVE  \A r \in Runs : Moves(r)
<1> DEFINE x == [run[q] EXCEPT !.status = "queued", !.ckpt = ckpt]
<1>1. run' = [run EXCEPT ![q] = x]
  BY DEF Queued
<1>2. x.commits = run[q].commits /\ x.status \notin Decided
  BY DEF TypeOK, Row, Decided
<1> QED
  BY <1>1, <1>2, EditMoves

LEMMA UserMoves ==
  ASSUME IInv, User
  PROVE  \A r \in Runs : Moves(r)
<1>1. TypeOK
  BY DEF IInv
<1>2. ASSUME UNCHANGED run PROVE \A r \in Runs : Moves(r)
  BY <1>1, <1>2, UnchangedMoves
<1>3. ASSUME NEW q \in Runs, NEW t \in {"user", "follow_up"}, SendNew(q, t)
      PROVE  \A r \in Runs : Moves(r)
  BY <1>3, CreateMoves DEF SendNew
<1>4. ASSUME NEW q \in Runs, SendAnswer(q) \/ Answer(q) PROVE \A r \in Runs : Moves(r)
  <2>1. run[q].status \notin TerminalStatuses
    BY <1>4 DEF SendAnswer, Answer, TerminalStatuses
  <2>2. PICK ckpt : run' = Queued(q, ckpt)
    BY <1>4 DEF SendAnswer, Answer
  <2> QED
    BY <1>1, <2>1, <2>2, QueuedMoves
<1>5. ASSUME NEW q \in Runs, SendSteer(q) PROVE \A r \in Runs : Moves(r)
  <2>1. CASE run[q].status = "waiting_takeover" /\ ~userHolds
    BY <1>1, <1>5, <2>1, QueuedMoves DEF SendSteer, TerminalStatuses
  <2>2. CASE ~(run[q].status = "waiting_takeover" /\ ~userHolds)
    BY <1>2, <1>5, <2>2 DEF SendSteer
  <2> QED
    BY <2>1, <2>2
<1>6. ASSUME NEW q \in Runs, FollowUpSteer(q) PROVE \A r \in Runs : Moves(r)
  BY <1>2, <1>6 DEF FollowUpSteer
<1>7. ASSUME NEW q \in Runs, NEW t \in Wakes, NEW src \in 0..sent, Wake(q, t, src)
      PROVE  \A r \in Runs : Moves(r)
  BY <1>7, CreateMoves DEF Wake
<1>8. ASSUME Stop \/ Clear PROVE \A r \in Runs : Moves(r)
  <2> SUFFICES ASSUME NEW r \in Runs PROVE Moves(r)
    OBVIOUS
  <2>1. run[r] \in Row
    BY <1>1 DEF TypeOK
  <2>2. CASE Active(r)
    <3>1. run'[r].status = "cancelled" /\ run'[r].commits = run[r].commits
      BY <1>8, <2>1, <2>2 DEF Stop, Clear, Row
    <3>2. run[r].status \notin TerminalStatuses
      BY <2>2 DEF Active, ActiveStatuses, TerminalStatuses
    <3> QED
      BY <3>1, <3>2 DEF Moves, Decided
  <2>3. CASE ~Active(r)
    <3>1. run'[r].status = run[r].status /\ run'[r].commits = run[r].commits
      BY <1>8, <2>1, <2>3 DEF Stop, Clear, Row
    <3> QED
      BY <1>1, <3>1, UnchangedMoves
  <2> QED
    BY <2>2, <2>3
<1>9. ASSUME NEW q \in Runs \cup {NoRun}, TakeControl(q) PROVE \A r \in Runs : Moves(r)
  BY <1>2, <1>9 DEF TakeControl
<1>10. ASSUME ReleaseControl PROVE \A r \in Runs : Moves(r)
  <2>1. CASE run' = run
    BY <1>2, <2>1
  <2>2. CASE ctl \in Runs /\ run[ctl].status = "waiting_takeover" /\ run' = Queued(ctl, "released")
    BY <1>1, <2>2, QueuedMoves DEF TerminalStatuses
  <2>3. CASE ctl \in Runs /\ run' = [run EXCEPT ![ctl] = [@ EXCEPT !.ckpt = "released"]]
    <3> DEFINE x == [run[ctl] EXCEPT !.ckpt = "released"]
    <3>1. x.commits = run[ctl].commits /\ x.status = run[ctl].status
      BY <1>1, <2>3 DEF TypeOK, Row
    <3>2. run' = [run EXCEPT ![ctl] = x]
      BY <2>3
    <3> QED
      BY <1>1, <2>3, <3>1, <3>2, EditMoves
  <2>4. ctl = NoRun \/ ctl \in Runs
    BY <1>1 DEF TypeOK
  <2> QED
    BY <1>10, <2>1, <2>2, <2>3, <2>4 DEF ReleaseControl, Leasable
<1> QED
  BY <1>3, <1>4, <1>5, <1>6, <1>7, <1>8, <1>9, <1>10 DEF User

LEMMA SweepMoves ==
  ASSUME IInv, Sweep
  PROVE  \A r \in Runs : Moves(r)
<1>1. TypeOK
  BY DEF IInv
<1>2. ASSUME NEW q \in Runs, Expire(q) PROVE \A r \in Runs : Moves(r)
  <2> DEFINE x == [run[q] EXCEPT !.live = FALSE]
  <2>1. x.commits = run[q].commits /\ x.status = run[q].status
    BY <1>1 DEF TypeOK, Row
  <2>2. run' = [run EXCEPT ![q] = x]
    BY <1>2 DEF Expire
  <2> QED
    BY <1>1, <2>1, <2>2, EditMoves
<1>3. ASSUME NEW q \in Runs, Reconcile(q) PROVE \A r \in Runs : Moves(r)
  BY <1>1, <1>3, UnchangedMoves DEF Reconcile
<1>4. ASSUME NEW q \in Runs, ExpireStuck(q) PROVE \A r \in Runs : Moves(r)
  <2> DEFINE x == [run[q] EXCEPT !.status = "cancelled", !.owner = NoProc, !.live = FALSE]
             rn == [run EXCEPT ![q] = x]
             rw == [m \in Msgs |-> IF row[m].run = q THEN [state |-> "waiting", run |-> NoRun]
                                                     ELSE row[m]]
  <2>1. run[q] \in Row /\ run[q].status \notin TerminalStatuses
    BY <1>1, <1>4 DEF TypeOK, ExpireStuck, Waiting, TerminalStatuses
  <2>2. x \in Row /\ x.status = "cancelled" /\ x.commits = run[q].commits
    BY <2>1 DEF Row, Statuses, TerminalStatuses
  <2>3. rn \in [Runs -> Row]
    BY <1>1, <2>2 DEF TypeOK
  <2>4. PICK n \in Runs \cup {NoRun} : createSteeringContinuation(rn, rw, n)
    BY <1>4 DEF ExpireStuck
  <2> SUFFICES ASSUME NEW r \in Runs PROVE Moves(r)
    OBVIOUS
  <2>5. \/ run'[r] = rn[r]
        \/ rn[r].status = "none" /\ run'[r].status = "queued" /\ run'[r].commits = 0
    BY <2>3, <2>4, ContinuationRows
  <2>6. CASE r = q
    <3>1. rn[r] = x
      BY <1>1, <2>6 DEF TypeOK
    <3>2. run'[r] = x
      BY <2>2, <2>5, <3>1
    <3> QED
      BY <2>1, <2>2, <2>6, <3>2 DEF Moves, Decided
  <2>7. CASE r # q
    <3>1. rn[r] = run[r]
      BY <1>1, <2>7 DEF TypeOK
    <3>2. CASE run'[r] = run[r]
      BY <1>1, <3>2, UnchangedMoves
    <3>3. CASE run[r].status = "none" /\ run'[r].status = "queued" /\ run'[r].commits = 0
      BY <3>3, UnusedRow DEF Moves, TerminalStatuses, Decided
    <3> QED
      BY <2>5, <3>1, <3>2, <3>3
  <2> QED
    BY <2>6, <2>7
<1> QED
  BY <1>2, <1>3, <1>4 DEF Sweep

LEMMA RequeueRunMoves ==
  ASSUME IInv, NEW c \in Conts, NEW resume \in BOOLEAN, NEW held \in BOOLEAN, NEW charged,
         requeueComputerRun(c, resume, held, charged)
  PROVE  \A r \in Runs : Moves(r)
<1>1. TypeOK
  BY DEF IInv
<1>2. CASE Holder(c)
  <2> DEFINE q == cont[c].run
             written == writeComputerRunRequeue(run[q], resume, held)
             x == [written EXCEPT !.fails = run[q].fails + charged]
  <2>1. q \in Runs /\ run[q] \in Row /\ run[q].status = "running"
    BY <1>1, <1>2, HolderType DEF TypeOK, Holder
  <2>2. written \in Row /\ written.commits = run[q].commits /\ written.status \notin Decided
    BY <2>1, RequeueType, RequeueMoves
  <2>3. x.commits = run[q].commits /\ x.status \notin Decided
    BY <2>2 DEF Row
  <2>4. run' = [run EXCEPT ![q] = x]
    BY <1>2 DEF requeueComputerRun
  <2> QED
    BY <1>1, <2>1, <2>3, <2>4, EditMoves DEF TerminalStatuses
<1>3. CASE ~Holder(c)
  BY <1>1, <1>3, UnchangedMoves DEF requeueComputerRun
<1> QED
  BY <1>2, <1>3

LEMMA WorkerMoves ==
  ASSUME IInv, Worker
  PROVE  \A r \in Runs : Moves(r)
<1>1. TypeOK
  BY DEF IInv
<1>2. ASSUME UNCHANGED run PROVE \A r \in Runs : Moves(r)
  BY <1>1, <1>2, UnchangedMoves
<1>3. ASSUME NEW c \in Conts PROVE cont[c].resume \in BOOLEAN /\ cont[c].held \in BOOLEAN
  BY <1>1 DEF TypeOK, Local, Slot
<1>4. ASSUME NEW c \in Conts, Claim(c) PROVE \A r \in Runs : Moves(r)
  <2> DEFINE q == cont[c].run
             x == [run[q] EXCEPT !.status = "leased", !.owner = ProcOf[c],
                                 !.fence = cont[c].fence, !.live = TRUE, !.ckpt = "none"]
  <2>1. CASE claimable(c)
    <3>1. q \in Runs
      BY <1>1, <1>4 DEF Claim, TypeOK, Local, Slot
    <3>2. run[q] \in Row /\ run[q].status \notin TerminalStatuses
      BY <1>1, <2>1, <3>1 DEF TypeOK, claimable, Waiting, Leasable, TerminalStatuses
    <3>3. x.commits = run[q].commits /\ x.status \notin Decided
      BY <3>2 DEF Row, Decided
    <3>4. run' = [run EXCEPT ![q] = x]
      BY <1>4, <2>1 DEF Claim
    <3> QED
      BY <1>1, <3>1, <3>2, <3>3, <3>4, EditMoves
  <2>2. CASE ~claimable(c)
    BY <1>2, <1>4, <2>2 DEF Claim
  <2> QED
    BY <2>1, <2>2
<1>5. ASSUME NEW c \in Conts, Start(c) PROVE \A r \in Runs : Moves(r)
  <2> DEFINE q == cont[c].run
             x == [run[q] EXCEPT !.status = "running"]
  <2>1. q \in Runs
    BY <1>1, <1>5 DEF Start, TypeOK, Local, Slot
  <2>2. x.commits = run[q].commits /\ x.status \notin Decided
    BY <1>1, <2>1 DEF TypeOK, Row, Decided
  <2>3. CASE run' = run
    BY <1>2, <2>3
  <2>4. CASE run[q].status = "leased" /\ run' = [run EXCEPT ![q] = x]
    BY <1>1, <2>1, <2>2, <2>4, EditMoves DEF TerminalStatuses
  <2> QED
    BY <1>5, <2>3, <2>4 DEF Start
<1>6. ASSUME NEW c \in Conts, Advance(c) PROVE \A r \in Runs : Moves(r)
  <2>1. CASE Acquire(c) \/ Prepare(c) \/ BeginTurn(c) \/ Lost(c)
    BY <1>2, <2>1 DEF Acquire, Prepare, BeginTurn, Lost
  <2>2. CASE HeldReleased(c)
    BY <2>2, RequeueRunMoves DEF HeldReleased
  <2> QED
    BY <1>4, <1>5, <1>6, <2>1, <2>2 DEF Advance
<1>7. ASSUME NEW c \in Conts, Heartbeat(c) PROVE \A r \in Runs : Moves(r)
  <2> DEFINE q == cont[c].run
             x == [run[q] EXCEPT !.live = TRUE]
  <2>1. q \in Runs
    BY <1>1, <1>7, HolderType DEF Heartbeat
  <2>2. x.commits = run[q].commits /\ x.status = run[q].status
    BY <1>1, <2>1 DEF TypeOK, Row
  <2>3. run' = [run EXCEPT ![q] = x]
    BY <1>7 DEF Heartbeat
  <2> QED
    BY <1>1, <2>1, <2>2, <2>3, EditMoves
<1>8. ASSUME NEW c \in Conts, Ask(c) \/ RequestTakeover(c) PROVE \A r \in Runs : Moves(r)
  <2> DEFINE q == cont[c].run
             x(s, k) == [run[q] EXCEPT !.status = s, !.owner = NoProc, !.live = FALSE, !.ckpt = k]
  <2>1. q \in Runs /\ run[q] \in Row /\ run[q].status = "running"
    BY <1>1, <1>8, HolderType DEF Ask, RequestTakeover, Holder, TypeOK
  <2>2. PICK s \in Waiting : \E k : run' = [run EXCEPT ![q] = x(s, k)]
    BY <1>8 DEF Ask, RequestTakeover, Waiting
  <2>3. PICK k : run' = [run EXCEPT ![q] = x(s, k)]
    BY <2>2
  <2>4. x(s, k).commits = run[q].commits /\ x(s, k).status \notin Decided
    BY <2>1 DEF Row, Waiting, Decided
  <2> HIDE DEF x
  <2> QED
    BY <1>1, <2>1, <2>3, <2>4, EditMoves DEF TerminalStatuses
<1>9. ASSUME NEW c \in Conts, EndTurn(c) PROVE \A r \in Runs : Moves(r)
  <2>1. ASSUME NEW n \in Runs \cup {NoRun}, NEW outcome \in {"completed", "failed"},
               Finish(c, outcome, n)
        PROVE  \A r \in Runs : Moves(r)
    BY <2>1, FinalizeMoves DEF Finish
  <2> QED
    BY <1>8, <1>9, <2>1 DEF EndTurn
<1>10. ASSUME NEW c \in Conts, SetupFails(c) PROVE \A r \in Runs : Moves(r)
  <2>1. ASSUME NEW n \in Runs \cup {NoRun}, SetupTerminal(c, n) PROVE \A r \in Runs : Moves(r)
    BY <2>1, FinalizeMoves DEF SetupTerminal
  <2>2. CASE SetupRetry(c)
    <3> DEFINE q == cont[c].run
               back == computerRunRequeueData(run[q], cont[c].resume, FALSE)
               x == [back EXCEPT !.fails = run[q].fails + 1]
    <3>1. q \in Runs /\ run[q] \in Row /\ run[q].status = "running"
      BY <1>1, <2>2, HolderType DEF SetupRetry, Holder, TypeOK
    <3>2. back \in Row /\ back.commits = run[q].commits /\ back.status \notin Decided
      BY <1>3, <3>1, RequeueType, RequeueMoves
    <3>3. x.commits = run[q].commits /\ x.status \notin Decided
      BY <3>2 DEF Row
    <3>4. run' = [run EXCEPT ![q] = x]
      BY <2>2 DEF SetupRetry
    <3> QED
      BY <1>1, <3>1, <3>3, <3>4, EditMoves DEF TerminalStatuses
  <2>3. CASE SetupBusy(c)
    BY <1>3, <2>3, RequeueRunMoves DEF SetupBusy
  <2>4. CASE AcquireBusy(c)
    BY <1>3, <2>4, RequeueRunMoves DEF AcquireBusy
  <2> QED
    BY <1>10, <2>1, <2>2, <2>3, <2>4 DEF SetupFails
<1>11. ASSUME NEW c \in Conts, (\E r \in Runs : Deliver(c, r)) \/ ClaimMore(c) \/ Abandon(c)
       PROVE  \A r \in Runs : Moves(r)
  BY <1>2, <1>11 DEF Deliver, ClaimMore, Abandon
<1>12. ASSUME NEW p \in Procs, Crash(p) PROVE \A r \in Runs : Moves(r)
  BY <1>2, <1>12 DEF Crash
<1> QED
  BY <1>6, <1>7, <1>9, <1>10, <1>11, <1>12 DEF Worker

LEMMA StepMoves ==
  ASSUME IInv, [Next]_vars
  PROVE  \A r \in Runs : Moves(r)
<1>1. CASE UNCHANGED vars
  BY <1>1, UnchangedMoves DEF IInv, vars
<1> QED
  BY <1>1, UserMoves, SweepMoves, WorkerMoves DEF Next

-----------------------------------------------------------------------------
\* However many invocations work on a run, at most one of them commits its
\* outcome, and the run is completed or failed exactly then.
THEOREM CommitsOnce == Spec => []CommitOnce
<1>1. Init => IInv
  <2>1. ASSUME Init PROVE CommitOnce
    BY <2>1 DEF Init, CommitOnce, NoRow, NewRow
  <2> QED
    BY <2>1, InitType DEF IInv
<1>2. IInv /\ [Next]_vars => IInv'
  <2> SUFFICES ASSUME IInv, [Next]_vars PROVE IInv'
    OBVIOUS
  <2>1. TypeOK'
    <3>1. CASE UNCHANGED vars
      BY <3>1 DEF IInv, TypeOK, vars
    <3> QED
      BY <3>1, UserType, SweepType, WorkerType DEF IInv, Next
  <2>2. CommitOnce'
    <3> SUFFICES ASSUME NEW r \in Runs
                 PROVE  /\ run'[r].commits <= 1
                        /\ run'[r].commits = 1 <=> run'[r].status \in Decided
      BY DEF CommitOnce, Decided
    <3>1. Moves(r)
      BY StepMoves
    <3>2. run[r].commits \in Nat /\ run[r].commits <= 1
      BY DEF IInv, TypeOK, Row, CommitOnce
    <3>3. run[r].commits = 1 <=> run[r].status \in Decided
      BY DEF IInv, CommitOnce, Decided
    <3>4. CASE run[r].status \in TerminalStatuses
      BY <3>1, <3>2, <3>3, <3>4 DEF Moves
    <3>5. CASE run[r].status \notin TerminalStatuses
      <4>1. run[r].commits = 0
        BY <3>2, <3>3, <3>5 DEF TerminalStatuses, Decided
      <4> QED
        BY <3>1, <3>5, <4>1 DEF Moves
    <3> QED
      BY <3>4, <3>5
  <2> QED
    BY <2>1, <2>2 DEF IInv
<1>3. IInv => CommitOnce
  BY DEF IInv
<1> QED
  BY <1>1, <1>2, <1>3, PTL DEF Spec

\* A run that has ended never moves again: no late delivery, stalled claim,
\* retried job or release of the screen revives it.
THEOREM TerminalIsFinal == Spec => TerminalSticks
<1>1. Spec => []IInv
  BY TypeCorrect, CommitsOnce, PTL DEF IInv
<1>2. IInv /\ [Next]_vars
        => [\A r \in Runs : run[r].status \in TerminalStatuses => run'[r].status = run[r].status]_vars
  BY StepMoves DEF Moves
<1> QED
  BY <1>1, <1>2, PTL DEF Spec, TerminalSticks
=============================================================================
