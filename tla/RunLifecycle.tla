------------------------------ MODULE RunLifecycle ------------------------------
(***************************************************************************)
(* The life of the runs of one bot in one thread: how a run is created,    *)
(* delivered to a worker, claimed under a fenced lease, driven through a   *)
(* turn, paused for the user, requeued, finished, cancelled or expired,    *)
(* and what happens meanwhile to the messages the user keeps sending       *)
(* ("steering").  One row of the runs table is run[r]; one concurrent      *)
(* invocation of continueRun (executor.ts) is the slot cont[c].            *)
(*                                                                         *)
(* Every action that is one database transaction or one updateMany in the  *)
(* code is one step here; the steps of an invocation interleave freely     *)
(* with the API handlers, the sweeps and the other invocations.            *)
(***************************************************************************)
EXTENDS Naturals, FiniteSets

CONSTANTS
  Runs,        \* identities available to rows of the runs table
  NoRun,       \* "no run": the null of a run id column
  Conts,       \* concurrent invocations of continueRun
  Procs,       \* worker processes: the values of runs.leaseOwner
  NoProc,      \* the null of runs.leaseOwner
  ProcOf,      \* the process an invocation executes in
  NMsgs,       \* bound: messages the user sends (thread sequence 1..NMsgs)
  MaxFaults,   \* bound: lost enqueues, crashes, stalls, busy answers, expiries
  MaxFence,    \* bound: below this fence the user answers a run or takes a screen
  Wakes        \* the triggers that start a run without a user message

ASSUME NoRunAssumption == NoRun \notin Runs
ASSUME NoProcAssumption == NoProc \notin Procs
ASSUME ProcOfAssumption == ProcOf \in [Conts -> Procs]
ASSUME BoundsAssumption == NMsgs \in Nat /\ MaxFaults \in Nat /\ MaxFence \in Nat
ASSUME WakesAssumption == Wakes \subseteq {"reaction", "background"}

VARIABLES
  run,        \* the runs table
  cont,       \* the local state of each invocation
  row,        \* the steering_messages table, by message sequence
  sent,       \* messages sent so far: threads.nextMessageSeq
  jobs,       \* runs with a pending run.continue job
  ctl,        \* computers.controlRunId
  userHolds,  \* computers.controlHolder = "user"
  faults      \* disturbances so far, at most MaxFaults

vars == <<run, cont, row, sent, jobs, ctl, userHolds, faults>>

Msgs == 1..NMsgs

\* run-state.ts: ACTIVE_RUN_STATUSES, TERMINAL and their predicates.
ActiveStatuses == {"queued", "leased", "running", "waiting_input", "waiting_takeover"}
TerminalStatuses == {"completed", "failed", "cancelled"}
Waiting == {"waiting_input", "waiting_takeover"}
Leasable == {"leased", "running"}
Statuses == {"none"} \cup ActiveStatuses \cup TerminalStatuses

Active(r) == run[r].status \in ActiveStatuses

nextFence(current) == current + 1

\* runs.checkpoint as the code tells its values apart: a released takeover
\* ("takeover" or "takeover-skipped"), the offered choices of an ask, or null.
Checkpoints == {"none", "released", "choices"}
Triggers == {"user", "follow_up", "reaction", "background"}

\* src is the sequence number of the source message, 0 when there is none;
\* fails counts the attempts marked setup_failed, commits those marked
\* completed or failed; live says leaseExpiresAt lies in the future.
Row == [status: Statuses, fence: Nat, owner: Procs \cup {NoProc}, live: BOOLEAN,
        ckpt: Checkpoints, trigger: Triggers, src: Nat, fails: Nat, commits: Nat]

NewRow(trigger, src) ==
  [status |-> "queued", fence |-> 0, owner |-> NoProc, live |-> FALSE, ckpt |-> "none",
   trigger |-> trigger, src |-> src, fails |-> 0, commits |-> 0]

\* An identity no row has yet.
NoRow == [NewRow("user", 0) EXCEPT !.status = "none"]

Phases == {"idle", "read", "claimed", "started", "setup", "prepared", "turn"}

\* seen and seenCkpt are the snapshot continueRun starts from, forgotten once it
\* has claimed; held and resume its takeover plan; got the steering messages its
\* turn has been given.
Slot == [pc: Phases, run: Runs \cup {NoRun}, seen: Statuses, seenCkpt: Checkpoints,
         fence: Nat, held: BOOLEAN, resume: BOOLEAN, got: SUBSET Msgs]

Local == {x \in Slot : x.pc # "idle" => x.run # NoRun}

Idle == [pc |-> "idle", run |-> NoRun, seen |-> "none", seenCkpt |-> "none",
         fence |-> 0, held |-> FALSE, resume |-> FALSE, got |-> {}]

\* A steering row: absent, waiting to be claimed, or claimed (claimedAt set),
\* with the run it is attached to.
Steering == [state: {"absent", "waiting", "claimed"}, run: Runs \cup {NoRun}]
NoSteering == [state |-> "absent", run |-> NoRun]

TypeOK ==
  /\ run \in [Runs -> Row]
  /\ cont \in [Conts -> Local]
  /\ row \in [Msgs -> Steering]
  /\ sent \in 0..NMsgs
  /\ jobs \subseteq Runs
  /\ ctl \in Runs \cup {NoRun}
  /\ userHolds \in BOOLEAN
  /\ faults \in Nat

Init ==
  /\ run = [r \in Runs |-> NoRow]
  /\ cont = [c \in Conts |-> Idle]
  /\ row = [m \in Msgs |-> NoSteering]
  /\ sent = 0
  /\ jobs = {}
  /\ ctl = NoRun
  /\ userHolds = FALSE
  /\ faults = 0

-----------------------------------------------------------------------------
(* Shared vocabulary. *)

\* Definitions named *Mutant* are not the code: each is the next definition with
\* a plausible mistake in it, and a property of PROJECT.json that TLC must then
\* find violated.

\* The lease clause without its status.
HolderMutantAnyStatus(c) ==
  /\ cont[c].run # NoRun
  /\ run[cont[c].run].owner = ProcOf[c]
  /\ run[cont[c].run].fence = cont[c].fence

\* The lease clause every write of an invocation carries: the run is still
\* running, for this owner, under this fence.
Holder(c) ==
  /\ cont[c].run # NoRun
  /\ run[cont[c].run].status = "running"
  /\ run[cont[c].run].owner = ProcOf[c]
  /\ run[cont[c].run].fence = cont[c].fence

\* An invocation is still working under the lease of r, renewing it or about to.
Attended(r) ==
  \E c \in Conts :
    /\ cont[c].pc \in {"claimed", "started", "setup", "prepared", "turn"}
    /\ cont[c].run = r
    /\ run[r].owner = ProcOf[c] /\ run[r].fence = cont[c].fence

Fault == faults < MaxFaults /\ faults' = faults + 1
NoFault == faults' = faults

\* jobs.enqueue(runContinueJob(r)): one pending job per run; a failure to
\* enqueue is only logged, the reconciler repairs it.
Enqueue(r) ==
  \/ jobs' = jobs \cup {r} /\ NoFault
  \/ r \notin jobs /\ jobs' = jobs /\ Fault

End(c) == cont' = [cont EXCEPT ![c] = Idle]

IsNewest(m, S) == m \in S /\ \A n \in S : n <= m

\* createSteeringContinuation over the runs rn and steering rows rw that the
\* transaction has written so far.  When no active run is left, the rows nobody
\* owns become the batch of a new follow_up run n, whose source is the newest
\* of them; otherwise n is null.
Unassigned(rw) == {m \in Msgs : rw[m].state # "absent" /\ rw[m].run = NoRun}

\* The active runs counted from before the transaction's own update.
NeedsContinuationMutantStale(rn, rw) ==
  Unassigned(rw) # {} /\ \A r \in Runs : run[r].status \notin ActiveStatuses

\* The active runs not counted at all.
NeedsContinuationMutantAlways(rn, rw) == Unassigned(rw) # {}

NeedsContinuation(rn, rw) ==
  Unassigned(rw) # {} /\ \A r \in Runs : rn[r].status \notin ActiveStatuses

createSteeringContinuation(rn, rw, n) ==
  IF NeedsContinuation(rn, rw)
  THEN /\ n \in Runs /\ rn[n].status = "none"
       /\ \E m \in Msgs : /\ IsNewest(m, Unassigned(rw))
                         /\ run' = [rn EXCEPT ![n] = NewRow("follow_up", m)]
       /\ row' = [m \in Msgs |-> IF m \in Unassigned(rw)
                                 THEN [state |-> "waiting", run |-> n] ELSE rw[m]]
  ELSE n = NoRun /\ run' = rn /\ row' = rw

-----------------------------------------------------------------------------
(* The API: messages, answers, reactions, stop and clear. *)

\* A run nobody holds goes back to the queue to be continued.
Queued(r, ckpt) == [run EXCEPT ![r] = [@ EXCEPT !.status = "queued", !.ckpt = ckpt]]

Create(r, trigger, src) ==
  /\ run[r].status = "none"
  /\ run' = [run EXCEPT ![r] = NewRow(trigger, src)]
  /\ Enqueue(r)

\* sendThreadMessage with no active run: the message is the source of a new run.
\* sendUserMessage, behind threads.followUp, creates a follow_up run instead.
SendNew(r, trigger) ==
  /\ sent < NMsgs
  /\ sent' = sent + 1
  /\ \A q \in Runs : ~Active(q)
  /\ Create(r, trigger, sent')
  /\ UNCHANGED <<cont, row, ctl, userHolds>>

\* sendThreadMessage to a run waiting on a question: the text is its answer. A
\* reply that names an offered choice also clears the checkpoint. (An approval
\* or secret card refuses the send, and nothing is written.)
SendAnswer(r) ==
  /\ sent < NMsgs
  /\ sent' = sent + 1
  /\ run[r].status = "waiting_input"
  /\ \E ckpt \in {run[r].ckpt, "none"} : run' = Queued(r, ckpt)
  /\ Enqueue(r)
  /\ UNCHANGED <<cont, row, ctl, userHolds>>

\* sendThreadMessage to any other active run, and to a waiting_input run when
\* the message carries no text: a steering row. A parked takeover is resumed as
\* skipped unless the user holds the screen. RUNS_NEEDING_CONTINUE are enqueued.
SendSteer(r) ==
  /\ sent < NMsgs
  /\ sent' = sent + 1
  /\ Active(r)
  /\ row' = [row EXCEPT ![sent'] = [state |-> "waiting", run |-> r]]
  /\ IF run[r].status = "waiting_takeover" /\ ~userHolds
     THEN run' = Queued(r, "released")
     ELSE UNCHANGED run
  /\ IF run[r].status \in {"queued", "waiting_takeover"}
     THEN Enqueue(r)
     ELSE UNCHANGED jobs /\ NoFault
  /\ UNCHANGED <<cont, ctl, userHolds>>

\* sendUserMessage with an active run: a steering row and nothing else.
FollowUpSteer(r) ==
  /\ sent < NMsgs
  /\ sent' = sent + 1
  /\ Active(r)
  /\ row' = [row EXCEPT ![sent'] = [state |-> "waiting", run |-> r]]
  /\ UNCHANGED <<run, cont, jobs, ctl, userHolds, faults>>

\* answerRunInput and resolveBrowserLogin: the card resolves the question.
Answer(r) ==
  /\ run[r].status = "waiting_input" /\ run[r].fence < MaxFence
  /\ \E ckpt \in {run[r].ckpt, "none"} : run' = Queued(r, ckpt)
  /\ Enqueue(r)
  /\ UNCHANGED <<cont, row, sent, ctl, userHolds>>

\* reactToThreadMessage starts a run beside one that waits for the user; the
\* routine, peer-bot and cloud-agent wakes start theirs beside anything.
Wake(r, trigger, src) ==
  /\ trigger = "reaction" =>
       \A q \in Runs : run[q].status \notin {"running", "queued", "leased"}
  /\ trigger = "background" => src = 0
  /\ src <= sent
  /\ Create(r, trigger, src)
  /\ UNCHANGED <<cont, row, sent, ctl, userHolds>>

\* stopThreadRuns: the active runs are cancelled, keeping their lease owner,
\* and every steering row of the bot is deleted.
Stop ==
  /\ \E r \in Runs : Active(r)
  /\ run' = [r \in Runs |-> IF Active(r) THEN [run[r] EXCEPT !.status = "cancelled"] ELSE run[r]]
  /\ row' = [m \in Msgs |-> NoSteering]
  /\ UNCHANGED <<cont, sent, jobs, ctl, userHolds, faults>>

\* clearThread: the active runs are cancelled and the messages deleted, which
\* cascades to the steering rows and unsets the source of every run.
Clear ==
  /\ \E r \in Runs : run[r].status # "none"
  /\ run' = [r \in Runs |->
       IF Active(r)
       THEN [run[r] EXCEPT !.status = "cancelled", !.owner = NoProc, !.live = FALSE, !.src = 0]
       ELSE [run[r] EXCEPT !.src = 0]]
  /\ row' = [m \in Msgs |-> NoSteering]
  /\ UNCHANGED <<cont, sent, jobs, ctl, userHolds, faults>>

\* computer.takeover: the user takes the screen of a run that asked for it, or
\* of an idle bot.
TakeControl(r) ==
  /\ ~userHolds
  /\ \/ /\ r \in Runs /\ run[r].status = "waiting_takeover"
        /\ run[r].fence < MaxFence
     \/ r = NoRun /\ MaxFence > 0 /\ \A q \in Runs : ~Active(q)
  /\ userHolds' = TRUE
  /\ ctl' = r
  /\ UNCHANGED <<run, cont, row, sent, jobs, faults>>

\* computer.release and the expiry of the control lease, both through
\* finalizeComputerControlRelease: a parked run is queued with the checkpoint,
\* a run continued while held is stamped with it.
ReleaseControl ==
  /\ userHolds
  /\ userHolds' = FALSE
  /\ ctl' = NoRun
  /\ LET bound == IF ctl = NoRun THEN "none" ELSE run[ctl].status IN
     \/ /\ bound = "waiting_takeover"
        /\ run' = Queued(ctl, "released")
        /\ Enqueue(ctl)
     \/ /\ bound \in Leasable
        /\ run' = [run EXCEPT ![ctl] = [@ EXCEPT !.ckpt = "released"]]
        /\ Enqueue(ctl)
     \/ /\ bound \notin Leasable \cup {"waiting_takeover"}
        /\ UNCHANGED <<run, jobs>> /\ NoFault
  /\ UNCHANGED <<cont, row, sent>>

-----------------------------------------------------------------------------
(* The sweeps: time, the reconciler and stuck-work expiry. *)

\* The run lease lapses. Lapsing under an invocation that still works is a
\* fault: its heartbeat renews every minute of a five-minute lease.
Expire(r) ==
  /\ run[r].status \in Leasable /\ run[r].live
  /\ run' = [run EXCEPT ![r] = [@ EXCEPT !.live = FALSE]]
  /\ IF Attended(r) THEN Fault ELSE NoFault
  /\ UNCHANGED <<cont, row, sent, jobs, ctl, userHolds>>

\* The sweep forgets the lapsed leases.
ReconcileMutantQueuedOnly(r) ==
  /\ run[r].status = "queued"
  /\ r \notin jobs
  /\ jobs' = jobs \cup {r}
  /\ UNCHANGED <<run, cont, row, sent, ctl, userHolds, faults>>

\* reconcileOnce re-enqueues queued runs and runs whose lease has lapsed.
Reconcile(r) ==
  /\ run[r].status = "queued" \/ (run[r].status \in Leasable /\ ~run[r].live)
  /\ r \notin jobs
  /\ jobs' = jobs \cup {r}
  /\ UNCHANGED <<run, cont, row, sent, ctl, userHolds, faults>>

\* expireStuckRun, a day after the run last moved: it is cancelled, its steering
\* is freed and continued. The row's updatedAt fences the sweep's snapshot, so
\* the sweep and its transaction are one step.
ExpireStuck(r) ==
  /\ run[r].status \in {"queued"} \cup Waiting
  /\ Fault
  /\ LET rn == [run EXCEPT ![r] = [@ EXCEPT !.status = "cancelled", !.owner = NoProc, !.live = FALSE]]
         rw == [m \in Msgs |-> IF row[m].run = r THEN [state |-> "waiting", run |-> NoRun]
                                                 ELSE row[m]]
     IN  \E n \in Runs \cup {NoRun} :
           /\ createSteeringContinuation(rn, rw, n)
           /\ jobs' = jobs \cup ({n} \ {NoRun})
  /\ ctl' = IF ctl = r /\ ~userHolds THEN NoRun ELSE ctl
  /\ UNCHANGED <<cont, sent, userHolds>>

-----------------------------------------------------------------------------
(* One invocation of continueRun, step by step. *)

\* The job starts: the run is read and its takeover plan drawn up from the
\* snapshot. A terminal run is left alone.
Deliver(c, r) ==
  /\ cont[c].pc = "idle"
  /\ r \in jobs
  /\ jobs' = jobs \ {r}
  /\ IF run[r].status \in TerminalStatuses
     THEN UNCHANGED cont
     ELSE cont' = [cont EXCEPT ![c] = [Idle EXCEPT
            !.pc = "read", !.run = r, !.seen = run[r].status, !.seenCkpt = run[r].ckpt,
            !.fence = nextFence(run[r].fence),
            !.held = run[r].status = "waiting_takeover" /\ run[r].ckpt # "released",
            !.resume = run[r].ckpt = "released"]]
  /\ UNCHANGED <<run, row, sent, ctl, userHolds, faults>>

\* The claim trusts the checkpoint alone.
claimableMutantAnyStatus(c) == run[cont[c].run].ckpt = cont[c].seenCkpt

\* continueRunClaimFence: the claim compares the status and checkpoint of the
\* snapshot, and asks that a leased or running row has lapsed.
claimable(c) ==
  LET r == cont[c].run IN
  /\ run[r].status = cont[c].seen
  /\ run[r].ckpt = cont[c].seenCkpt
  /\ run[r].status \in {"queued"} \cup Waiting \/ (run[r].status \in Leasable /\ ~run[r].live)

Claim(c) ==
  /\ cont[c].pc = "read"
  /\ IF claimable(c)
     THEN /\ cont' = [cont EXCEPT ![c] = [@ EXCEPT
               !.pc = "claimed", !.seen = "none", !.seenCkpt = "none"]]
          /\ run' = [run EXCEPT ![cont[c].run] = [@ EXCEPT
               !.status = "leased", !.owner = ProcOf[c], !.fence = cont[c].fence,
               !.live = TRUE, !.ckpt = "none"]]
     ELSE End(c) /\ UNCHANGED run
  /\ UNCHANGED <<row, sent, jobs, ctl, userHolds, faults>>

\* leased -> running, if the lease is still this invocation's.
Start(c) ==
  /\ cont[c].pc = "claimed"
  /\ LET r == cont[c].run IN
     IF run[r].status = "leased" /\ run[r].owner = ProcOf[c] /\ run[r].fence = cont[c].fence
     THEN /\ run' = [run EXCEPT ![r] = [@ EXCEPT !.status = "running"]]
          /\ cont' = [cont EXCEPT ![c] = [@ EXCEPT !.pc = "started"]]
     ELSE End(c) /\ UNCHANGED run
  /\ UNCHANGED <<row, sent, jobs, ctl, userHolds, faults>>

\* computerRunRequeueData: back to the queue, or to the takeover it was held for.
computerRunRequeueData(row0, resume, held) ==
  [row0 EXCEPT !.status = IF held /\ ~resume THEN "waiting_takeover" ELSE "queued",
               !.owner = NoProc, !.live = FALSE,
               !.ckpt = IF resume THEN "released" ELSE "none"]

\* The plan wins over a checkpoint stamped meanwhile.
writeComputerRunRequeueMutantPlan(row0, resume, held) ==
  computerRunRequeueData(row0, resume, held)

\* writeComputerRunRequeue: a checkpoint stamped meanwhile wins over the plan.
writeComputerRunRequeue(row0, resume, held) ==
  IF row0.ckpt = "released"
  THEN [row0 EXCEPT !.status = "queued", !.owner = NoProc, !.live = FALSE]
  ELSE computerRunRequeueData(row0, resume, held)

\* requeueComputerRun, after which the invocation returns.
requeueComputerRun(c, resume, held, charged) ==
  /\ End(c)
  /\ IF Holder(c)
     THEN /\ run' = [run EXCEPT ![cont[c].run] = [writeComputerRunRequeue(@, resume, held) EXCEPT
                       !.fails = run[cont[c].run].fails + charged]]
          /\ jobs' = jobs \cup {cont[c].run}
     ELSE UNCHANGED <<run, jobs>>
  /\ UNCHANGED <<row, sent, ctl, userHolds>>

\* The computer's execution lease is taken and the attempt row created.
Acquire(c) ==
  /\ cont[c].pc = "started"
  /\ cont' = [cont EXCEPT ![c] = [@ EXCEPT !.pc = "setup"]]
  /\ UNCHANGED <<run, row, sent, jobs, ctl, userHolds, faults>>

\* The computer is switching, or leased to another run.
AcquireBusy(c) ==
  /\ cont[c].pc = "started"
  /\ Fault
  /\ requeueComputerRun(c, cont[c].resume, cont[c].held, 0)

\* Setup has loaded its records; a run continued while the user holds the screen
\* looks once more whether the hold was released.
Prepare(c) ==
  /\ cont[c].pc = "setup"
  /\ LET released == cont[c].held /\ run[cont[c].run].ckpt = "released" IN
     cont' = [cont EXCEPT ![c] = [@ EXCEPT !.pc = "prepared",
                                           !.held = cont[c].held /\ ~released,
                                           !.resume = cont[c].resume \/ released]]
  /\ UNCHANGED <<run, row, sent, jobs, ctl, userHolds, faults>>

\* claimSteering: every row without a run or with this one that the turn has not
\* seen is given to the turn; those not claimed yet are claimed for this run.
Claimable(c) == {m \in Msgs : /\ row[m].state # "absent"
                              /\ row[m].run \in {NoRun, cont[c].run}
                              /\ m \notin cont[c].got}

claimSteering(c) ==
  IF Holder(c)
  THEN /\ row' = [m \in Msgs |-> IF m \in Claimable(c) /\ row[m].state = "waiting"
                                 THEN [state |-> "claimed", run |-> cont[c].run] ELSE row[m]]
       /\ cont' = [cont EXCEPT ![c] = [@ EXCEPT !.pc = "turn", !.got = cont[c].got \cup Claimable(c)]]
  ELSE UNCHANGED row /\ cont' = [cont EXCEPT ![c] = [@ EXCEPT !.pc = "turn"]]

\* The runtime starts with a first claim of steering. A hold released since
\* Prepare sends the run back to the queue instead, to get its tools back.
BeginTurn(c) ==
  /\ cont[c].pc = "prepared"
  /\ ~(cont[c].held /\ run[cont[c].run].ckpt = "released")
  /\ claimSteering(c)
  /\ UNCHANGED <<run, sent, jobs, ctl, userHolds, faults>>

\* A hold released before or during the turn: the run is requeued to resume.
HeldReleased(c) ==
  /\ cont[c].pc \in {"prepared", "turn"}
  /\ cont[c].held /\ run[cont[c].run].ckpt = "released"
  /\ requeueComputerRun(c, TRUE, FALSE, 0)
  /\ NoFault

\* The runtime claims again at every turn boundary.
ClaimMore(c) ==
  /\ cont[c].pc = "turn"
  /\ Holder(c) /\ Claimable(c) # {}
  /\ claimSteering(c)
  /\ UNCHANGED <<run, sent, jobs, ctl, userHolds, faults>>

Heartbeat(c) ==
  /\ cont[c].pc \in {"setup", "prepared", "turn"}
  /\ Holder(c) /\ ~run[cont[c].run].live
  /\ run' = [run EXCEPT ![cont[c].run] = [@ EXCEPT !.live = TRUE]]
  /\ UNCHANGED <<cont, row, sent, jobs, ctl, userHolds, faults>>

\* The run is another's, or cancelled: the heartbeat or the poll ends the work.
Lost(c) ==
  /\ cont[c].pc \in {"setup", "prepared", "turn"}
  /\ ~Holder(c)
  /\ End(c)
  /\ UNCHANGED <<run, row, sent, jobs, ctl, userHolds, faults>>

-----------------------------------------------------------------------------
(* How an invocation ends: pause, finish, setup failure, crash. *)

\* pauseRunForInput: the run waits for an answer; offered choices are kept in
\* the checkpoint.
Ask(c) ==
  /\ cont[c].pc = "turn" /\ Holder(c)
  /\ \E ckpt \in {run[cont[c].run].ckpt, "choices"} :
       run' = [run EXCEPT ![cont[c].run] = [@ EXCEPT
                 !.status = "waiting_input", !.owner = NoProc, !.live = FALSE, !.ckpt = ckpt]]
  /\ End(c)
  /\ UNCHANGED <<row, sent, jobs, ctl, userHolds, faults>>

\* pauseRunForTakeover: the run waits for the user at the screen and is bound to
\* the computer's control, which the user may hold already.
RequestTakeover(c) ==
  /\ cont[c].pc = "turn" /\ Holder(c)
  /\ run' = [run EXCEPT ![cont[c].run] = [@ EXCEPT
               !.status = "waiting_takeover", !.owner = NoProc, !.live = FALSE, !.ckpt = "none"]]
  /\ ctl' = cont[c].run
  /\ End(c)
  /\ UNCHANGED <<row, sent, jobs, userHolds, faults>>

\* A completed run deletes every row attached to it, or frees none.
settledMutantDeleteAll(r, outcome, m) ==
  IF row[m].state # "absent" /\ row[m].run = r THEN NoSteering ELSE row[m]
settledMutantKeep(r, outcome, m) ==
  IF row[m].state = "claimed" /\ row[m].run = r THEN NoSteering ELSE row[m]

\* What finalizeRunOnce leaves of the steering rows. A completed run deletes
\* what was claimed for it and frees the rest, a completed follow_up run deletes
\* both; a failed run frees what is newer than its source.
settled(r, outcome, m) ==
  LET mine == row[m].state # "absent" /\ row[m].run = r IN
  IF outcome = "completed"
  THEN IF mine /\ (run[r].trigger = "follow_up" \/ row[m].state = "claimed")
       THEN NoSteering
       ELSE IF mine THEN [row[m] EXCEPT !.run = NoRun] ELSE row[m]
  ELSE IF mine /\ m > run[r].src THEN [row[m] EXCEPT !.run = NoRun] ELSE row[m]

\* finalizeRun, creating the continuation n if one is due.
finalizeRun(c, outcome, n) ==
  LET r  == cont[c].run
      rn == [run EXCEPT ![r] = [@ EXCEPT !.status = outcome, !.owner = NoProc, !.live = FALSE,
                                         !.commits = run[r].commits + 1]]
      rw == [m \in Msgs |-> settled(r, outcome, m)]
  IN  createSteeringContinuation(rn, rw, n)

Finish(c, outcome, n) ==
  /\ cont[c].pc = "turn" /\ Holder(c)
  /\ finalizeRun(c, outcome, n)
  /\ IF n = NoRun THEN UNCHANGED jobs /\ NoFault ELSE Enqueue(n)
  /\ End(c)
  /\ UNCHANGED <<sent, ctl, userHolds>>

\* A setup error that is not retried: terminal by its kind, or the third of its
\* run. Here the continuation is not enqueued.
SetupTerminal(c, n) ==
  /\ cont[c].pc \in {"setup", "prepared"} /\ Holder(c)
  /\ finalizeRun(c, "failed", n)
  /\ End(c)
  /\ UNCHANGED <<sent, jobs, ctl, userHolds, faults>>

\* classifyRunSetupError: a transient error is retried after fewer than two
\* failed attempts. The retry writes the plan's checkpoint over the row's.
MaxTransientSetupAttempts == 3

SetupRetry(c) ==
  /\ cont[c].pc \in {"setup", "prepared"} /\ Holder(c)
  /\ run[cont[c].run].fails < MaxTransientSetupAttempts - 1
  /\ run' = [run EXCEPT ![cont[c].run] =
               [computerRunRequeueData(@, cont[c].resume, FALSE) EXCEPT
                  !.fails = run[cont[c].run].fails + 1]]
  /\ jobs' = jobs \cup {cont[c].run}
  /\ End(c)
  /\ UNCHANGED <<row, sent, ctl, userHolds, faults>>

\* The computer or the database is busy during setup: requeued like a busy
\* computer, with the attempt marked setup_failed.
SetupBusy(c) ==
  /\ cont[c].pc \in {"setup", "prepared"}
  /\ Fault
  /\ requeueComputerRun(c, cont[c].resume, cont[c].held, 1)

\* The invocation throws where nothing handles the run row: it stays as it is
\* until its lease lapses. The job may be retried.
Abandon(c) ==
  /\ cont[c].pc # "idle"
  /\ Fault
  /\ End(c)
  /\ jobs' \in {jobs, jobs \cup {cont[c].run}}
  /\ UNCHANGED <<run, row, sent, ctl, userHolds>>

\* The worker process dies with every invocation it was executing; the jobs they
\* had locked may come back.
Crash(p) ==
  LET dead == {c \in Conts : ProcOf[c] = p /\ cont[c].pc # "idle"} IN
  /\ dead # {}
  /\ Fault
  /\ cont' = [c \in Conts |-> IF c \in dead THEN Idle ELSE cont[c]]
  /\ \E back \in SUBSET {cont[c].run : c \in dead} : jobs' = jobs \cup back
  /\ UNCHANGED <<run, row, sent, ctl, userHolds>>

-----------------------------------------------------------------------------
User ==
  \/ \E r \in Runs, t \in {"user", "follow_up"} : SendNew(r, t)
  \/ \E r \in Runs : SendAnswer(r) \/ SendSteer(r) \/ FollowUpSteer(r) \/ Answer(r)
  \/ \E r \in Runs, t \in Wakes, src \in 0..sent : Wake(r, t, src)
  \/ Stop \/ Clear
  \/ \E r \in Runs \cup {NoRun} : TakeControl(r)
  \/ ReleaseControl

Sweep == \E r \in Runs : Expire(r) \/ Reconcile(r) \/ ExpireStuck(r)

\* The steps the worker takes by itself, to the end of the invocation.
Advance(c) ==
  \/ Claim(c) \/ Start(c) \/ Acquire(c) \/ Prepare(c) \/ BeginTurn(c) \/ Lost(c)
  \/ HeldReleased(c)

\* The ways a turn in progress comes to an end.
EndTurn(c) ==
  \/ Ask(c) \/ RequestTakeover(c)
  \/ \E n \in Runs \cup {NoRun} : Finish(c, "completed", n) \/ Finish(c, "failed", n)

SetupFails(c) ==
  \/ \E n \in Runs \cup {NoRun} : SetupTerminal(c, n)
  \/ SetupRetry(c) \/ SetupBusy(c) \/ AcquireBusy(c)

Worker ==
  \/ \E c \in Conts : \/ \E r \in Runs : Deliver(c, r)
                      \/ Advance(c) \/ ClaimMore(c) \/ Heartbeat(c)
                      \/ EndTurn(c) \/ SetupFails(c) \/ Abandon(c)
  \/ \E p \in Procs : Crash(p)

Next == User \/ Sweep \/ Worker

Spec == Init /\ [][Next]_vars

\* The runtime ends its turns, the worker its invocations, graphile-worker
\* delivers pending jobs, the reconciler sweeps and leases lapse.
Fairness ==
  /\ \A c \in Conts : /\ WF_vars(Advance(c)) /\ WF_vars(EndTurn(c))
                      /\ WF_vars(Heartbeat(c))
  /\ \A r \in Runs : /\ WF_vars(\E c \in Conts : Deliver(c, r))
                     /\ WF_vars(Reconcile(r))
                     /\ WF_vars(~Attended(r) /\ Expire(r))

LiveSpec == Spec /\ Fairness

-----------------------------------------------------------------------------
(* Safety. *)

\* A run commits at most one outcome, and is completed or failed exactly when
\* one of its attempts is: however many invocations, retries and reclaims work
\* on it, finalizeRun (events.ts) lets one of them through.
CommitOnce ==
  \A r \in Runs :
    /\ run[r].commits <= 1
    /\ run[r].commits = 1 <=> run[r].status \in {"completed", "failed"}

\* A run that completed, failed or was cancelled never moves again, whatever a
\* late delivery, a stalled claim or a release of the screen still does to it.
TerminalSticks ==
  [][\A r \in Runs : run[r].status \in TerminalStatuses => run'[r].status = run[r].status]_vars

\* A run parked for the screen can be resumed by releasing the screen: the
\* computer's control is bound to it. A release that races the requeue of a run
\* continued while held is never lost (writeComputerRunRequeue, executor.ts).
\* Stated for one run at a time: the execution lease, not modelled here, keeps a
\* second run of the bot from its turn while the first waits.
NoOrphanTakeover ==
  \A r \in Runs : run[r].status = "waiting_takeover" => ctl = r

\* No steering row is stranded: a row without a run has an active run that will
\* claim or continue it, and an attached row belongs to an active run, or to one
\* that failed when the message was part of what it failed on.
SteeringHasOwner ==
  \A m \in Msgs : row[m].state # "absent" =>
    \/ row[m].run = NoRun /\ \E r \in Runs : Active(r)
    \/ /\ row[m].run # NoRun
       /\ \/ Active(row[m].run)
          \/ run[row[m].run].status = "failed" /\ m <= run[row[m].run].src

\* A user message sent into a busy thread leaves the steering table only in the
\* commit of a turn that was given it, or by stop or clear. Runs that are not
\* themselves continuations; see RacingSteeringContinues for those.
Heard(m) == \E c \in Conts : cont[c].pc = "turn" /\ Holder(c) /\ m \in cont[c].got

Dropped(m) ==
  /\ row[m].state # "absent" /\ row'[m].state = "absent"
  /\ row[m].run # NoRun
  /\ Active(row[m].run) /\ run'[row[m].run].status # "cancelled"
  /\ ~Heard(m)

NoSilentDrop ==
  [][\A m \in Msgs : Dropped(m) => run[row[m].run].trigger = "follow_up"]_vars

\* Messages and continuations never start a run beside an active one, however
\* the end of a run interleaves with the sends: only a reaction or a background
\* wake may.
Starts(r) == run[r].status = "none" /\ run'[r].status # "none"

OneConversation ==
  [][\A r \in Runs :
       Starts(r) /\ run'[r].trigger \in {"user", "follow_up"}
         => \A q \in Runs \ {r} : run'[q].status \notin ActiveStatuses]_vars

-----------------------------------------------------------------------------
(* The promise to the user: Outcome, with the worker's states folded away. *)

PhaseOf(status) ==
  IF status \in {"queued"} \cup Leasable THEN "working"
  ELSE IF status \in Waiting THEN "waiting" ELSE status

Promise == INSTANCE Outcome WITH
  Works <- Runs, phase <- [r \in Runs |-> PhaseOf(run[r].status)]

\* Whatever the deliveries, leases, retries, crashes and sweeps do, the user sees
\* the steps of Outcome: work is accepted once, ends once, is continued in the
\* step that ends it and never beside other work, and a stop leaves none open.
KeepsPromise == Promise!Spec

-----------------------------------------------------------------------------
(* Liveness, under LiveSpec. *)

\* A run that is queued, leased or running is eventually finished or waits for
\* the user: a lost enqueue, a crash or a stall only delays it (reconcileOnce).
RunSettles ==
  \A r \in Runs :
    run[r].status \in {"queued", "leased", "running"}
      ~> run[r].status \notin {"queued", "leased", "running"}

\* A steering row eventually leaves the table, or its run waits for the user or
\* has failed on it.
SteeringSettles ==
  \A m \in Msgs :
    row[m].state # "absent"
      ~> \/ row[m].state = "absent"
         \/ row[m].run # NoRun /\ run[row[m].run].status \in Waiting \cup {"failed"}

-----------------------------------------------------------------------------
(* What the repository says and the code does not keep. *)

\* executor-lifecycle.test.ts: steering that races finalization is coalesced
\* into a durable continuation. A message sent to a follow_up run after its last
\* claim is deleted unheard.
RacingSteeringContinues == [][\A m \in Msgs : ~Dropped(m)]_vars

\* executor-lifecycle.test.ts: an expired running lease is reclaimed with a
\* higher fence. The claim does not compare the fence of its snapshot.
ReclaimRaisesFence ==
  [][\A r \in Runs :
       run[r].status \in Leasable /\ ~run[r].live /\ run'[r].status = "leased" /\ run'[r].live
         => run'[r].fence > run[r].fence]_vars

\* thread-target.ts: while the user holds the screen the run is continued as
\* held, with the screen tools gated. A setup retry or a reclaim forgets it.
EntersTurn(c) == cont[c].pc = "prepared" /\ cont'[c].pc = "turn" /\ Holder(c)

HeldTurnsStayGated ==
  [][\A c \in Conts :
       EntersTurn(c) /\ userHolds /\ ctl = cont[c].run /\ ~cont[c].resume => cont[c].held]_vars
=============================================================================
