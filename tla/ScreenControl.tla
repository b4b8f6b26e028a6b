------------------------------ MODULE ScreenControl ------------------------------
(***************************************************************************)
(* Who controls the screen of a computer.  The control columns of its row  *)
(* are written by the user's takeovers and releases, by expiry, and by the *)
(* runs that ask for a takeover; each of them reads the row, talks to the  *)
(* provider, and writes back with a compare on the lease it read.  Bots of *)
(* a team share the row.  A run is a bot and a number.  The computer stays *)
(* on: sleep, stop and replace, which clear the columns too, are left out. *)
(***************************************************************************)
EXTENDS Naturals, FiniteSets

CONSTANTS
  Sharers,         \* bots that may use the computer
  ScreenRequests,  \* requests of the user at work at a time
  ExpiryWorkers,   \* control-expire jobs at work at a time
  RunsEach,        \* bound: runs of a bot
  MaxGrants,       \* bound: control leases
  MaxSnags         \* bound: provider calls and enqueues that fail, and crashes

ASSUME ScreenAssumption ==
  /\ Sharers # {}
  /\ RunsEach \in Nat /\ MaxGrants \in Nat /\ MaxSnags \in Nat

VARIABLES
  owner,     \* the bot of a dedicated computer; Nobody if its scope is "team", and its runs
             \* work under execution leases
  control,   \* controlHolder, controlLeaseId, controlLeaseExpiresAt, controlBotId, controlRunId
  turn,      \* status of each run; "held": continued in the chat while the user has the screen
  execution, \* ComputerExecutionLease of each bot
  desk,      \* locals of each request and job
  expiry,    \* a control-expire job of the current lease is pending; one of an older lease returns
             \* at its first read
  granted,   \* leases given so far
  outrun,    \* history: leases granted on a check that a pause of a run of the bot has outrun
  snags      \* bounds the failures

screenVars == <<owner, control, turn, execution, desk, expiry, granted, outrun, snags>>

Nobody == "nobody"
ScreenRuns == Sharers \X (1 .. RunsEach)
NoScreenRun == <<Nobody, 0>>
SharerOf(r) == r[1]
Leases == 1 .. MaxGrants
DeskIds == ScreenRequests \cup ExpiryWorkers

TurnStates == {"none", "queued", "running", "waiting", "held", "ended"}
InTurn(r) == turn[r] \in {"queued", "running", "waiting", "held"}

Controls == [holder : {"none", "user", "bot"}, lease : {0} \cup Leases, live : BOOLEAN,
             bot : Sharers \cup {Nobody}, run : ScreenRuns \cup {NoScreenRun}]
Cleared(holder) ==
  [holder |-> holder, lease |-> 0, live |-> FALSE, bot |-> Nobody, run |-> NoScreenRun]

Executions == [run : ScreenRuns \cup {NoScreenRun}, live : BOOLEAN]

\* What a request or a job has read of the control, and then the lease and the run it grants;
\* late: a run of the bot has paused since the check.
DeskSteps ==
  {"idle", "expire", "deny", "settle", "giveBack", "revoke", "check", "grant", "schedule", "bind"}
Desks == [pc : DeskSteps, takes : BOOLEAN, bot : Sharers \cup {Nobody},
          lease : {0} \cup Leases, run : ScreenRuns \cup {NoScreenRun}, late : BOOLEAN]
FreeDesk == [pc |-> "idle", takes |-> FALSE, bot |-> Nobody, lease |-> 0, run |-> NoScreenRun,
             late |-> FALSE]

ScreenTypeOK ==
  /\ owner \in Sharers \cup {Nobody} /\ control \in Controls
  /\ turn \in [ScreenRuns -> TurnStates]
  /\ execution \in [Sharers -> Executions]
  /\ desk \in [DeskIds -> Desks]
  /\ expiry \in BOOLEAN /\ outrun \subseteq Leases
  /\ granted \in 0 .. MaxGrants /\ snags \in 0 .. MaxSnags

ScreenInit ==
  /\ owner \in Sharers \cup {Nobody}
  /\ control = Cleared("none")
  /\ turn = [r \in ScreenRuns |-> "none"]
  /\ execution = [b \in Sharers |-> [run |-> NoScreenRun, live |-> FALSE]]
  /\ desk = [d \in DeskIds |-> FreeDesk]
  /\ expiry = FALSE /\ granted = 0 /\ outrun = {} /\ snags = 0

Snag == snags < MaxSnags /\ snags' = snags + 1

OnScreen(b) == owner \in {b, Nobody}

hasActiveComputerControl(c) == c.holder = "user" /\ c.lease # 0 /\ c.live

LeaveDesk(d) == desk' = [desk EXCEPT ![d] = FreeDesk]

--------------------------------------------------------------------------------
(* Runs *)

StartTurn(r) ==
  /\ OnScreen(SharerOf(r)) /\ turn[r] = "none"
  /\ \A q \in ScreenRuns : SharerOf(q) = SharerOf(r) =>
       ~InTurn(q) /\ (q[2] < r[2] => turn[q] = "ended")
  /\ turn' = [turn EXCEPT ![r] = "queued"]
  /\ UNCHANGED <<owner, control, execution, desk, expiry, granted, outrun, snags>>

\* acquireComputerExecutionLease: a team's run takes its bot's lease; a dedicated one has none.
AcquireScreen(r) ==
  LET b == SharerOf(r) IN
  /\ turn[r] = "queued"
  /\ ~execution[b].live \/ execution[b].run = r
  /\ turn' = [turn EXCEPT ![r] = "running"]
  /\ execution' = IF owner # Nobody THEN execution
                  ELSE [execution EXCEPT ![b] = [run |-> r, live |-> TRUE]]
  /\ UNCHANGED <<owner, control, desk, expiry, granted, outrun, snags>>

\* Mutant: the user's control is kept as it is.
KeptMutantUnbound(r) ==
  IF hasActiveComputerControl(control) THEN control
  ELSE [Cleared("none") EXCEPT !.run = r]

\* What pauseRunForTakeover leaves of the control: the bot's own is bound to the run, another
\* bot's is preserved, and what is not active is cleared.
Kept(r) ==
  IF ~hasActiveComputerControl(control) THEN [Cleared("none") EXCEPT !.run = r]
  ELSE IF control.bot = SharerOf(r) THEN [control EXCEPT !.run = r]
  ELSE control

\* The execution lease stays held for the run.
RequestScreen(r) ==
  /\ turn[r] = "running"
  /\ turn' = [turn EXCEPT ![r] = "waiting"]
  /\ control' = Kept(r)
  /\ expiry' = (expiry /\ control'.lease # 0)
  /\ desk' = [d \in DeskIds |-> IF desk[d].pc = "grant" /\ desk[d].bot = SharerOf(r)
                                THEN [desk[d] EXCEPT !.late = TRUE] ELSE desk[d]]
  /\ UNCHANGED <<owner, execution, granted, outrun, snags>>

\* resumeTakeoverForFollowUp: a message continues the run, in the chat alone while the user
\* has the screen.
FollowUpWaiting(r) ==
  /\ turn[r] = "waiting"
  /\ turn' = [turn EXCEPT ![r] = IF control.holder = "user" THEN "held" ELSE "queued"]
  /\ UNCHANGED <<owner, control, execution, desk, expiry, granted, outrun, snags>>

\* The computer is busy: a held run goes back to where it was.
HeldBack(r) ==
  /\ turn[r] = "held"
  /\ turn' = [turn EXCEPT ![r] = "waiting"]
  /\ UNCHANGED <<owner, control, execution, desk, expiry, granted, outrun, snags>>

\* The run completes, or is stopped: its execution lease becomes a tombstone.
EndScreenTurn(r) ==
  /\ InTurn(r)
  /\ turn' = [turn EXCEPT ![r] = "ended"]
  /\ execution' = [b \in Sharers |-> IF execution[b].run = r THEN [run |-> r, live |-> FALSE]
                                     ELSE execution[b]]
  /\ UNCHANGED <<owner, control, desk, expiry, granted, outrun, snags>>

\* cancelStuckRun: a control the user does not hold is unbound too.
GiveUpWaiting(r) ==
  /\ turn[r] = "waiting"
  /\ turn' = [turn EXCEPT ![r] = "ended"]
  /\ execution' = [b \in Sharers |-> IF execution[b].run = r THEN [run |-> r, live |-> FALSE]
                                     ELSE execution[b]]
  /\ control' = IF control.run = r /\ (control.holder # "user" \/ control.lease = 0)
                THEN [control EXCEPT !.run = NoScreenRun] ELSE control
  /\ UNCHANGED <<owner, desk, expiry, granted, outrun, snags>>

--------------------------------------------------------------------------------
(* computer.takeover *)

\* A request starts with what it has read of the control, and uses later.
Sit(d, pc, takes, b) ==
  desk' = [desk EXCEPT ![d] = [pc |-> pc, takes |-> takes, bot |-> b, lease |-> control.lease,
                               run |-> IF pc \in {"check", "bind", "giveBack"} THEN control.run
                                       ELSE NoScreenRun,
                               late |-> FALSE]]

\* The row is read, and decides where the request goes.
TakeOver(d, b) ==
  /\ desk[d].pc = "idle" /\ OnScreen(b) /\ granted < MaxGrants
  /\ Sit(d, IF hasActiveComputerControl(control)
            THEN IF control.bot = b THEN "bind" ELSE "revoke"
            ELSE IF control.lease # 0 THEN "expire" ELSE "check", TRUE, b)
  /\ UNCHANGED <<owner, control, turn, execution, expiry, granted, outrun, snags>>

\* Another bot's control is revoked at the provider and cleared, and the row is read again.
RevokeOther(d) ==
  /\ desk[d].pc = "revoke"
  /\ IF control.lease = desk[d].lease
     THEN control' = Cleared("none") /\ expiry' = FALSE
     ELSE UNCHANGED <<control, expiry>>
  /\ desk' = [desk EXCEPT ![d].pc = IF control'.lease # 0 THEN "expire" ELSE "check",
                          ![d].lease = control'.lease, ![d].run = control'.run]
  /\ UNCHANGED <<owner, turn, execution, granted, outrun, snags>>

\* executionBlocksUserTakeover: a bot at work keeps its screen, unless it asked.
executionBlocks(b, asked) ==
  /\ execution[b].run # NoScreenRun /\ ~asked
  /\ execution[b].live \/ InTurn(execution[b].run)

\* The execution lease and its run, after the row.
CheckScreen(d) ==
  LET b == desk[d].bot
      r == execution[b].run
      asked == r # NoScreenRun /\ (turn[r] = "waiting" \/ desk[d].run = r) IN
  /\ desk[d].pc = "check"
  /\ IF executionBlocks(b, asked) THEN LeaveDesk(d)
     ELSE desk' = [desk EXCEPT ![d].pc = "grant", ![d].lease = 0,
                               ![d].run = IF asked THEN r ELSE NoScreenRun]
  /\ UNCHANGED <<owner, control, turn, execution, expiry, granted, outrun, snags>>

FreeToTake == control.holder # "user" /\ control.lease = 0

Grant(d) ==
  /\ desk[d].pc = "grant" /\ FreeToTake /\ granted < MaxGrants
  /\ granted' = granted + 1
  /\ outrun' = IF desk[d].late THEN outrun \cup {granted'} ELSE outrun
  /\ control' = [holder |-> "user", lease |-> granted', live |-> TRUE, bot |-> desk[d].bot,
                 run |-> desk[d].run]
  /\ expiry' = FALSE
  /\ desk' = [desk EXCEPT ![d] = [FreeDesk EXCEPT !.pc = "schedule", !.takes = TRUE,
                                                  !.bot = desk[d].bot, !.lease = granted']]
  /\ UNCHANGED <<owner, turn, execution, snags>>

\* The end of the lease is scheduled; if that fails the grant is taken back.
ScheduleEnd(d) ==
  /\ desk[d].pc = "schedule"
  /\ \/ expiry' = (expiry \/ control.lease = desk[d].lease) /\ UNCHANGED <<control, snags>>
     \/ /\ Snag
        /\ IF control.lease = desk[d].lease THEN control' = Cleared("none") /\ expiry' = FALSE
           ELSE UNCHANGED <<control, expiry>>
  /\ LeaveDesk(d)
  /\ UNCHANGED <<owner, turn, execution, granted, outrun>>

\* A lease was granted meanwhile; if it is this bot's, it is used.
GrantRefused(d) ==
  /\ desk[d].pc = "grant" /\ ~FreeToTake
  /\ IF hasActiveComputerControl(control) /\ control.bot = desk[d].bot
     THEN Sit(d, "bind", TRUE, desk[d].bot) ELSE LeaveDesk(d)
  /\ UNCHANGED <<owner, control, turn, execution, expiry, granted, outrun, snags>>

\* bindWaitingTakeoverToControl, under the lock of the execution lease; then the end of the
\* lease is scheduled again.
bindWaitingTakeoverToControl(d) ==
  LET b == desk[d].bot
      r == execution[b].run
      current == control.lease = desk[d].lease IN
  /\ desk[d].pc = "bind"
  /\ control' = IF /\ r # NoScreenRun /\ turn[r] = "waiting" /\ desk[d].run # r
                   /\ current /\ control.bot = b
                THEN [control EXCEPT !.run = r] ELSE control
  /\ expiry' = (expiry \/ current)
  /\ LeaveDesk(d)
  /\ UNCHANGED <<owner, turn, execution, granted, outrun, snags>>

--------------------------------------------------------------------------------
(* computer.release and expireComputerControl *)

\* A control that is not active any more is left to expiry.
ReleaseScreen(d, b) ==
  /\ desk[d].pc = "idle"
  /\ control.holder = "user" /\ control.bot = b
  /\ Sit(d, IF hasActiveComputerControl(control) THEN "giveBack" ELSE "expire", FALSE, b)
  /\ UNCHANGED <<owner, control, turn, execution, expiry, granted, outrun, snags>>

\* The job is delayed until the lease ends.
TakeExpiry(d) ==
  /\ desk[d].pc = "idle" /\ expiry /\ ~control.live
  /\ expiry' = FALSE
  /\ Sit(d, "expire", FALSE, Nobody)
  /\ UNCHANGED <<owner, control, turn, execution, granted, outrun, snags>>

\* A takeover goes on after the expiry it called, and reads the row again.
AfterExpiry(d) ==
  IF desk[d].takes
  THEN desk' = [desk EXCEPT ![d] = [FreeDesk EXCEPT !.pc = "check", !.takes = TRUE,
                                                    !.bot = desk[d].bot, !.run = control'.run]]
  ELSE LeaveDesk(d)

\* The lease that was to end is the current one, and over.
ReadLapsed(d) ==
  /\ desk[d].pc = "expire" /\ control.lease = desk[d].lease /\ ~control.live
  /\ desk' = [desk EXCEPT ![d].pc = "deny", ![d].run = control.run]
  /\ UNCHANGED <<owner, control, turn, execution, expiry, granted, outrun, snags>>

\* The user is denied first; the lease is kept until the provider has revoked it.
Deny(d) ==
  /\ desk[d].pc = "deny"
  /\ IF control.lease = desk[d].lease
     THEN control' = [control EXCEPT !.holder = "none"] /\ desk' = [desk EXCEPT ![d].pc = "settle"]
     ELSE UNCHANGED control /\ AfterExpiry(d)
  /\ UNCHANGED <<owner, turn, execution, expiry, granted, outrun, snags>>

\* The lease is another, or not over: its end is scheduled again.
NothingToExpire(d) ==
  /\ desk[d].pc = "expire" /\ (control.lease = desk[d].lease => control.live)
  /\ expiry' = (expiry \/ control.lease = desk[d].lease)
  /\ UNCHANGED control /\ AfterExpiry(d)
  /\ UNCHANGED <<owner, turn, execution, granted, outrun, snags>>

\* Mutant: the lease is not compared.
SameControlMutantRun(d) == control.run = desk[d].run

\* The columns finalizeComputerControlRelease compares; a lease is of one bot.
SameControl(d) == control.lease = desk[d].lease /\ control.run = desk[d].run

\* Mutant: the run is looked for in the status it had when the user took the screen.
ContinuedMutantHeld(r) ==
  [q \in ScreenRuns |-> IF q = r /\ turn[q] = "held" THEN "running" ELSE turn[q]]

\* A waiting run is queued; one that is continued as held is stamped and gets its tools back.
Continued(r) ==
  [q \in ScreenRuns |-> IF q # r THEN turn[q]
                        ELSE IF turn[q] = "waiting" THEN "queued"
                        ELSE IF turn[q] = "held" THEN "running" ELSE turn[q]]

\* The provider has revoked the screen; the control ends if it is still the one that was read.
finalizeComputerControlRelease(d, holder) ==
  IF SameControl(d)
  THEN control' = Cleared(holder) /\ turn' = Continued(desk[d].run) /\ expiry' = FALSE
  ELSE UNCHANGED <<control, turn, expiry>>

SettleExpiry(d) ==
  /\ desk[d].pc = "settle"
  /\ finalizeComputerControlRelease(d, "none")
  /\ AfterExpiry(d)
  /\ UNCHANGED <<owner, execution, granted, outrun, snags>>

GiveBackScreen(d) ==
  /\ desk[d].pc = "giveBack"
  /\ finalizeComputerControlRelease(d, "bot")
  /\ LeaveDesk(d)
  /\ UNCHANGED <<owner, execution, granted, outrun, snags>>

\* The provider's call fails, or the process dies: the request is over; the queue runs a job
\* again, unless it is lost too.
RevokeFails(d) ==
  /\ desk[d].pc \in {"settle", "giveBack", "revoke", "schedule"} /\ Snag
  /\ expiry' \in {expiry, expiry \/ (desk[d].bot = Nobody /\ control.lease = desk[d].lease)}
  /\ LeaveDesk(d)
  /\ UNCHANGED <<owner, control, turn, execution, granted, outrun>>

--------------------------------------------------------------------------------
(* Time and the reconciler *)

ControlLapses ==
  /\ control.live
  /\ control' = [control EXCEPT !.live = FALSE]
  /\ UNCHANGED <<owner, turn, execution, desk, expiry, granted, outrun, snags>>

Swept == control.lease # 0 /\ ~control.live

SweepControls ==
  /\ Swept /\ ~expiry
  /\ expiry' = TRUE
  /\ UNCHANGED <<owner, control, turn, execution, desk, granted, outrun, snags>>

DeskStep(d) ==
  \/ ReadLapsed(d) \/ Deny(d) \/ NothingToExpire(d) \/ SettleExpiry(d) \/ GiveBackScreen(d)
  \/ RevokeOther(d) \/ CheckScreen(d) \/ Grant(d) \/ ScheduleEnd(d) \/ GrantRefused(d)
  \/ bindWaitingTakeoverToControl(d)

ScreenNext ==
  \/ \E r \in ScreenRuns :
       \/ StartTurn(r) \/ AcquireScreen(r) \/ RequestScreen(r) \/ FollowUpWaiting(r) \/ HeldBack(r)
       \/ EndScreenTurn(r) \/ GiveUpWaiting(r)
  \/ \E d \in ScreenRequests, b \in Sharers : TakeOver(d, b) \/ ReleaseScreen(d, b)
  \/ \E d \in ExpiryWorkers : TakeExpiry(d)
  \/ \E d \in DeskIds : DeskStep(d) \/ RevokeFails(d)
  \/ ControlLapses \/ SweepControls

ScreenSpec == ScreenInit /\ [][ScreenNext]_screenVars

\* Leases end, the reconciler keeps sweeping, jobs are run and requests end.  Nothing makes
\* the user act or a run end.
ScreenFairness ==
  /\ WF_screenVars(ControlLapses)
  /\ WF_screenVars(SweepControls)
  /\ \A d \in ExpiryWorkers : WF_screenVars(TakeExpiry(d))
  /\ \A d \in DeskIds : WF_screenVars(DeskStep(d))

ScreenLiveSpec == ScreenSpec /\ ScreenFairness

--------------------------------------------------------------------------------
\* While the user has the screen of a bot whose run waits for that, the control is bound to the
\* run, "so [...] release can resume the waiting run".  (bindWaitingTakeoverToControl)
TakeoverBinds ==
  \A r \in ScreenRuns :
    turn[r] = "waiting" /\ control.holder = "user" /\ control.bot = SharerOf(r) => control.run = r

\* On a team's computer that holds whatever races with the takeover, but for a lease granted on
\* a check a pause has outrun.  (computer.takeover, pauseRunForTakeover)
TeamTakeoverBinds == owner = Nobody => TakeoverBinds \/ control.lease \in outrun

\* The same on the computer of one bot, whose runs have no execution lease to find them by.
DedicatedTakeoverBinds == owner # Nobody => TakeoverBinds \/ control.lease \in outrun

\* The user keeps a control that has not lapsed until a request of this very lease gives it back,
\* takes the screen of another bot or fails to schedule its end: no stale release or expiry and
\* no other bot's run ends it.  (computer.takeover, pauseRunForTakeover)
HeldUntilGivenUp ==
  [][hasActiveComputerControl(control) /\ control'.lease # control.lease =>
       \E d \in ScreenRequests :
         desk[d].pc \in {"giveBack", "revoke", "schedule"} /\ desk[d].lease = control.lease
      ]_screenVars

\* Another bot of the team has the screen, or a takeover for one is at work.
Contested(b) ==
  \E x \in Sharers \ {b} :
    \/ control.bot = x \/ SharerOf(control.run) = x
    \/ \E d \in ScreenRequests : desk[d].takes /\ desk[d].bot = x

\* The run waits for the user who has its screen, by a takeover that was answered.
WaitsForUser(r) ==
  /\ turn[r] = "waiting" /\ control.run = r /\ control.holder = "user"
  /\ \A d \in ScreenRequests : desk[d].pc # "schedule"

\* Such a run goes on at the latest when the control lapses, although jobs are lost and the
\* provider fails; only another bot's claim to the screen leaves it behind.
\* (expireComputerControl, reconcileOnce)
TakeoverSettles ==
  \A r \in ScreenRuns : WaitsForUser(r) ~> turn[r] # "waiting" \/ Contested(SharerOf(r))
================================================================================
