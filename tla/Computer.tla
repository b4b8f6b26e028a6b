-------------------------------- MODULE Computer --------------------------------
(***************************************************************************)
(* One computer of a team or of a bot: the row in the database, the        *)
(* sandboxes the provider keeps for it, and everybody who boots it, works  *)
(* on it, puts it to sleep, stops it or replaces it.  The row is the only  *)
(* lock: each party reads it, talks to the provider for seconds or         *)
(* minutes, and writes it back with a compare-and-swap on what it read.    *)
(*                                                                         *)
(* A run works under two leases it renews together (of its run row, and,   *)
(* on a team's computer, of the computer); a manager is a request or a     *)
(* background job, and takes at most the latter, without renewing it.      *)
(***************************************************************************)
EXTENDS Naturals, FiniteSets

CONSTANTS
  Runs,       \* runs that may use the computer
  Managers,   \* user requests and sleep jobs, one job each
  BotOf,      \* the bot each of them acts for
  Jobs,       \* what managers may be: a subset of AllJobs
  Boxes,      \* sandboxes the provider can allocate, a set of positive numbers
  MaxFaults,  \* bound: crashes and provider failures, together
  MaxStamp    \* bound: the row is not claimed any more once its updatedAt is this late

AllJobs == {"sleep", "stop", "replace"}
Callers == Runs \cup Managers
NoBox == 0
NoOne == "nobody"

ASSUME CallersAssumption ==
  /\ Runs \cap Managers = {} /\ NoOne \notin Callers
  /\ Jobs \subseteq AllJobs
  /\ Boxes \subseteq Nat \ {NoBox} /\ Boxes # {}
  /\ MaxFaults \in Nat /\ MaxStamp \in Nat

Stamps == 0 .. MaxStamp + 3   \* a claim is followed by at most two more writes
Bots == {BotOf[c] : c \in Callers}

VARIABLES
  scope,   \* "team": bots share the computer, one lease each; "dedicated": no leases
  row,     \* the Computer row: state, providerRef, updatedAt; aged: updatedAt is over
           \* BOOT_CLAIM_STALE_MS old
  lease,   \* ComputerExecutionLease per bot; whose acquisition it is stands for its fence
  active,  \* runs in one of ACTIVE_RUN_STATUSES
  beating, \* runs whose own lease is live
  caller,  \* where each run's worker and each manager is, and what it has read
  box,     \* the provider's sandboxes
  left,    \* history: sandboxes whose last keeper died, failed to end them or let them go
  faults   \* bounds the crashes and provider failures

vars == <<scope, row, lease, active, beating, caller, box, left, faults>>

RowStates == {"stopped", "booting", "running", "suspending", "suspended", "error"}
Rows == [state : RowStates, ref : Boxes \cup {NoBox}, stamp : Stamps, aged : BOOLEAN]
LeaseStates == {"free", "lapsed", "live"}   \* free: no row, or a released tombstone
Places == {"idle", "validate", "ready", "wait", "claim", "provision", "setup", "rollback",
           "record", "work", "survey", "suspend", "recheck", "halt", "settle", "release", "done"}

\* What a caller remembers: the row it read (seen), the stamp of the boot it found
\* abandoned (old), the stamp it claimed with, the sandbox it was given and why its
\* boot failed (lost; "stuck": the sandbox could not be ended either).
Locals ==
  [pc : Places, job : AllJobs \cup {"run"},
   seen : [state : RowStates, ref : Boxes \cup {NoBox}, stamp : Stamps],
   old : Stamps, claim : Stamps, box : Boxes \cup {NoBox}, fresh : BOOLEAN,
   lost : {"no", "error", "busy", "stuck"}]
Fresh == [pc |-> "idle", job |-> "run",
          seen |-> [state |-> "stopped", ref |-> NoBox, stamp |-> 0],
          old |-> 0, claim |-> 0, box |-> NoBox, fresh |-> FALSE, lost |-> "no"]

TypeOK ==
  /\ scope \in {"team", "dedicated"}
  /\ row \in Rows
  /\ lease \in [Bots -> [by : Callers \cup {NoOne}, until : LeaseStates]]
  /\ active \subseteq Runs /\ beating \subseteq active
  /\ caller \in [Callers -> Locals]
  /\ box \in [Boxes -> {"unused", "running", "stopped", "lost", "gone"}]
  /\ left \subseteq Boxes
  /\ faults \in 0 .. MaxFaults

\* A lease given back matches no renewal and no second release.
Free == [by |-> NoOne, until |-> "free"]

FirstBox == CHOOSE x \in Boxes : TRUE

\* The computer was used before; it is at rest, or runs are at work on it, under their
\* leases.
Init ==
  /\ scope \in {"team", "dedicated"}
  /\ row \in [state : {"stopped", "running"}, ref : {FirstBox}, stamp : {1}, aged : {FALSE}]
  /\ box = [x \in Boxes |-> IF x # row.ref THEN "unused"
                            ELSE IF row.state = "running" THEN "running" ELSE "stopped"]
  /\ active \in SUBSET Runs
  /\ row.state = "stopped" => active = {}
  /\ scope = "team" => \A q, r \in active : BotOf[q] = BotOf[r] => q = r
  /\ beating = active
  /\ lease = [b \in Bots |->
       IF scope = "team" /\ \E r \in active : BotOf[r] = b
       THEN [by |-> CHOOSE r \in active : BotOf[r] = b, until |-> "live"] ELSE Free]
  /\ \E job \in [Managers -> Jobs] :
       caller = [c \in Callers |->
         IF c \in active THEN [Fresh EXCEPT !.pc = "work", !.box = FirstBox]
         ELSE IF c \in Runs THEN Fresh ELSE [Fresh EXCEPT !.job = job[c]]]
  /\ left = {} /\ faults = 0

--------------------------------------------------------------------------------
(* Reading and writing *)

At(c, p) == caller[c].pc = p
Job(c) == caller[c].job
Goto(c, p) == caller' = [caller EXCEPT ![c].pc = p]
\* c forgets what it read.
Leave(c, p) == caller' = [caller EXCEPT ![c] = [Fresh EXCEPT !.pc = p, !.job = Job(c)]]
Snapshot == [state |-> row.state, ref |-> row.ref, stamp |-> row.stamp]
See(c, p) == caller' = [caller EXCEPT ![c].pc = p, ![c].seen = Snapshot]

\* Prisma moves updatedAt with every write; time passes between two of them.
WriteRow(state, ref) ==
  row' = [state |-> state, ref |-> ref, stamp |-> row.stamp + 1, aged |-> FALSE]

Live(b) == lease[b].until = "live"
Mine(c) == lease[BotOf[c]].by = c
\* No live lease other than the caller's own.
HeldByNobodyElse(c) == \A b \in Bots : Live(b) => lease[b].by = c
HasForeignLease(c) == \E b \in Bots \ {BotOf[c]} : Live(b)
\* Someone else's worker is alive.
ForeignWorker(c) == beating \ {c} # {}

Expire(c) == IF Mine(c) THEN [lease EXCEPT ![BotOf[c]] = Free] ELSE lease

Fault == faults < MaxFaults /\ faults' = faults + 1
InTime == row.stamp < MaxStamp

--------------------------------------------------------------------------------
(* Leases *)

\* A run is asked for.
Ask(r) ==
  /\ At(r, "idle") /\ r \notin active
  /\ active' = active \cup {r}
  /\ UNCHANGED <<scope, row, lease, beating, caller, box, left, faults>>

\* The first step of an invocation: the worker's own lease (its claim of the run needs
\* the last one to have lapsed) and, on a team's computer, the lease of its bot.
Acquire(c) ==
  LET start == IF Job(c) = "replace" THEN "survey" ELSE "ready" IN
  /\ At(c, "idle") /\ Job(c) \in {"run", "replace"}
  /\ c \in Runs => c \in active \ beating
  /\ beating' = beating \cup ({c} \cap Runs)
  /\ IF scope = "team"
     THEN /\ row.state # "suspending"
          /\ ~Live(BotOf[c])
          /\ lease' = [lease EXCEPT ![BotOf[c]] = [by |-> c, until |-> "live"]]
          /\ Goto(c, "validate")
     ELSE Goto(c, start) /\ UNCHANGED lease
  /\ UNCHANGED <<scope, row, active, box, left, faults>>

\* The row is read again once the lease is there: a computer about to be suspended
\* is left alone.
Validate(c) ==
  /\ At(c, "validate")
  /\ IF row.state = "suspending"
     THEN /\ lease' = Expire(c) /\ beating' = beating \ {c}
          /\ Leave(c, "idle")
     ELSE /\ Goto(c, IF Job(c) = "replace" THEN "survey" ELSE "ready")
          /\ UNCHANGED <<lease, beating>>
  /\ UNCHANGED <<scope, row, active, box, left, faults>>

\* A worker that is alive renews both of its leases; one the clock let lapse is
\* renewed too, one that was released or taken by another is not.
Beat(r) ==
  /\ r \in active \ beating /\ caller[r].pc \notin {"idle", "done"}
  /\ scope = "team" => Mine(r)
  /\ beating' = beating \cup {r}
  /\ lease' = IF scope = "team" THEN [lease EXCEPT ![BotOf[r]].until = "live"] ELSE lease
  /\ UNCHANGED <<scope, row, active, caller, box, left, faults>>

\* Leases nobody renewed in time: the worker died or stalled; a manager never renews.
Lapse(c) ==
  /\ c \in beating \/ (Mine(c) /\ Live(BotOf[c]))
  /\ beating' = beating \ {c}
  /\ lease' = IF Mine(c) /\ Live(BotOf[c]) THEN [lease EXCEPT ![BotOf[c]].until = "lapsed"] ELSE lease
  /\ UNCHANGED <<scope, row, active, caller, box, left, faults>>

\* The run ends, or goes back to the queue after waiting too long for the computer.
Finish(r) ==
  /\ At(r, "ready") \/ At(r, "work")
  /\ \/ active' = active \ {r}
     \/ At(r, "ready") /\ UNCHANGED active
  /\ beating' = beating \ {r}
  /\ Leave(r, "release")
  /\ UNCHANGED <<scope, row, lease, box, left, faults>>

\* Last of all the lease is given back, as a tombstone.
GiveBack(c) ==
  /\ At(c, "release")
  /\ lease' = Expire(c)
  /\ Leave(c, IF c \in active THEN "idle" ELSE "done")
  /\ UNCHANGED <<scope, row, active, beating, box, left, faults>>

\* Stop or clear of the thread; the worker may go on until it notices.
Cancel(r) ==
  /\ r \in active
  /\ active' = active \ {r} /\ beating' = beating \ {r}
  /\ lease' = Expire(r)
  /\ UNCHANGED <<scope, row, caller, box, left, faults>>

--------------------------------------------------------------------------------
(* provisionComputer *)

\* Somebody else has it: a run asks again while it can wait, a request is refused.
Busy(c) == Leave(c, IF c \in Runs THEN "ready" ELSE "release")

\* The first reading.  A boot is reclaimed only if it was old when first seen and no
\* other worker is alive.
Look(c) ==
  /\ At(c, "ready")
  /\ CASE row.state = "suspending" -> Goto(c, "wait")
       [] row.state = "booting" /\ row.aged /\ ~ForeignWorker(c) ->
            caller' = [caller EXCEPT ![c].pc = "wait", ![c].old = row.stamp]
       [] row.state = "booting" /\ ~(row.aged /\ ~ForeignWorker(c)) -> Busy(c)
       [] OTHER -> See(c, "claim")
  /\ UNCHANGED <<scope, row, lease, active, beating, box, left, faults>>

\* The reading the claim goes by, after at most ten seconds of waiting.
EndWait(c) ==
  LET reclaims == caller[c].old # 0 IN
  /\ At(c, "wait")
  /\ CASE row.state = "booting" /\ reclaims /\ ~ForeignWorker(c) -> See(c, "claim")
       [] row.state = "running" /\ ~reclaims -> See(c, "claim")
       [] row.state \in {"stopped", "suspended", "error"} -> See(c, "claim")
       [] OTHER -> Busy(c)
  /\ UNCHANGED <<scope, row, lease, active, beating, box, left, faults>>

\* Mutant: the clock alone gives the stamp.
ClaimStampMutantClock(now, observed) == now

\* The stamp of a claim moves past the one observed even when the clock does not.
ClaimStamp(now, observed) == IF now > observed THEN now ELSE observed + 1

Observed(c) == IF caller[c].old # 0 THEN caller[c].old ELSE caller[c].seen.stamp
MayClaim(c) ==
  IF caller[c].seen.state = "booting"
  THEN row.state = "booting" /\ row.stamp = caller[c].old /\ HeldByNobodyElse(c)
  ELSE row.state = caller[c].seen.state /\ row.ref = caller[c].seen.ref

Claim(c) ==
  /\ At(c, "claim")
  /\ \/ /\ MayClaim(c) /\ InTime
        /\ \E now \in {row.stamp, row.stamp + 1} :
             LET stamp == ClaimStamp(now, Observed(c)) IN
             /\ row' = [state |-> "booting", ref |-> row.ref, stamp |-> stamp, aged |-> FALSE]
             /\ caller' = [caller EXCEPT ![c].pc = "provision", ![c].claim = stamp, ![c].old = 0]
     \/ ~MayClaim(c) /\ Busy(c) /\ UNCHANGED row
  /\ UNCHANGED <<scope, lease, active, beating, box, left, faults>>

Reconnecting(c) == caller[c].seen.state = "running" /\ caller[c].seen.ref # NoBox
Usable(x) == x # NoBox /\ box[x] \in {"running", "stopped"}
NextBox == CHOOSE x \in Boxes : box[x] = "unused"

\* The provider reconnects to the sandbox the row named, or allocates a fresh one when
\* there is none or it was lost.
Provision(c) ==
  LET ref == caller[c].seen.ref IN
  /\ At(c, "provision")
  /\ \/ /\ Usable(ref)
        /\ box' = [box EXCEPT ![ref] = "running"]
        /\ caller' = [caller EXCEPT ![c].pc = "setup", ![c].box = ref]
        /\ UNCHANGED faults
     \/ /\ ~Usable(ref)
        /\ \E x \in Boxes : box[x] = "unused"
        /\ box' = [box EXCEPT ![NextBox] = "running"]
        /\ caller' = [caller EXCEPT ![c].pc = "setup", ![c].box = NextBox, ![c].fresh = TRUE]
        /\ UNCHANGED faults
     \/ /\ Fault
        /\ caller' = [caller EXCEPT ![c].pc = "record", ![c].lost = "error"]
        /\ UNCHANGED box
  /\ UNCHANGED <<scope, row, lease, active, beating, left>>

\* Mutant: the end of a boot is written by id, whoever holds the claim by now.
HoldsMutantById(c) == row.state # "suspending"

\* The claim is still the caller's.
Holds(c) == row.state = "booting" /\ row.stamp = caller[c].claim /\ row.ref = caller[c].seen.ref

\* Mutant: a failed reconnect leaves alone even the replacement it was given.
OwnsBoxMutantNew(c) == ~Reconnecting(c)

\* A failed reconnect does not own the workspace it reconnected to.
OwnsBox(c) == ~Reconnecting(c) \/ caller[c].fresh

\* prepare, restore and layout, then the write that activates the computer.
Activate(c) ==
  LET fail(why) ==
        caller' = [caller EXCEPT
          ![c].pc = IF OwnsBox(c) THEN "rollback" ELSE "record",
          ![c].lost = why]
  IN
  /\ At(c, "setup")
  /\ \/ /\ Holds(c)
        /\ WriteRow("running", caller[c].box)
        /\ caller' = [caller EXCEPT ![c] =
             [Fresh EXCEPT !.pc = IF c \in Runs THEN "work" ELSE "release",
                           !.job = Job(c), !.box = caller[c].box]]
        /\ UNCHANGED faults
     \/ ~Holds(c) /\ fail("busy") /\ UNCHANGED <<row, faults>>
     \/ Fault /\ fail("error") /\ UNCHANGED row
  /\ UNCHANGED <<scope, lease, active, beating, box, left>>

Stopped(x) == [box EXCEPT ![x] = IF @ = "running" THEN "stopped" ELSE @]
Destroyed(x) == [box EXCEPT ![x] = "gone"]

\* A fresh sandbox is destroyed, another one only stopped (and destroyed if it cannot
\* be stopped, when the boot was lost to another caller).
Rollback(c) ==
  LET x == caller[c].box IN
  /\ At(c, "rollback")
  /\ \/ /\ box' = IF caller[c].fresh THEN Destroyed(x) ELSE Stopped(x)
        /\ Goto(c, "record") /\ UNCHANGED faults
     \/ /\ Fault /\ ~caller[c].fresh /\ caller[c].lost = "busy"
        /\ box' = Destroyed(x)
        /\ Goto(c, "record")
     \/ /\ Fault
        /\ caller' = [caller EXCEPT ![c].pc = "record", ![c].lost = "stuck"]
        /\ UNCHANGED box
  /\ UNCHANGED <<scope, row, lease, active, beating, left>>

\* The failure is written if the claim is still the caller's; a sandbox that could not
\* be ended is kept in the row so that the next boot finds it.
Record(c) ==
  LET stuck == caller[c].lost = "stuck"
      keeps == Holds(c) /\ ~Reconnecting(c) /\ stuck
  IN
  /\ At(c, "record")
  /\ IF Holds(c)
     THEN WriteRow(IF Reconnecting(c) THEN "running" ELSE "error",
                   IF keeps THEN caller[c].box ELSE row.ref)
     ELSE UNCHANGED row
  /\ left' = left \cup (IF stuck /\ ~keeps THEN {caller[c].box} ELSE {})
  /\ Leave(c, IF caller[c].lost = "busy" /\ c \in Runs THEN "ready" ELSE "release")
  /\ UNCHANGED <<scope, lease, active, beating, box, faults>>

\* withComputerSessionRecovery: a session that died is replaced and the action retried.
Recover(r) ==
  /\ At(r, "work") /\ box[caller[r].box] \in {"lost", "gone"}
  /\ Leave(r, "ready")
  /\ UNCHANGED <<scope, row, lease, active, beating, box, left, faults>>

--------------------------------------------------------------------------------
(* Sleep, stop and replace *)

OtherBots(c) == {r \in active : scope = "team" /\ BotOf[r] # BotOf[c]}

\* Reading the row, and the checks made before anything is claimed.
Survey(c) ==
  /\ CASE Job(c) = "sleep" ->
            /\ At(c, "idle")
            /\ row.state = "running" /\ row.ref # NoBox /\ active = {}
            /\ See(c, "suspend")
       [] Job(c) = "stop" -> At(c, "idle") /\ See(c, "suspend")
       [] Job(c) = "replace" ->
            /\ At(c, "survey")
            /\ IF \/ row.state = "suspending"
                  \/ row.state = "booting" /\ (HasForeignLease(c) \/ ~row.aged \/ active # {})
               THEN Busy(c)
               ELSE See(c, "suspend")
       [] OTHER -> FALSE
  /\ UNCHANGED <<scope, row, lease, active, beating, box, left, faults>>

\* What the compare-and-swap to "suspending" asks for.
MaySuspend(c) ==
  LET seen == caller[c].seen IN
  CASE Job(c) = "sleep" -> Snapshot = seen /\ \A b \in Bots : ~Live(b)
    [] Job(c) = "stop" -> row.state # "suspending" /\ ~HasForeignLease(c)
    [] OTHER -> /\ row.state = seen.state /\ ~HasForeignLease(c)
                /\ seen.state = "booting" => row.stamp = seen.stamp

\* Where a manager goes when it is refused: a sleep is scheduled again.
Refused(c) ==
  Leave(c, CASE Job(c) = "sleep" -> "idle" [] Job(c) = "stop" -> "done" [] OTHER -> "release")

Suspend(c) ==
  /\ At(c, "suspend")
  /\ \/ MaySuspend(c) /\ InTime /\ WriteRow("suspending", row.ref) /\ Goto(c, "recheck")
     \/ ~MaySuspend(c) /\ Refused(c) /\ UNCHANGED row
  /\ UNCHANGED <<scope, lease, active, beating, box, left, faults>>

\* Mutant: nobody looks for the runs of the computer's own bot.
InTheWayMutantOthers(c) == OtherBots(c)

\* Whose work the second check, made once the row is claimed, looks for.
InTheWay(c) == IF Job(c) = "stop" THEN OtherBots(c) ELSE active

\* Somebody came in between: the row is put back.  Otherwise a stop drops the lease rows
\* of its bot.
Recheck(c) ==
  /\ At(c, "recheck")
  /\ IF InTheWay(c) # {}
     THEN /\ IF row.state = "suspending" THEN WriteRow(caller[c].seen.state, row.ref) ELSE UNCHANGED row
          /\ Refused(c) /\ UNCHANGED lease
     ELSE /\ lease' = IF Job(c) = "stop"
                      THEN [lease EXCEPT ![BotOf[c]] = Free] ELSE lease
          /\ Goto(c, "halt") /\ UNCHANGED row
  /\ UNCHANGED <<scope, active, beating, box, left, faults>>

\* The provider call, on the sandbox named when the row was first read.
Halt(c) ==
  LET ref == caller[c].seen.ref IN
  /\ At(c, "halt")
  /\ \/ /\ box' = IF ref = NoBox THEN box
                  ELSE IF Job(c) = "replace" THEN Destroyed(ref) ELSE Stopped(ref)
        /\ Goto(c, "settle") /\ UNCHANGED <<row, faults>>
     \* it fails; a recovery goes on without it
     \/ /\ Fault /\ ref # NoBox /\ Job(c) = "replace"
        /\ Goto(c, "settle") /\ UNCHANGED <<row, box>>
     \/ /\ Fault /\ ref # NoBox
        /\ WriteRow(IF Job(c) = "sleep" THEN "running" ELSE "error", row.ref)
        /\ Leave(c, IF Job(c) = "replace" THEN "release" ELSE "done")
        /\ UNCHANGED box
  /\ UNCHANGED <<scope, lease, active, beating, left>>

\* The last write is unconditional.  A replacement then provisions from nothing.
Settle(c) ==
  LET drops == Job(c) = "replace" /\ row.ref # NoBox /\ box[row.ref] # "gone" IN
  /\ At(c, "settle")
  /\ CASE Job(c) = "sleep" -> WriteRow("suspended", row.ref)
       [] Job(c) = "stop" -> WriteRow("stopped", row.ref)
       [] OTHER -> WriteRow("stopped", NoBox)
  /\ left' = left \cup (IF drops THEN {row.ref} ELSE {})
  /\ Leave(c, IF Job(c) = "replace" THEN "ready" ELSE "done")
  /\ UNCHANGED <<scope, lease, active, beating, box, faults>>

--------------------------------------------------------------------------------
(* Time, crashes and the provider *)

Age ==
  /\ row.state = "booting" /\ ~row.aged
  /\ row' = [row EXCEPT !.aged = TRUE]
  /\ UNCHANGED <<scope, lease, active, beating, caller, box, left, faults>>

\* A process dies; the queue delivers a run's job again, a request is gone.
Crash(c) ==
  /\ caller[c].pc \notin {"idle", "done"} /\ Fault
  /\ left' = left \cup (IF caller[c].pc \in {"setup", "rollback", "record"} /\ caller[c].box # NoBox
                        THEN {caller[c].box} ELSE {})
  /\ Leave(c, IF c \in Runs THEN "idle" ELSE "done")
  /\ UNCHANGED <<scope, row, lease, active, beating, box>>

\* An ephemeral session ends by itself.
LoseSession(x) ==
  /\ box[x] = "running" /\ Fault
  /\ box' = [box EXCEPT ![x] = "lost"]
  /\ UNCHANGED <<scope, row, lease, active, beating, caller, left>>

Next ==
  \/ \E r \in Runs : Ask(r) \/ Beat(r) \/ Finish(r) \/ Cancel(r) \/ Recover(r)
  \/ \E c \in Callers :
       \/ Acquire(c) \/ Validate(c) \/ Lapse(c) \/ GiveBack(c)
       \/ Look(c) \/ EndWait(c) \/ Claim(c) \/ Provision(c) \/ Activate(c)
       \/ Rollback(c) \/ Record(c) \/ Crash(c)
  \/ \E m \in Managers : Survey(m) \/ Suspend(m) \/ Recheck(m) \/ Halt(m) \/ Settle(m)
  \/ \E x \in Boxes : LoseSession(x)
  \/ Age

Spec == Init /\ [][Next]_vars

--------------------------------------------------------------------------------
(* What must hold *)

\* At most one of those provisioning can still activate the computer, whoever reclaimed
\* whose boot in whichever order: the stamp of a claim names one caller.
\* (computer-lifecycle.ts, the claim and the activation of provisionComputer)
OneActivator ==
  \A c, d \in Callers :
    (/\ caller[c].pc \in {"provision", "setup"} /\ Holds(c)
     /\ caller[d].pc \in {"provision", "setup"} /\ Holds(d)) => c = d

\* Runs at work on the computer are at work on the same sandbox: no two sandboxes of one
\* computer are alive and in use, each with its own copy of the home.
OneSandbox ==
  LET using == {caller[r].box : r \in {q \in active : At(q, "work")}} IN
  \A x, y \in using : box[x] = "running" /\ box[y] = "running" => x = y

\* When a sleep, stop or replacement is about to call the provider, nobody it may not
\* interrupt is working on that sandbox: only a stop interrupts, and only its own bot.
\* (sleepComputerIfIdle, replaceComputer, computer.stop against acquire and provision)
SparesWork ==
  \A m \in Managers, r \in active :
    At(m, "halt") /\ At(r, "work") /\ caller[r].box = caller[m].seen.ref
      => Job(m) = "stop" /\ (scope = "team" => BotOf[r] = BotOf[m])

\* Booting leaves no sandbox behind: one that is alive is named by the row, or is in the
\* hands of a caller, or its last keeper died, could not end it or let it go.
NoSandboxLost ==
  \A x \in Boxes : box[x] \in {"running", "stopped"} =>
    \/ x = row.ref \/ x \in left
    \/ \E c \in Callers : caller[c].box = x /\ caller[c].pc \in {"setup", "rollback", "record"}
================================================================================
