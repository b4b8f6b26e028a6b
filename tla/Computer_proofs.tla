----------------------------- MODULE Computer_proofs -----------------------------
(***************************************************************************)
(* What Computer guarantees for any runs, managers, bots and sandboxes and *)
(* any number of faults: its types, that one boot at most can activate the *)
(* computer, that no two sandboxes of it are worked on, that sleep, stop   *)
(* and replacement interrupt nobody they should not, and that booting      *)
(* loses no sandbox.                                                       *)
(***************************************************************************)
EXTENDS Computer, TLAPS

Booters == {"provision", "setup", "rollback", "record"}
Suspenders == {"recheck", "halt", "settle"}
Dead == {"lost", "gone"}

\* The types, with the bound on updatedAt that makes them inductive: a claim or a suspension
\* is made in time, and only its holder writes the row next.
Bounded ==
  /\ row.stamp <= MaxStamp + 1
  /\ row.stamp >= 1
  /\ \A c \in Callers : caller[c].pc \in Booters => caller[c].claim <= MaxStamp
  /\ \A c \in Callers : caller[c].pc \in Suspenders => row.stamp <= MaxStamp
  /\ \A c \in Runs : caller[c].job = "run"
  /\ \A c \in Managers : caller[c].job \in AllJobs

\* What a caller has read is no newer than the row, and what it may go by.
Readings ==
  \A c \in Callers :
    /\ caller[c].old <= row.stamp /\ caller[c].seen.stamp <= row.stamp
    /\ caller[c].pc = "claim" =>
         /\ caller[c].seen.state # "suspending"
         /\ caller[c].seen.state = "booting" => caller[c].old # 0 /\ caller[c].old <= caller[c].seen.stamp
         /\ caller[c].seen.stamp = row.stamp => caller[c].seen.ref = row.ref
    /\ caller[c].pc = "suspend" /\ caller[c].job # "stop" => caller[c].seen.state # "suspending"

\* Every boot under way has a stamp of its own, and none of them is that of a row at rest.
ClaimsDiffer ==
  \A c \in Callers : caller[c].pc \in Booters =>
    /\ caller[c].claim <= row.stamp
    /\ row.state # "booting" => caller[c].claim < row.stamp
    /\ \A d \in Callers : caller[d].pc \in Booters /\ caller[d].claim = caller[c].claim => c = d

\* "suspending" is a lock: it stays while its one holder is at it.
SuspendLocks ==
  \A c \in Callers : caller[c].pc \in Suspenders =>
    /\ row.state = "suspending" /\ c \in Managers
    /\ \A d \in Callers : caller[d].pc \in Suspenders => c = d

ControlInv == TypeOK /\ Bounded /\ Readings /\ ClaimsDiffer /\ SuspendLocks

-----------------------------------------------------------------------------
(* The types *)

LEMMA FreshType == Fresh \in Locals
BY CallersAssumption DEF Fresh, Locals, Places, AllJobs, RowStates, Stamps, NoBox

LEMMA Starts == Init => ControlInv
<1> SUFFICES ASSUME Init PROVE ControlInv
  OBVIOUS
<1> USE CallersAssumption
<1>1. FirstBox \in Boxes
  BY DEF FirstBox
<1>2. row \in Rows /\ row.stamp = 1 /\ row.ref = FirstBox /\ row.state \in {"stopped", "running"}
  <2>1. row \in [state : {"stopped", "running"}, ref : {FirstBox}, stamp : {1}, aged : {FALSE}]
    BY DEF Init
  <2>2. 1 \in Stamps
    BY DEF Stamps
  <2> QED
    BY <1>1, <2>1, <2>2 DEF Rows, RowStates
<1>3. box \in [Boxes -> {"unused", "running", "stopped", "lost", "gone"}]
  BY DEF Init
<1>4. lease \in [Bots -> [by : Callers \cup {NoOne}, until : LeaseStates]]
  <2>1. \A b \in Bots : (\E r \in active : BotOf[r] = b) =>
           (CHOOSE r \in active : BotOf[r] = b) \in Callers
    BY DEF Init, Callers
  <2> QED
    BY <2>1 DEF Init, Free, LeaseStates
<1>5. \A c \in Callers :
        /\ caller[c] \in Locals
        /\ caller[c].pc \in {"work", "idle"} /\ caller[c].claim = 0 /\ caller[c].old = 0
        /\ caller[c].seen.stamp = 0
        /\ c \in Runs => caller[c].job = "run"
        /\ c \in Managers => caller[c].job \in AllJobs
  <2> SUFFICES ASSUME NEW c \in Callers
               PROVE  /\ caller[c] \in Locals
                      /\ caller[c].pc \in {"work", "idle"} /\ caller[c].claim = 0 /\ caller[c].old = 0
                      /\ caller[c].seen.stamp = 0
                      /\ c \in Runs => caller[c].job = "run"
                      /\ c \in Managers => caller[c].job \in AllJobs
    OBVIOUS
  <2>1. PICK job \in [Managers -> Jobs] :
       caller = [d \in Callers |->
         IF d \in active THEN [Fresh EXCEPT !.pc = "work", !.box = FirstBox]
         ELSE IF d \in Runs THEN Fresh ELSE [Fresh EXCEPT !.job = job[d]]]
    BY DEF Init
  <2>2. active \subseteq Runs
    BY DEF Init
  <2>3. CASE c \in active
    <3>1. caller[c] = [Fresh EXCEPT !.pc = "work", !.box = FirstBox]
      BY <2>1, <2>3
    <3>2. /\ caller[c].job = "run" /\ caller[c].pc = "work" /\ caller[c].claim = 0
          /\ caller[c].old = 0 /\ caller[c].seen.stamp = 0
      BY <3>1 DEF Fresh
    <3>3. caller[c] \in Locals
      BY <3>1, <1>1, FreshType DEF Locals, Places
    <3>4. c \in Runs /\ c \notin Managers
      BY <2>2, <2>3
    <3> QED
      BY <3>2, <3>3, <3>4
  <2>4. CASE c \in Runs \ active
    BY <2>1, <2>2, <2>4, FreshType DEF Fresh
  <2>5. CASE c \notin Runs
    <3>1. c \in Managers /\ job[c] \in AllJobs
      BY <2>5 DEF Callers
    <3>2. caller[c] = [Fresh EXCEPT !.job = job[c]]
      BY <2>1, <2>2, <2>5
    <3>3. /\ caller[c].job = job[c] /\ caller[c].pc = "idle" /\ caller[c].claim = 0
          /\ caller[c].old = 0 /\ caller[c].seen.stamp = 0
      BY <3>2 DEF Fresh
    <3>4. caller[c] \in Locals
      BY <3>1, <3>2, FreshType DEF Locals
    <3> QED
      BY <2>5, <3>1, <3>3, <3>4
  <2> QED
    BY <2>3, <2>4, <2>5
<1>6. caller \in [Callers -> Locals]
  BY <1>5 DEF Init
<1>7. TypeOK
  BY <1>2, <1>3, <1>4, <1>6 DEF Init, TypeOK
<1>8. Bounded
  BY <1>2, <1>5 DEF Bounded, Booters, Suspenders, Callers
<1>9. Readings
  BY <1>2, <1>5 DEF Readings
<1>10. ClaimsDiffer /\ SuspendLocks
  BY <1>2, <1>5 DEF ClaimsDiffer, SuspendLocks, Booters, Suspenders
<1> QED
  BY <1>7, <1>8, <1>9, <1>10 DEF ControlInv

-----------------------------------------------------------------------------
(* The steps, by what they do to the row.  One caller moves at a time. *)

Resting == Places \ (Booters \cup Suspenders \cup {"claim", "suspend"})

Moves(c) == caller' \in [Callers -> Locals] /\ \A d \in Callers \ {c} : caller'[d] = caller[d]

\* Nobody has gone on, and the row says what it said.
Stays ==
  caller' = caller /\ row'.state = row.state /\ row'.ref = row.ref /\ row'.stamp = row.stamp

\* c is where it has nothing to do with the row's future.
Rests(c) ==
  /\ Moves(c) /\ caller'[c].pc \in Resting /\ caller'[c].job = caller[c].job
  /\ caller'[c].old <= row.stamp /\ caller'[c].seen.stamp <= row.stamp

Reads(c) ==
  /\ Moves(c) /\ caller'[c].pc \in {"claim", "suspend"} /\ caller'[c].job = caller[c].job
  /\ caller'[c].seen.state = row.state /\ caller'[c].seen.ref = row.ref
  /\ caller'[c].seen.stamp = row.stamp /\ caller'[c].old <= row.stamp
  /\ caller'[c].pc = "claim" =>
       row.state # "suspending" /\ (row.state = "booting" => caller'[c].old # 0)
  /\ caller'[c].pc = "suspend" /\ caller[c].job # "stop" => row.state # "suspending"

Remembers(c) ==
  /\ Moves(c) /\ caller'[c].job = caller[c].job /\ caller'[c].seen = caller[c].seen
  /\ caller'[c].old <= caller[c].old

BootsOn(c) ==
  /\ Remembers(c) /\ caller[c].pc \in Booters /\ caller'[c].pc \in Booters
  /\ caller'[c].claim = caller[c].claim

SuspendsOn(c) ==
  Remembers(c) /\ caller[c].pc \in Suspenders /\ caller'[c].pc \in Suspenders

Claims(c) ==
  /\ Remembers(c) /\ caller'[c].pc \in Booters /\ caller'[c].claim = row'.stamp
  /\ row.state # "suspending" /\ row'.state = "booting" /\ row'.ref = row.ref
  /\ row'.stamp \in row.stamp .. MaxStamp
  /\ row.state = "booting" => row'.stamp > row.stamp

Locks(c) ==
  /\ Remembers(c) /\ c \in Managers /\ caller'[c].pc \in Suspenders
  /\ row.state # "suspending" /\ row'.state = "suspending"
  /\ row'.stamp = row.stamp + 1 /\ row'.stamp <= MaxStamp

\* The holder of a boot or of the lock writes the row and is done with it.
Writes(c) ==
  /\ Rests(c)
  /\ row.state = "booting" \/ caller[c].pc \in Suspenders
  /\ row'.stamp = row.stamp + 1 /\ row.stamp <= MaxStamp

ControlKinds(c) ==
  \/ row' = row /\ (Rests(c) \/ Reads(c) \/ BootsOn(c) \/ SuspendsOn(c))
  \/ Claims(c) \/ Locks(c) \/ Writes(c)

LEMMA StaysKeeps ==
  ASSUME ControlInv, Stays
  PROVE  Bounded' /\ Readings' /\ ClaimsDiffer' /\ SuspendLocks'
BY DEF ControlInv, Stays, Bounded, Readings, ClaimsDiffer, SuspendLocks

LEMMA RestsKeeps ==
  ASSUME ControlInv, row' \in Rows, NEW c \in Callers, row' = row, Rests(c)
  PROVE  Bounded' /\ Readings' /\ ClaimsDiffer' /\ SuspendLocks'
<1> USE CallersAssumption DEF ControlInv, TypeOK, Rows, Locals, Stamps, Rests, Moves, Rests, Remembers, Resting, Booters, Suspenders, Callers
<1>1. Bounded'
  BY DEF Bounded
<1>2. Readings'
  BY DEF Readings
<1>3. ClaimsDiffer'
  BY DEF ClaimsDiffer
<1>4. SuspendLocks'
  BY DEF SuspendLocks
<1> QED
  BY <1>1, <1>2, <1>3, <1>4

LEMMA ReadsKeeps ==
  ASSUME ControlInv, row' \in Rows, NEW c \in Callers, row' = row, Reads(c)
  PROVE  Bounded' /\ Readings' /\ ClaimsDiffer' /\ SuspendLocks'
<1> USE CallersAssumption DEF ControlInv, TypeOK, Rows, Locals, Stamps, Reads, Moves, Rests, Remembers, Resting, Booters, Suspenders, Callers
<1>1. Bounded'
  BY DEF Bounded
<1>2. Readings'
  BY DEF Readings
<1>3. ClaimsDiffer'
  BY DEF ClaimsDiffer
<1>4. SuspendLocks'
  BY DEF SuspendLocks
<1> QED
  BY <1>1, <1>2, <1>3, <1>4

LEMMA BootsOnKeeps ==
  ASSUME ControlInv, row' \in Rows, NEW c \in Callers, row' = row, BootsOn(c)
  PROVE  Bounded' /\ Readings' /\ ClaimsDiffer' /\ SuspendLocks'
<1> USE CallersAssumption DEF ControlInv, TypeOK, Rows, Locals, Stamps, BootsOn, Moves, Rests, Remembers, Resting, Booters, Suspenders, Callers
<1>1. Bounded'
  BY DEF Bounded
<1>2. Readings'
  BY DEF Readings
<1>3. ClaimsDiffer'
  BY DEF ClaimsDiffer
<1>4. SuspendLocks'
  BY DEF SuspendLocks
<1> QED
  BY <1>1, <1>2, <1>3, <1>4

LEMMA SuspendsOnKeeps ==
  ASSUME ControlInv, row' \in Rows, NEW c \in Callers, row' = row, SuspendsOn(c)
  PROVE  Bounded' /\ Readings' /\ ClaimsDiffer' /\ SuspendLocks'
<1> USE CallersAssumption DEF ControlInv, TypeOK, Rows, Locals, Stamps, SuspendsOn, Moves, Rests, Remembers, Resting, Booters, Suspenders, Callers
<1>1. Bounded'
  BY DEF Bounded
<1>2. Readings'
  BY DEF Readings
<1>3. ClaimsDiffer'
  BY DEF ClaimsDiffer
<1>4. SuspendLocks'
  BY DEF SuspendLocks
<1> QED
  BY <1>1, <1>2, <1>3, <1>4

LEMMA ClaimsKeeps ==
  ASSUME ControlInv, row' \in Rows, NEW c \in Callers, Claims(c)
  PROVE  Bounded' /\ Readings' /\ ClaimsDiffer' /\ SuspendLocks'
<1> USE CallersAssumption DEF ControlInv, TypeOK, Rows, Locals, Stamps, Claims, Moves, Rests, Remembers, Resting, Booters, Suspenders, Callers
<1>1. Bounded'
  BY DEF Bounded
<1>2. Readings'
  BY DEF Readings
<1>3. ClaimsDiffer'
  <2>1. ASSUME NEW d \in Callers \ {c}, caller[d].pc \in Booters
        PROVE  caller[d].claim < row'.stamp
    <3>1. /\ caller[d].claim <= row.stamp
          /\ row.state # "booting" => caller[d].claim < row.stamp
      BY <2>1 DEF ClaimsDiffer
    <3>2. caller[d].claim \in Nat /\ row.stamp \in Nat /\ row'.stamp \in Nat
      OBVIOUS
    <3>3. row'.stamp >= row.stamp /\ (row.state = "booting" => row'.stamp > row.stamp)
      OBVIOUS
    <3>4. CASE row.state = "booting"
      BY <3>1, <3>2, <3>3, <3>4
    <3>5. CASE row.state # "booting"
      BY <3>1, <3>2, <3>3, <3>5
    <3> QED
      BY <3>4, <3>5
  <2>2. caller'[c].claim = row'.stamp /\ row'.state = "booting"
    OBVIOUS
  <2>3. \A d \in Callers \ {c} : caller'[d] = caller[d]
    OBVIOUS
  <2>4. \A d \in Callers : caller'[d].pc \in Booters => caller'[d].claim <= row'.stamp
    BY <2>1, <2>2, <2>3
  <2>5. \A d \in Callers : caller'[d].pc \in Booters /\ caller'[d].claim = row'.stamp => d = c
    BY <2>1, <2>2, <2>3
  <2>6. ASSUME NEW x \in Callers, NEW d \in Callers,
               caller'[x].pc \in Booters, caller'[d].pc \in Booters, caller'[x].claim = caller'[d].claim
        PROVE  x = d
    BY <2>2, <2>3, <2>5, <2>6 DEF ClaimsDiffer
  <2> QED
    BY <2>2, <2>4, <2>6 DEF ClaimsDiffer

<1>4. SuspendLocks'
  BY DEF SuspendLocks
<1> QED
  BY <1>1, <1>2, <1>3, <1>4

LEMMA LocksKeeps ==
  ASSUME ControlInv, row' \in Rows, NEW c \in Callers, Locks(c)
  PROVE  Bounded' /\ Readings' /\ ClaimsDiffer' /\ SuspendLocks'
<1> USE CallersAssumption DEF ControlInv, TypeOK, Rows, Locals, Stamps, Locks, Moves, Rests, Remembers, Resting, Booters, Suspenders, Callers
<1>1. Bounded'
  BY DEF Bounded
<1>2. Readings'
  BY DEF Readings
<1>3. ClaimsDiffer'
  BY DEF ClaimsDiffer
<1>4. SuspendLocks'
  BY DEF SuspendLocks
<1> QED
  BY <1>1, <1>2, <1>3, <1>4

LEMMA WritesKeeps ==
  ASSUME ControlInv, row' \in Rows, NEW c \in Callers, Writes(c)
  PROVE  Bounded' /\ Readings' /\ ClaimsDiffer' /\ SuspendLocks'
<1> USE CallersAssumption DEF ControlInv, TypeOK, Rows, Locals, Stamps, Writes, Moves, Rests, Remembers, Resting, Booters, Suspenders, Callers
<1>1. Bounded'
  BY DEF Bounded, SuspendLocks
<1>2. Readings'
  BY DEF Readings
<1>3. ClaimsDiffer'
  BY DEF ClaimsDiffer
<1>4. SuspendLocks'
  BY DEF SuspendLocks
<1> QED
  BY <1>1, <1>2, <1>3, <1>4

-----------------------------------------------------------------------------
(* What an action leaves of the memory of its caller. *)

Emptied(c, p) ==
  /\ caller'[c].pc = p /\ caller'[c].job = caller[c].job
  /\ caller'[c].seen.stamp = 0 /\ caller'[c].seen.ref = NoBox
  /\ caller'[c].old = 0 /\ caller'[c].box = NoBox /\ caller'[c].fresh = FALSE

Kept(c, p) ==
  /\ caller'[c].pc = p /\ caller'[c].job = caller[c].job
  /\ caller'[c].seen = caller[c].seen /\ caller'[c].old = caller[c].old
  /\ caller'[c].claim = caller[c].claim /\ caller'[c].box = caller[c].box
  /\ caller'[c].fresh = caller[c].fresh /\ caller'[c].lost = caller[c].lost

Saw(c, p) ==
  /\ caller'[c].pc = p /\ caller'[c].job = caller[c].job
  /\ caller'[c].seen.state = row.state /\ caller'[c].seen.ref = row.ref
  /\ caller'[c].seen.stamp = row.stamp /\ caller'[c].old = caller[c].old
  /\ caller'[c].box = caller[c].box /\ caller'[c].fresh = caller[c].fresh

LEMMA Leaves ==
  ASSUME TypeOK, NEW c \in Callers, NEW p \in Places, Leave(c, p)
  PROVE  Moves(c) /\ Emptied(c, p)
<1>1. [Fresh EXCEPT !.pc = p, !.job = Job(c)] \in Locals
  BY FreshType DEF TypeOK, Locals, Job
<1>2. caller'[c] = [Fresh EXCEPT !.pc = p, !.job = Job(c)]
  BY DEF TypeOK, Leave
<1>3. Moves(c)
  BY <1>1 DEF TypeOK, Leave, Moves
<1> QED
  BY <1>2, <1>3 DEF Emptied, Fresh, Job

LEMMA Goes ==
  ASSUME TypeOK, NEW c \in Callers, NEW p \in Places, Goto(c, p)
  PROVE  Moves(c) /\ Kept(c, p)
BY DEF TypeOK, Goto, Moves, Kept, Locals

LEMMA Sees ==
  ASSUME TypeOK, NEW c \in Callers, NEW p \in Places, See(c, p)
  PROVE  Moves(c) /\ Saw(c, p)
<1>1. Snapshot \in [state : RowStates, ref : Boxes \cup {NoBox}, stamp : Stamps]
  BY DEF TypeOK, Rows, Snapshot
<1>2. caller'[c] = [caller[c] EXCEPT !.pc = p, !.seen = Snapshot]
  BY DEF TypeOK, See
<1>3. [caller[c] EXCEPT !.pc = p, !.seen = Snapshot] \in Locals
  <2>1. caller[c] \in Locals
    BY DEF TypeOK
  <2> QED
    BY <1>1, <2>1 DEF Locals
<1>4. Moves(c)
  BY <1>2, <1>3 DEF TypeOK, See, Moves
<1> QED
  BY <1>2, <1>4 DEF Saw, Snapshot, TypeOK, Locals

LEMMA Written ==
  ASSUME TypeOK, row.stamp <= MaxStamp + 1, NEW state \in RowStates, NEW ref \in Boxes \cup {NoBox},
         WriteRow(state, ref)
  PROVE  row' \in Rows /\ row'.state = state /\ row'.ref = ref /\ row'.stamp = row.stamp + 1
BY CallersAssumption DEF TypeOK, Rows, Stamps, WriteRow

-----------------------------------------------------------------------------
(* Every action is one of these steps. *)

LEMMA AskKind ==
  ASSUME ControlInv, NEW r \in Runs, Ask(r)
  PROVE  TypeOK' /\ Stays
BY DEF ControlInv, TypeOK, Ask, Stays

LEMMA BeatKind ==
  ASSUME ControlInv, NEW r \in Runs, Beat(r)
  PROVE  TypeOK' /\ Stays
BY DEF ControlInv, TypeOK, Beat, Stays, LeaseStates, Bots, Callers

LEMMA LapseKind ==
  ASSUME ControlInv, NEW c \in Callers, Lapse(c)
  PROVE  TypeOK' /\ Stays
BY DEF ControlInv, TypeOK, Lapse, Stays, LeaseStates, Mine, Live

LEMMA CancelKind ==
  ASSUME ControlInv, NEW r \in Runs, Cancel(r)
  PROVE  TypeOK' /\ Stays
BY DEF ControlInv, TypeOK, Cancel, Stays, Expire, Free, LeaseStates, Mine

LEMMA LoseSessionKind ==
  ASSUME ControlInv, NEW x \in Boxes, LoseSession(x)
  PROVE  TypeOK' /\ Stays
BY CallersAssumption DEF ControlInv, TypeOK, LoseSession, Stays, Fault

LEMMA AgeKind ==
  ASSUME ControlInv, Age
  PROVE  TypeOK' /\ Stays
BY DEF ControlInv, TypeOK, Rows, Age, Stays

LEMMA AcquireKind ==
  ASSUME ControlInv, NEW c \in Callers, Acquire(c)
  PROVE  TypeOK' /\ ControlKinds(c)
<1>1. PICK p \in {"validate", "survey", "ready"} : Goto(c, p)
  BY DEF Acquire
<1>2. Moves(c) /\ Kept(c, p)
  BY <1>1, Goes DEF ControlInv, Places
<1>3. TypeOK'
  BY <1>2 DEF Acquire, ControlInv, TypeOK, Moves, LeaseStates, Bots, Callers
<1> QED
  BY <1>2, <1>3 DEF Acquire, ControlInv, Readings, ControlKinds, Rests, Kept, Resting, Places, Booters, Suspenders

LEMMA ValidateKind ==
  ASSUME ControlInv, NEW c \in Callers, Validate(c)
  PROVE  TypeOK' /\ ControlKinds(c)
<1>1. Leave(c, "idle") \/ \E p \in {"survey", "ready"} : Goto(c, p)
  BY DEF Validate
<1>2. Moves(c) /\ (Emptied(c, "idle") \/ \E p \in {"survey", "ready"} : Kept(c, p))
  BY <1>1, Goes, Leaves DEF ControlInv, Places
<1>3. lease' \in {lease, Expire(c)} /\ beating' \in {beating, beating \ {c}}
  BY DEF Validate
<1>4. TypeOK'
  BY <1>2, <1>3 DEF Validate, ControlInv, TypeOK, Moves, LeaseStates, Expire, Free
<1> QED
  BY <1>2, <1>4 DEF Validate, ControlInv, TypeOK, Rows, Stamps, Readings, ControlKinds, Rests, Emptied, Kept,
     Resting, Places, Booters, Suspenders

LEMMA FinishKind ==
  ASSUME ControlInv, NEW r \in Runs, Finish(r)
  PROVE  TypeOK' /\ ControlKinds(r)
<1>1. Moves(r) /\ Emptied(r, "release")
  BY Leaves DEF Finish, ControlInv, Places, Callers
<1>2. TypeOK'
  BY <1>1 DEF Finish, ControlInv, TypeOK, Moves
<1> QED
  BY <1>1, <1>2 DEF Finish, ControlInv, TypeOK, Rows, Stamps, ControlKinds, Rests, Emptied, Resting, Places, Booters, Suspenders

LEMMA RecoverKind ==
  ASSUME ControlInv, NEW r \in Runs, Recover(r)
  PROVE  TypeOK' /\ ControlKinds(r)
<1>1. Moves(r) /\ Emptied(r, "ready")
  BY Leaves DEF Recover, ControlInv, Places, Callers
<1>2. TypeOK'
  BY <1>1 DEF Recover, ControlInv, TypeOK, Moves
<1> QED
  BY <1>1, <1>2 DEF Recover, ControlInv, TypeOK, Rows, Stamps, ControlKinds, Rests, Emptied, Resting, Places, Booters, Suspenders

LEMMA GiveBackKind ==
  ASSUME ControlInv, NEW c \in Callers, GiveBack(c)
  PROVE  TypeOK' /\ ControlKinds(c)
<1>1. PICK p \in {"idle", "done"} : Leave(c, p)
  BY DEF GiveBack
<1>2. Moves(c) /\ Emptied(c, p)
  BY <1>1, Leaves DEF ControlInv, Places
<1>3. TypeOK'
  BY <1>2 DEF GiveBack, ControlInv, TypeOK, Moves, Expire, Free, LeaseStates
<1> QED
  BY <1>2, <1>3 DEF GiveBack, ControlInv, TypeOK, Rows, Stamps, ControlKinds, Rests, Emptied, Resting, Places, Booters, Suspenders

LEMMA CrashKind ==
  ASSUME ControlInv, NEW c \in Callers, Crash(c)
  PROVE  TypeOK' /\ ControlKinds(c)
<1>1. PICK p \in {"idle", "done"} : Leave(c, p)
  BY DEF Crash
<1>2. Moves(c) /\ Emptied(c, p)
  BY <1>1, Leaves DEF ControlInv, Places
<1>3. left' \subseteq Boxes
  BY DEF Crash, ControlInv, TypeOK, Locals
<1>4. TypeOK'
  BY <1>2, <1>3, CallersAssumption DEF Crash, ControlInv, TypeOK, Moves, Fault
<1> QED
  BY <1>2, <1>4 DEF Crash, ControlInv, TypeOK, Rows, Stamps, ControlKinds, Rests, Emptied, Resting, Places, Booters, Suspenders

\* Busy leaves the caller at rest.
LEMMA BusyRests ==
  ASSUME ControlInv, NEW c \in Callers, Busy(c)
  PROVE  Rests(c) /\ \E p \in {"ready", "release"} : Emptied(c, p)
<1>1. PICK p \in {"ready", "release"} : Leave(c, p)
  BY DEF Busy
<1>2. Moves(c) /\ Emptied(c, p)
  BY <1>1, Leaves DEF ControlInv, Places
<1> QED
  BY <1>2 DEF ControlInv, TypeOK, Rows, Stamps, Rests, Emptied, Resting, Places, Booters, Suspenders

LEMMA LookKind ==
  ASSUME ControlInv, NEW c \in Callers, Look(c)
  PROVE  TypeOK' /\ ControlKinds(c)
<1>1. UNCHANGED <<scope, row, lease, active, beating, box, left, faults>>
  BY DEF Look
<1>2. CASE row.state = "suspending"
  <2>1. Goto(c, "wait")
    BY <1>2 DEF Look
  <2>2. Moves(c) /\ Kept(c, "wait")
    BY <2>1, Goes DEF ControlInv, Places
  <2> QED
    BY <1>1, <2>2 DEF ControlInv, TypeOK, Moves, Readings, ControlKinds, Rests, Kept, Resting, Places, Booters, Suspenders
<1>3. CASE row.state = "booting" /\ row.aged /\ ~ForeignWorker(c)
  <2>1. caller' = [caller EXCEPT ![c].pc = "wait", ![c].old = row.stamp]
    BY <1>3 DEF Look
  <2>2. /\ Moves(c) /\ caller'[c].pc = "wait" /\ caller'[c].old = row.stamp
        /\ caller'[c].job = caller[c].job /\ caller'[c].seen = caller[c].seen
    <3>1. caller[c] \in Locals /\ row.stamp \in Stamps
      BY DEF ControlInv, TypeOK, Rows
    <3>2. caller'[c] = [caller[c] EXCEPT !.pc = "wait", !.old = row.stamp]
      BY <2>1 DEF ControlInv, TypeOK
    <3>3. [caller[c] EXCEPT !.pc = "wait", !.old = row.stamp] \in Locals
      BY <3>1 DEF Locals, Places
    <3>4. Moves(c)
      BY <2>1, <3>2, <3>3 DEF ControlInv, TypeOK, Moves
    <3> QED
      BY <3>1, <3>2, <3>4 DEF Locals
  <2> QED
    BY <1>1, <2>2 DEF ControlInv, TypeOK, Rows, Stamps, Moves, Readings, ControlKinds, Rests, Resting, Places, Booters, Suspenders
<1>4. CASE row.state = "booting" /\ ~(row.aged /\ ~ForeignWorker(c))
  <2>1. Busy(c)
    BY <1>4 DEF Look
  <2> QED
    BY <1>1, <2>1, BusyRests DEF ControlInv, TypeOK, Moves, ControlKinds, Rests
<1>5. CASE row.state \notin {"suspending", "booting"}
  <2>1. See(c, "claim")
    BY <1>5 DEF Look
  <2>2. Moves(c) /\ Saw(c, "claim")
    BY <2>1, Sees DEF ControlInv, Places
  <2> QED
    BY <1>1, <1>5, <2>2 DEF ControlInv, TypeOK, Moves, Readings, ControlKinds, Reads, Saw
<1> QED
  BY <1>2, <1>3, <1>4, <1>5

LEMMA EndWaitKind ==
  ASSUME ControlInv, NEW c \in Callers, EndWait(c)
  PROVE  TypeOK' /\ ControlKinds(c)
<1>1. UNCHANGED <<scope, row, lease, active, beating, box, left, faults>>
  BY DEF EndWait
<1>2. \/ Busy(c)
      \/ /\ See(c, "claim") /\ row.state # "suspending"
         /\ row.state = "booting" => caller[c].old # 0
  BY DEF EndWait
<1>3. CASE Busy(c)
  BY <1>1, <1>3, BusyRests DEF ControlInv, TypeOK, Moves, ControlKinds, Rests
<1>4. CASE /\ See(c, "claim") /\ row.state # "suspending"
           /\ row.state = "booting" => caller[c].old # 0
  <2>1. Moves(c) /\ Saw(c, "claim")
    BY <1>4, Sees DEF ControlInv, Places
  <2> QED
    BY <1>1, <1>4, <2>1 DEF ControlInv, TypeOK, Moves, Readings, ControlKinds, Reads, Saw
<1> QED
  BY <1>2, <1>3, <1>4

LEMMA ClaimKind ==
  ASSUME ControlInv, NEW c \in Callers, Claim(c)
  PROVE  TypeOK' /\ ControlKinds(c)
<1>1. UNCHANGED <<scope, lease, active, beating, box, left, faults>> /\ At(c, "claim")
  BY DEF Claim
<1>2. CASE Busy(c) /\ UNCHANGED row
  BY <1>1, <1>2, BusyRests DEF ControlInv, TypeOK, Moves, ControlKinds, Rests
<1>3. CASE ~(Busy(c) /\ UNCHANGED row)
  <2>1. MayClaim(c) /\ row.stamp < MaxStamp
    BY <1>3 DEF Claim, InTime
  <2>2. PICK now \in {row.stamp, row.stamp + 1} :
          LET stamp == ClaimStamp(now, Observed(c)) IN
          /\ row' = [state |-> "booting", ref |-> row.ref, stamp |-> stamp, aged |-> FALSE]
          /\ caller' = [caller EXCEPT ![c].pc = "provision", ![c].claim = stamp, ![c].old = 0]
    BY <1>3, Zenon DEF Claim
  <2> DEFINE stamp == ClaimStamp(now, Observed(c))
  <2>3. row.stamp \in Nat /\ Observed(c) \in Nat /\ Observed(c) <= row.stamp
    BY <1>1 DEF ControlInv, TypeOK, Rows, Locals, Stamps, Readings, Observed, At
  <2>4. stamp \in row.stamp .. row.stamp + 1
    BY <2>3 DEF ClaimStamp
  <2>5. stamp \in Stamps /\ stamp <= MaxStamp
    BY <2>1, <2>3, <2>4, CallersAssumption DEF Stamps
  <2>6. row.state = "booting" => stamp > row.stamp
    <3>1. row.state = "booting" => Observed(c) = row.stamp
      BY <2>1, <1>1 DEF MayClaim, Observed, ControlInv, Readings, At
    <3> QED
      BY <2>3, <3>1 DEF ClaimStamp
  <2>7. row.state # "suspending"
    BY <2>1, <1>1 DEF MayClaim, ControlInv, Readings, At
  <2> HIDE DEF stamp
  <2>8. row' = [state |-> "booting", ref |-> row.ref, stamp |-> stamp, aged |-> FALSE]
    BY <2>2 DEF stamp
  <2>9. caller' = [caller EXCEPT ![c].pc = "provision", ![c].claim = stamp, ![c].old = 0]
    BY <2>2 DEF stamp
  <2>10. row' \in Rows
    BY <2>5, <2>8 DEF ControlInv, TypeOK, Rows, RowStates
  <2>11. /\ Moves(c) /\ caller'[c].pc = "provision" /\ caller'[c].claim = stamp
         /\ caller'[c].old = 0 /\ caller'[c].job = caller[c].job /\ caller'[c].seen = caller[c].seen
    <3>1. caller[c] \in Locals /\ 0 \in Stamps
      BY CallersAssumption DEF ControlInv, TypeOK, Stamps
    <3>2. caller'[c] = [caller[c] EXCEPT !.pc = "provision", !.claim = stamp, !.old = 0]
      BY <2>9 DEF ControlInv, TypeOK
    <3>3. [caller[c] EXCEPT !.pc = "provision", !.claim = stamp, !.old = 0] \in Locals
      BY <2>5, <3>1 DEF Locals, Places
    <3>4. Moves(c)
      BY <2>9, <3>2, <3>3 DEF ControlInv, TypeOK, Moves
    <3> QED
      BY <3>1, <3>2, <3>4 DEF Locals
  <2>12. TypeOK'
    BY <1>1, <2>10, <2>11 DEF ControlInv, TypeOK, Moves
  <2>13. Claims(c)
    BY <2>3, <2>4, <2>5, <2>6, <2>7, <2>8, <2>11, CallersAssumption
    DEF ControlInv, TypeOK, Locals, Stamps, Claims, Remembers, Booters
  <2> QED
    BY <2>12, <2>13 DEF ControlKinds
<1> QED
  BY <1>2, <1>3

\* What provisioning makes of the caller: the sandbox it is given, or its failure.
LEMMA ProvisionMoves ==
  ASSUME ControlInv, NEW c \in Callers, Provision(c)
  PROVE  /\ Moves(c) /\ caller'[c].job = caller[c].job /\ caller'[c].seen = caller[c].seen
         /\ caller'[c].old = caller[c].old /\ caller'[c].claim = caller[c].claim
         /\ \/ /\ Usable(caller[c].seen.ref) /\ box' = [box EXCEPT ![caller[c].seen.ref] = "running"]
               /\ caller'[c].pc = "setup" /\ caller'[c].box = caller[c].seen.ref
               /\ caller'[c].fresh = caller[c].fresh /\ UNCHANGED faults
            \/ /\ ~Usable(caller[c].seen.ref) /\ NextBox \in Boxes /\ box[NextBox] = "unused"
               /\ box' = [box EXCEPT ![NextBox] = "running"]
               /\ caller'[c].pc = "setup" /\ caller'[c].box = NextBox /\ caller'[c].fresh
               /\ UNCHANGED faults
            \/ /\ Fault /\ UNCHANGED box /\ caller'[c].pc = "record" /\ caller'[c].lost = "error"
               /\ caller'[c].box = caller[c].box /\ caller'[c].fresh = caller[c].fresh
<1>1. caller[c] \in Locals /\ caller \in [Callers -> Locals]
  BY DEF ControlInv, TypeOK
<1>2. CASE /\ Usable(caller[c].seen.ref)
           /\ box' = [box EXCEPT ![caller[c].seen.ref] = "running"]
           /\ caller' = [caller EXCEPT ![c].pc = "setup", ![c].box = caller[c].seen.ref]
           /\ UNCHANGED faults
  <2>1. caller'[c] = [caller[c] EXCEPT !.pc = "setup", !.box = caller[c].seen.ref]
    BY <1>1, <1>2
  <2>2. caller'[c] \in Locals
    BY <1>1, <2>1 DEF Locals, Places
  <2>3. Moves(c)
    BY <1>1, <1>2, <2>1, <2>2 DEF Moves
  <2> QED
    BY <1>1, <1>2, <2>1, <2>3 DEF Locals
<1>3. CASE /\ ~Usable(caller[c].seen.ref)
           /\ \E x \in Boxes : box[x] = "unused"
           /\ box' = [box EXCEPT ![NextBox] = "running"]
           /\ caller' = [caller EXCEPT ![c].pc = "setup", ![c].box = NextBox, ![c].fresh = TRUE]
           /\ UNCHANGED faults
  <2>1. caller'[c] = [caller[c] EXCEPT !.pc = "setup", !.box = NextBox, !.fresh = TRUE]
    BY <1>1, <1>3
  <2>2. NextBox \in Boxes /\ box[NextBox] = "unused"
    BY <1>3 DEF NextBox
  <2>3. caller'[c] \in Locals
    BY <1>1, <2>1, <2>2 DEF Locals, Places
  <2>4. Moves(c)
    BY <1>1, <1>3, <2>1, <2>3 DEF Moves
  <2> QED
    BY <1>1, <1>3, <2>1, <2>2, <2>4 DEF Locals
<1>4. CASE /\ Fault
           /\ caller' = [caller EXCEPT ![c].pc = "record", ![c].lost = "error"]
           /\ UNCHANGED box
  <2>1. caller'[c] = [caller[c] EXCEPT !.pc = "record", !.lost = "error"]
    BY <1>1, <1>4
  <2>2. caller'[c] \in Locals
    BY <1>1, <2>1 DEF Locals, Places
  <2>3. Moves(c)
    BY <1>1, <1>4, <2>1, <2>2 DEF Moves
  <2> QED
    BY <1>1, <1>4, <2>1, <2>3 DEF Locals
<1> QED
  BY <1>2, <1>3, <1>4, Zenon DEF Provision

LEMMA ProvisionKind ==
  ASSUME ControlInv, NEW c \in Callers, Provision(c)
  PROVE  TypeOK' /\ ControlKinds(c)
<1>1. UNCHANGED <<scope, row, lease, active, beating, left>> /\ caller[c].pc = "provision"
  BY DEF Provision, At
<1>2. box' \in [Boxes -> {"unused", "running", "stopped", "lost", "gone"}] /\ faults' \in 0 .. MaxFaults
  BY ProvisionMoves, CallersAssumption DEF ControlInv, TypeOK, Fault
<1>3. TypeOK'
  BY <1>1, <1>2, ProvisionMoves DEF ControlInv, TypeOK, Moves
<1>4. BootsOn(c)
  BY <1>1, ProvisionMoves DEF ControlInv, TypeOK, Locals, Stamps, BootsOn, Remembers, Booters
<1> QED
  BY <1>1, <1>3, <1>4 DEF ControlKinds

\* What the end of a boot makes of the caller: it is at work or done, or has failed.
LEMMA ActivateMoves ==
  ASSUME ControlInv, NEW c \in Callers, Activate(c)
  PROVE  /\ Moves(c) /\ caller'[c].job = caller[c].job
         /\ \/ /\ Holds(c) /\ WriteRow("running", caller[c].box) /\ UNCHANGED faults
               /\ caller'[c].pc = IF c \in Runs THEN "work" ELSE "release"
               /\ caller'[c].box = caller[c].box /\ caller'[c].old = 0
               /\ caller'[c].seen.stamp = 0 /\ caller'[c].seen.ref = NoBox
            \/ /\ UNCHANGED row /\ faults' \in 0 .. MaxFaults
               /\ caller'[c].pc = IF OwnsBox(c) THEN "rollback" ELSE "record"
               /\ caller'[c].seen = caller[c].seen /\ caller'[c].old = caller[c].old
               /\ caller'[c].claim = caller[c].claim /\ caller'[c].box = caller[c].box
               /\ caller'[c].fresh = caller[c].fresh /\ caller'[c].lost # "stuck"
<1>1. caller[c] \in Locals /\ caller \in [Callers -> Locals]
  BY DEF ControlInv, TypeOK
<1> DEFINE done == [Fresh EXCEPT !.pc = IF c \in Runs THEN "work" ELSE "release",
                                 !.job = Job(c), !.box = caller[c].box]
           failed(why) == [caller[c] EXCEPT !.pc = IF OwnsBox(c) THEN "rollback" ELSE "record", !.lost = why]
<1>2. CASE /\ Holds(c)
           /\ WriteRow("running", caller[c].box)
           /\ caller' = [caller EXCEPT ![c] = done]
           /\ UNCHANGED faults
  <2>1. caller'[c] = done
    BY <1>1, <1>2
  <2>2. done \in Locals
    BY <1>1, FreshType DEF Locals, Places, Job
  <2>3. Moves(c)
    BY <1>1, <1>2, <2>1, <2>2 DEF Moves
  <2>4. /\ done.pc = (IF c \in Runs THEN "work" ELSE "release") /\ done.box = caller[c].box
        /\ done.job = caller[c].job /\ done.old = 0 /\ done.seen.stamp = 0 /\ done.seen.ref = NoBox
    BY DEF Fresh, Job
  <2> QED
    BY <1>2, <2>1, <2>3, <2>4
<1>3. ASSUME NEW why \in {"busy", "error"}, UNCHANGED row, faults' \in 0 .. MaxFaults,
             caller' = [caller EXCEPT ![c].pc = IF OwnsBox(c) THEN "rollback" ELSE "record", ![c].lost = why]
      PROVE  /\ Moves(c) /\ caller'[c].job = caller[c].job
             /\ UNCHANGED row /\ faults' \in 0 .. MaxFaults
             /\ caller'[c].pc = IF OwnsBox(c) THEN "rollback" ELSE "record"
             /\ caller'[c].seen = caller[c].seen /\ caller'[c].old = caller[c].old
             /\ caller'[c].claim = caller[c].claim /\ caller'[c].box = caller[c].box
             /\ caller'[c].fresh = caller[c].fresh /\ caller'[c].lost # "stuck"
  <2>1. caller'[c] = failed(why)
    BY <1>1, <1>3
  <2>2. failed(why) \in Locals
    BY <1>1 DEF Locals, Places
  <2>3. Moves(c)
    BY <1>1, <1>3, <2>1, <2>2 DEF Moves
  <2> QED
    BY <1>1, <1>3, <2>1, <2>3 DEF Locals
<1>4. \/ /\ Holds(c)
         /\ WriteRow("running", caller[c].box)
         /\ caller' = [caller EXCEPT ![c] = done]
         /\ UNCHANGED faults
      \/ \E why \in {"busy", "error"} :
           /\ UNCHANGED row /\ faults' \in {faults, faults + 1} /\ (faults' = faults \/ Fault)
           /\ caller' = [caller EXCEPT ![c].pc = IF OwnsBox(c) THEN "rollback" ELSE "record", ![c].lost = why]
  BY DEF Activate, Fault
<1>5. (faults' = faults \/ Fault) => faults' \in 0 .. MaxFaults
  BY CallersAssumption DEF ControlInv, TypeOK, Fault
<1> HIDE DEF done
<1> QED
  BY <1>2, <1>3, <1>4, <1>5

LEMMA ActivateKind ==
  ASSUME ControlInv, NEW c \in Callers, Activate(c)
  PROVE  TypeOK' /\ ControlKinds(c)
<1>1. UNCHANGED <<scope, lease, active, beating, box, left>> /\ caller[c].pc = "setup"
  BY DEF Activate, At
<1>2. CASE Holds(c) /\ WriteRow("running", caller[c].box) /\ UNCHANGED faults
           /\ caller'[c].pc = (IF c \in Runs THEN "work" ELSE "release")
           /\ caller'[c].old = 0 /\ caller'[c].seen.stamp = 0
  <2>1. row.stamp <= MaxStamp /\ row.stamp \in Nat /\ row.state = "booting"
    BY <1>1, <1>2 DEF ControlInv, TypeOK, Rows, Stamps, Bounded, Booters, Holds
  <2>2. row' \in Rows /\ row'.stamp = row.stamp + 1
    <3>1. caller[c].box \in Boxes \cup {NoBox} /\ "running" \in RowStates
      BY DEF ControlInv, TypeOK, Locals, RowStates
    <3> QED
      BY <1>2, <3>1, Written DEF ControlInv, Bounded
  <2>3. TypeOK'
    BY <1>1, <1>2, <2>2, ActivateMoves DEF ControlInv, TypeOK, Moves
  <2>4. Writes(c)
    BY <1>2, <2>1, <2>2, ActivateMoves DEF Writes, Rests, Resting, Places, Booters, Suspenders
  <2> QED
    BY <2>3, <2>4 DEF ControlKinds
<1>3. CASE /\ UNCHANGED row /\ faults' \in 0 .. MaxFaults
           /\ caller'[c].pc = IF OwnsBox(c) THEN "rollback" ELSE "record"
           /\ caller'[c].seen = caller[c].seen /\ caller'[c].old = caller[c].old
           /\ caller'[c].claim = caller[c].claim
  <2>1. TypeOK'
    BY <1>1, <1>3, ActivateMoves DEF ControlInv, TypeOK, Moves
  <2>2. BootsOn(c)
    BY <1>1, <1>3, ActivateMoves DEF ControlInv, TypeOK, Locals, Stamps, BootsOn, Remembers, Booters
  <2> QED
    BY <1>3, <2>1, <2>2 DEF ControlKinds
<1> QED
  BY <1>2, <1>3, ActivateMoves

\* What a rollback makes of the caller and of its sandbox.
LEMMA RollbackMoves ==
  ASSUME ControlInv, NEW c \in Callers, Rollback(c)
  PROVE  /\ Moves(c) /\ caller'[c].pc = "record" /\ caller'[c].job = caller[c].job
         /\ caller'[c].seen = caller[c].seen /\ caller'[c].old = caller[c].old
         /\ caller'[c].claim = caller[c].claim /\ caller'[c].box = caller[c].box
         /\ caller'[c].fresh = caller[c].fresh
         /\ \/ box' = (IF caller[c].fresh THEN Destroyed(caller[c].box) ELSE Stopped(caller[c].box))
            \/ ~caller[c].fresh /\ box' = Destroyed(caller[c].box)
            \/ UNCHANGED box /\ caller'[c].lost = "stuck"
         /\ faults' \in 0 .. MaxFaults
<1>1. caller[c] \in Locals /\ caller \in [Callers -> Locals]
  BY DEF ControlInv, TypeOK
<1>2. faults' \in 0 .. MaxFaults
  BY CallersAssumption DEF ControlInv, TypeOK, Rollback, Fault
<1>3. CASE Goto(c, "record")
  <2>1. Moves(c) /\ Kept(c, "record")
    BY <1>3, Goes DEF ControlInv, Places
  <2>2. \/ box' = (IF caller[c].fresh THEN Destroyed(caller[c].box) ELSE Stopped(caller[c].box))
        \/ ~caller[c].fresh /\ box' = Destroyed(caller[c].box)
        \/ UNCHANGED box /\ caller'[c].lost = "stuck"
    <3>1. caller' = [caller EXCEPT ![c].pc = "record", ![c].lost = "stuck"] => caller'[c].lost = "stuck"
      BY <1>1
    <3> QED
      BY <3>1 DEF Rollback
  <2> QED
    BY <1>2, <2>1, <2>2 DEF Kept
<1>4. CASE caller' = [caller EXCEPT ![c].pc = "record", ![c].lost = "stuck"] /\ UNCHANGED box
  <2>1. caller'[c] = [caller[c] EXCEPT !.pc = "record", !.lost = "stuck"]
    BY <1>1, <1>4
  <2>2. caller'[c] \in Locals
    BY <1>1, <2>1 DEF Locals, Places
  <2>3. Moves(c)
    BY <1>1, <1>4, <2>1, <2>2 DEF Moves
  <2> QED
    BY <1>1, <1>2, <1>4, <2>1, <2>3 DEF Locals
<1> QED
  BY <1>3, <1>4 DEF Rollback

LEMMA RollbackKind ==
  ASSUME ControlInv, NEW c \in Callers, Rollback(c)
  PROVE  TypeOK' /\ ControlKinds(c)
<1>1. UNCHANGED <<scope, row, lease, active, beating, left>> /\ caller[c].pc = "rollback"
  BY DEF Rollback, At
<1>2. box' \in [Boxes -> {"unused", "running", "stopped", "lost", "gone"}]
  BY RollbackMoves DEF ControlInv, TypeOK, Destroyed, Stopped
<1>3. TypeOK'
  BY <1>1, <1>2, RollbackMoves DEF ControlInv, TypeOK, Moves
<1>4. BootsOn(c)
  BY <1>1, RollbackMoves DEF ControlInv, TypeOK, Locals, Stamps, BootsOn, Remembers, Booters
<1> QED
  BY <1>1, <1>3, <1>4 DEF ControlKinds

LEMMA RecordKind ==
  ASSUME ControlInv, NEW c \in Callers, Record(c),
         caller[c].lost = "stuck" => caller[c].box # NoBox
  PROVE  TypeOK' /\ ControlKinds(c)
<1>1. UNCHANGED <<scope, lease, active, beating, box, faults>> /\ caller[c].pc = "record"
  BY DEF Record, At
<1>2. PICK p \in {"ready", "release"} : Leave(c, p)
  BY DEF Record
<1>3. Moves(c) /\ Emptied(c, p)
  BY <1>2, Leaves DEF ControlInv, Places
<1>4. left' \subseteq Boxes
  BY DEF Record, ControlInv, TypeOK, Locals
<1>5. Rests(c)
  BY <1>3 DEF ControlInv, TypeOK, Rows, Stamps, Rests, Emptied, Resting, Places, Booters, Suspenders
<1>6. CASE Holds(c)
  <2>1. PICK state \in {"running", "error"}, ref \in {caller[c].box, row.ref} : WriteRow(state, ref)
    BY <1>6 DEF Record
  <2>2. row.stamp <= MaxStamp /\ row.stamp \in Nat /\ row.state = "booting"
    BY <1>1, <1>6 DEF ControlInv, TypeOK, Rows, Stamps, Bounded, Booters, Holds
  <2>3. state \in RowStates /\ ref \in Boxes \cup {NoBox}
    BY DEF ControlInv, TypeOK, Rows, Locals, RowStates
  <2>4. row' \in Rows /\ row'.stamp = row.stamp + 1
    BY <2>1, <2>3, Written DEF ControlInv, Bounded
  <2> QED
    BY <1>1, <1>3, <1>4, <1>5, <2>2, <2>4 DEF ControlInv, TypeOK, Moves, ControlKinds, Writes
<1>7. CASE ~Holds(c)
  <2>1. UNCHANGED row
    BY <1>7 DEF Record
  <2> QED
    BY <1>1, <1>3, <1>4, <1>5, <2>1 DEF ControlInv, TypeOK, Moves, ControlKinds
<1> QED
  BY <1>6, <1>7

\* A manager that is refused is at rest.
LEMMA RefusedRests ==
  ASSUME ControlInv, NEW m \in Managers, Refused(m)
  PROVE  Rests(m) /\ \E p \in {"idle", "done", "release"} : Emptied(m, p)
<1>1. PICK p \in {"idle", "done", "release"} : Leave(m, p)
  BY DEF Refused
<1>2. Moves(m) /\ Emptied(m, p)
  BY <1>1, Leaves DEF ControlInv, Places, Callers
<1> QED
  BY <1>2 DEF ControlInv, TypeOK, Rows, Stamps, Rests, Emptied, Resting, Places, Booters, Suspenders

LEMMA SurveyKind ==
  ASSUME ControlInv, NEW m \in Managers, Survey(m)
  PROVE  TypeOK' /\ ControlKinds(m)
<1>1. UNCHANGED <<scope, row, lease, active, beating, box, left, faults>> /\ m \in Callers
  BY DEF Survey, Callers
<1>2. \/ Busy(m)
      \/ See(m, "suspend") /\ (caller[m].job # "stop" => row.state # "suspending")
  BY DEF Survey, Job
<1>3. CASE Busy(m)
  BY <1>1, <1>3, BusyRests DEF ControlInv, TypeOK, Moves, ControlKinds, Rests
<1>4. CASE See(m, "suspend") /\ (caller[m].job # "stop" => row.state # "suspending")
  <2>1. Moves(m) /\ Saw(m, "suspend")
    BY <1>1, <1>4, Sees DEF ControlInv, Places
  <2> QED
    BY <1>1, <1>4, <2>1 DEF ControlInv, TypeOK, Moves, Readings, ControlKinds, Reads, Saw
<1> QED
  BY <1>2, <1>3, <1>4

LEMMA SuspendKind ==
  ASSUME ControlInv, NEW m \in Managers, Suspend(m)
  PROVE  TypeOK' /\ ControlKinds(m)
<1>1. UNCHANGED <<scope, lease, active, beating, box, left, faults>> /\ caller[m].pc = "suspend" /\ m \in Callers
  BY DEF Suspend, Callers, At
<1>2. CASE Refused(m) /\ UNCHANGED row
  BY <1>1, <1>2, RefusedRests DEF ControlInv, TypeOK, Moves, ControlKinds, Rests
<1>3. CASE MaySuspend(m) /\ InTime /\ WriteRow("suspending", row.ref) /\ Goto(m, "recheck")
  <2>1. Moves(m) /\ Kept(m, "recheck")
    BY <1>1, <1>3, Goes DEF ControlInv, Places
  <2>2. row.stamp < MaxStamp /\ row.stamp \in Nat /\ row.ref \in Boxes \cup {NoBox} /\ "suspending" \in RowStates
    BY <1>3 DEF InTime, ControlInv, TypeOK, Rows, Stamps, RowStates
  <2>3. row' \in Rows /\ row'.state = "suspending" /\ row'.stamp = row.stamp + 1 /\ row'.ref = row.ref
    BY <1>3, <2>2, Written DEF ControlInv, Bounded
  <2>4. row.state # "suspending"
    <3>1. caller[m].job # "stop" => caller[m].seen.state # "suspending"
      BY <1>1 DEF ControlInv, Readings
    <3>2. caller[m].job # "stop" => row.state = caller[m].seen.state
      BY <1>3 DEF MaySuspend, Job, Snapshot
    <3>3. caller[m].job = "stop" => row.state # "suspending"
      BY <1>3 DEF MaySuspend, Job
    <3> QED
      BY <3>1, <3>2, <3>3
  <2>5. TypeOK'
    BY <1>1, <2>1, <2>3 DEF ControlInv, TypeOK, Moves
  <2>6. Locks(m)
    BY <1>1, <2>1, <2>2, <2>3, <2>4, CallersAssumption
    DEF Locks, Remembers, Kept, Suspenders, ControlInv, TypeOK, Locals, Stamps
  <2> QED
    BY <2>5, <2>6 DEF ControlKinds
<1> QED
  BY <1>2, <1>3 DEF Suspend

LEMMA RecheckKind ==
  ASSUME ControlInv, NEW m \in Managers, Recheck(m)
  PROVE  TypeOK' /\ ControlKinds(m)
<1>1. UNCHANGED <<scope, active, beating, box, left, faults>> /\ caller[m].pc = "recheck" /\ m \in Callers
  BY DEF Recheck, Callers, At
<1>2. row.state = "suspending" /\ row.stamp <= MaxStamp /\ row.stamp \in Nat
  BY <1>1 DEF ControlInv, SuspendLocks, Bounded, Suspenders, TypeOK, Rows, Stamps
<1>3. CASE InTheWay(m) # {}
  <2>1. WriteRow(caller[m].seen.state, row.ref) /\ Refused(m) /\ UNCHANGED lease
    BY <1>2, <1>3 DEF Recheck
  <2>2. caller[m].seen.state \in RowStates /\ row.ref \in Boxes \cup {NoBox}
    BY <1>1 DEF ControlInv, TypeOK, Rows, Locals
  <2>3. row' \in Rows /\ row'.stamp = row.stamp + 1
    BY <2>1, <2>2, Written DEF ControlInv, Bounded
  <2> QED
    BY <1>1, <1>2, <2>1, <2>3, RefusedRests
    DEF ControlInv, TypeOK, Rests, Moves, ControlKinds, Writes, Suspenders
<1>4. CASE InTheWay(m) = {}
  <2>1. Goto(m, "halt") /\ UNCHANGED row
    BY <1>4 DEF Recheck
  <2>2. Moves(m) /\ Kept(m, "halt")
    BY <1>1, <2>1, Goes DEF ControlInv, Places
  <2>3. lease' = (IF Job(m) = "stop" THEN [lease EXCEPT ![BotOf[m]] = Free] ELSE lease)
    BY <1>4 DEF Recheck
  <2>4. lease' \in [Bots -> [by : Callers \cup {NoOne}, until : LeaseStates]]
    BY <2>3 DEF ControlInv, TypeOK, Free, LeaseStates
  <2>5. TypeOK'
    BY <1>1, <2>1, <2>2, <2>4 DEF ControlInv, TypeOK, Moves
  <2>6. SuspendsOn(m)
    BY <1>1, <2>2 DEF SuspendsOn, Remembers, Kept, Suspenders, ControlInv, TypeOK, Locals, Stamps
  <2> QED
    BY <2>1, <2>5, <2>6 DEF ControlKinds
<1> QED
  BY <1>3, <1>4

LEMMA HaltKind ==
  ASSUME ControlInv, NEW m \in Managers, Halt(m)
  PROVE  TypeOK' /\ ControlKinds(m)
<1>1. UNCHANGED <<scope, lease, active, beating, left>> /\ caller[m].pc = "halt" /\ m \in Callers
  BY DEF Halt, Callers, At
<1>2. row.state = "suspending" /\ row.stamp <= MaxStamp /\ row.stamp \in Nat
  BY <1>1 DEF ControlInv, SuspendLocks, Bounded, Suspenders, TypeOK, Rows, Stamps
<1>3. faults' \in 0 .. MaxFaults /\ box' \in [Boxes -> {"unused", "running", "stopped", "lost", "gone"}]
  BY CallersAssumption DEF Halt, Fault, ControlInv, TypeOK, Destroyed, Stopped
<1>4. CASE Goto(m, "settle") /\ UNCHANGED row
  <2>1. Moves(m) /\ Kept(m, "settle")
    BY <1>1, <1>4, Goes DEF ControlInv, Places
  <2>2. TypeOK'
    BY <1>1, <1>3, <1>4, <2>1 DEF ControlInv, TypeOK, Moves
  <2>3. SuspendsOn(m)
    BY <1>1, <2>1 DEF SuspendsOn, Remembers, Kept, Suspenders, ControlInv, TypeOK, Locals, Stamps
  <2> QED
    BY <1>4, <2>2, <2>3 DEF ControlKinds
<1>5. CASE \E state \in {"running", "error"}, p \in {"release", "done"} :
             WriteRow(state, row.ref) /\ Leave(m, p)
  <2>1. PICK state \in {"running", "error"}, p \in {"release", "done"} :
             WriteRow(state, row.ref) /\ Leave(m, p)
    BY <1>5
  <2>2. state \in RowStates /\ row.ref \in Boxes \cup {NoBox} /\ p \in Places
    BY DEF ControlInv, TypeOK, Rows, RowStates, Places
  <2>3. row' \in Rows /\ row'.stamp = row.stamp + 1
    BY <2>1, <2>2, Written DEF ControlInv, Bounded
  <2>4. Moves(m) /\ Emptied(m, p)
    BY <1>1, <2>1, <2>2, Leaves DEF ControlInv
  <2>5. TypeOK'
    BY <1>1, <1>3, <2>3, <2>4 DEF ControlInv, TypeOK, Moves
  <2>6. Writes(m)
    BY <1>1, <1>2, <2>3, <2>4 DEF Writes, Rests, Emptied, Resting, Places, Booters, Suspenders
  <2> QED
    BY <2>5, <2>6 DEF ControlKinds
<1>6. \/ Goto(m, "settle") /\ UNCHANGED row
      \/ WriteRow(IF Job(m) = "sleep" THEN "running" ELSE "error", row.ref)
         /\ Leave(m, IF Job(m) = "replace" THEN "release" ELSE "done")
  BY DEF Halt
<1> QED
  BY <1>4, <1>5, <1>6

LEMMA SettleKind ==
  ASSUME ControlInv, NEW m \in Managers, Settle(m)
  PROVE  TypeOK' /\ ControlKinds(m)
<1>1. UNCHANGED <<scope, lease, active, beating, box, faults>> /\ caller[m].pc = "settle" /\ m \in Callers
  BY DEF Settle, Callers, At
<1>2. row.state = "suspending" /\ row.stamp <= MaxStamp /\ row.stamp \in Nat
  BY <1>1 DEF ControlInv, SuspendLocks, Bounded, Suspenders, TypeOK, Rows, Stamps
<1>3. left' \subseteq Boxes
  BY DEF Settle, ControlInv, TypeOK, Rows
<1>4. PICK p \in {"ready", "done"} : Leave(m, p)
  BY DEF Settle
<1>5. Moves(m) /\ Emptied(m, p)
  BY <1>1, <1>4, Leaves DEF ControlInv, Places
<1>6. PICK state \in {"suspended", "stopped"}, ref \in {row.ref, NoBox} : WriteRow(state, ref)
  BY DEF Settle
<1>7. state \in RowStates /\ ref \in Boxes \cup {NoBox}
  BY DEF ControlInv, TypeOK, Rows, RowStates
<1>8. row' \in Rows /\ row'.stamp = row.stamp + 1
  BY <1>6, <1>7, Written DEF ControlInv, Bounded
<1>9. TypeOK'
  BY <1>1, <1>3, <1>5, <1>8 DEF ControlInv, TypeOK, Moves
<1>10. Writes(m)
  BY <1>1, <1>2, <1>5, <1>8 DEF Writes, Rests, Emptied, Resting, Places, Booters, Suspenders
<1> QED
  BY <1>9, <1>10 DEF ControlKinds

-----------------------------------------------------------------------------
(* The sandboxes *)

Handy == {"setup", "rollback", "record"}

\* No sandbox that is dead or let go is used again.
Spent(x) == x = NoBox \/ x \in left \/ box[x] \in Dead

\* What a caller has in its hands: a fresh sandbox replaces one that is dead.
HandsOf(c) ==
  /\ caller[c].pc \notin Handy \cup {"work", "release"} => caller[c].box = NoBox /\ ~caller[c].fresh
  /\ caller[c].pc \in {"setup", "rollback", "work"} => caller[c].box # NoBox
  /\ caller[c].pc = "record" /\ caller[c].lost = "stuck" => caller[c].box # NoBox
  /\ caller[c].pc \in Handy /\ caller[c].box # NoBox =>
       IF caller[c].fresh THEN caller[c].seen.ref = NoBox \/ box[caller[c].seen.ref] \in Dead
       ELSE caller[c].box = caller[c].seen.ref
  /\ caller[c].pc = "record" /\ caller[c].fresh /\ caller[c].lost # "stuck" =>
       caller[c].box = NoBox \/ box[caller[c].box] \in Dead

\* What anybody has heard of was allocated.
AllocatedTo(c) ==
  /\ caller[c].seen.ref # NoBox => box[caller[c].seen.ref] # "unused"
  /\ caller[c].box # NoBox => box[caller[c].box] # "unused"

\* The sandbox a boot went by is still the one of the row, or nobody's any more.
KeepsRef(c) ==
  caller[c].pc \in Booters => caller[c].seen.ref = row.ref \/ Spent(caller[c].seen.ref)

\* Who works, works on the sandbox of the row, or on one that is dead.
WorksOnRow(r) == caller[r].pc = "work" => caller[r].box = row.ref \/ box[caller[r].box] \in Dead

BoxInv ==
  /\ row.ref # NoBox => box[row.ref] # "unused"
  /\ \A c \in Callers : HandsOf(c) /\ AllocatedTo(c) /\ KeepsRef(c)
  /\ \A r \in active : WorksOnRow(r)
  /\ NoSandboxLost

LEMMA BoxesStart == Init => BoxInv
<1> SUFFICES ASSUME Init PROVE BoxInv
  OBVIOUS
<1>1. FirstBox \in Boxes /\ row.ref = FirstBox /\ row.state \in {"running", "stopped"}
  BY CallersAssumption DEF Init, FirstBox
<1>2. /\ box = [x \in Boxes |-> IF x # row.ref THEN "unused"
                             ELSE IF row.state = "running" THEN "running" ELSE "stopped"]
      /\ left = {} /\ active \subseteq Runs
  BY DEF Init
<1>3. \A c \in Callers :
        /\ caller[c].seen.ref = NoBox /\ ~caller[c].fresh
        /\ \/ caller[c].pc = "idle" /\ caller[c].box = NoBox
           \/ caller[c].pc = "work" /\ caller[c].box = FirstBox
  <2>1. PICK job \in [Managers -> Jobs] :
       caller = [d \in Callers |->
         IF d \in active THEN [Fresh EXCEPT !.pc = "work", !.box = FirstBox]
         ELSE IF d \in Runs THEN Fresh ELSE [Fresh EXCEPT !.job = job[d]]]
    BY DEF Init
  <2> SUFFICES ASSUME NEW c \in Callers
               PROVE  /\ caller[c].seen.ref = NoBox /\ ~caller[c].fresh
                      /\ \/ caller[c].pc = "idle" /\ caller[c].box = NoBox
                         \/ caller[c].pc = "work" /\ caller[c].box = FirstBox
    OBVIOUS
  <2>2. CASE c \in active
    <3>1. caller[c] = [Fresh EXCEPT !.pc = "work", !.box = FirstBox]
      BY <2>1, <2>2
    <3> QED
      BY <3>1 DEF Fresh
  <2>3. CASE c \in Runs \ active
    BY <2>1, <2>3 DEF Fresh
  <2>4. CASE c \notin Runs /\ c \notin active
    <3>1. caller[c] = [Fresh EXCEPT !.job = job[c]]
      BY <2>1, <2>4
    <3> QED
      BY <3>1 DEF Fresh
  <2> QED
    BY <1>2, <2>2, <2>3, <2>4
<1>4. \A c \in Callers : HandsOf(c) /\ AllocatedTo(c) /\ KeepsRef(c) /\ WorksOnRow(c)
  BY <1>1, <1>2, <1>3, CallersAssumption DEF HandsOf, AllocatedTo, KeepsRef, WorksOnRow, Handy, Booters
<1>5. NoSandboxLost
  BY <1>1, <1>2 DEF NoSandboxLost
<1> QED
  BY <1>1, <1>2, <1>4, <1>5 DEF BoxInv, Callers

\* Nothing dead comes back, nothing allocated is forgotten, and a new sandbox is in the hands
\* of the caller that moves.
BoxesLast(c) ==
  /\ \A x \in Boxes :
       /\ box[x] \in Dead => box'[x] \in Dead
       /\ box[x] # "unused" => box'[x] # "unused"
       /\ box[x] = "unused" =>
            box'[x] = "unused" \/ (caller'[c].pc \in Handy /\ caller'[c].box = x)
  /\ left \subseteq left'

\* The row gives up a sandbox only when it is dead, or let go with nobody at work on it.
RowLast ==
  \/ row'.ref = row.ref \/ row.ref = NoBox
  \/ box'[row.ref] \in Dead
  \/ row.ref \in left' /\ \A r \in active : caller[r].pc # "work"

\* What c had in its hands is still there, named by the row, let go, or dead.
HandsOver(c) ==
  caller[c].pc \in Handy /\ caller[c].box # NoBox =>
    \/ caller'[c].pc \in Handy /\ caller'[c].box = caller[c].box
    \/ caller[c].box = row'.ref \/ caller[c].box \in left' \/ box'[caller[c].box] \in Dead

LEMMA BoxesKept ==
  ASSUME ControlInv, BoxInv, NEW c \in Callers, Moves(c), BoxesLast(c), RowLast, HandsOver(c),
         TypeOK', active' \subseteq active,
         row'.ref # NoBox => box'[row'.ref] # "unused",
         HandsOf(c)', AllocatedTo(c)', KeepsRef(c)', c \in active' => WorksOnRow(c)'
  PROVE  BoxInv'
<1>1. ASSUME NEW d \in Callers \ {c} PROVE HandsOf(d)' /\ AllocatedTo(d)' /\ KeepsRef(d)'
  <2>1. caller'[d] = caller[d] /\ caller[d] \in Locals
    BY DEF Moves, ControlInv, TypeOK
  <2>2. HandsOf(d) /\ AllocatedTo(d) /\ KeepsRef(d)
    BY DEF BoxInv
  <2>3. HandsOf(d)'
    BY <2>1, <2>2 DEF HandsOf, BoxesLast, Locals, NoBox
  <2>4. AllocatedTo(d)'
    BY <2>1, <2>2 DEF AllocatedTo, BoxesLast, Locals
  <2>5. KeepsRef(d)'
    BY <2>1, <2>2 DEF KeepsRef, Spent, RowLast, BoxesLast, Locals
  <2> QED
    BY <2>3, <2>4, <2>5
<1>2. ASSUME NEW r \in active', r # c PROVE WorksOnRow(r)'
  <2>1. r \in active /\ r \in Callers /\ caller[r] \in Locals
    BY <1>2 DEF ControlInv, TypeOK, Callers
  <2>2. caller'[r] = caller[r] /\ WorksOnRow(r) /\ HandsOf(r)
    BY <1>2, <2>1 DEF Moves, BoxInv
  <2> QED
    BY <2>1, <2>2 DEF WorksOnRow, HandsOf, RowLast, BoxesLast, Locals
<1>3. NoSandboxLost'
  <2> SUFFICES ASSUME NEW x \in Boxes, box'[x] \in {"running", "stopped"}
               PROVE  \/ x = row'.ref \/ x \in left'
                      \/ \E d \in Callers : caller'[d].box = x /\ caller'[d].pc \in Handy
    BY DEF NoSandboxLost, Handy
  <2>1. x # NoBox /\ box'[x] \notin Dead
    BY CallersAssumption DEF Dead
  <2>2. CASE box[x] = "unused"
    BY <2>1, <2>2 DEF BoxesLast
  <2>3. CASE box[x] # "unused"
    <3>1. box[x] \in {"running", "stopped"}
      BY <2>1, <2>3 DEF BoxesLast, ControlInv, TypeOK, Dead
    <3>2. CASE x = row.ref \/ x \in left
      BY <2>1, <3>2 DEF RowLast, BoxesLast
    <3>3. CASE \E d \in Callers : caller[d].box = x /\ caller[d].pc \in Handy
      BY <2>1, <3>3 DEF HandsOver, Moves
    <3> QED
      BY <3>1, <3>2, <3>3 DEF BoxInv, NoSandboxLost, Handy
  <2> QED
    BY <2>2, <2>3
<1> QED
  BY <1>1, <1>2, <1>3, CallersAssumption DEF BoxInv, ControlInv, TypeOK

\* c has no sandbox in its hands, and gets none.
Aside(c) ==
  /\ Moves(c) /\ UNCHANGED <<box, left>> /\ row'.ref = row.ref /\ active' \subseteq active
  /\ caller[c].pc \notin Handy
  /\ caller'[c].pc \notin Booters \cup {"work"}
  /\ caller'[c].box = NoBox /\ ~caller'[c].fresh
  /\ caller'[c].seen.ref \in {NoBox, row.ref, caller[c].seen.ref}

LEMMA AsideKeeps ==
  ASSUME ControlInv, BoxInv, TypeOK', NEW c \in Callers, Aside(c)
  PROVE  BoxInv'
<1>1. BoxesLast(c) /\ RowLast /\ HandsOver(c)
  BY DEF Aside, BoxesLast, RowLast, HandsOver
<1>2. HandsOf(c)' /\ KeepsRef(c)' /\ WorksOnRow(c)'
  BY DEF Aside, HandsOf, KeepsRef, WorksOnRow, Handy, Booters
<1>3. AllocatedTo(c)' /\ (row'.ref # NoBox => box'[row'.ref] # "unused")
  BY DEF Aside, AllocatedTo, BoxInv
<1> QED
  BY <1>1, <1>2, <1>3, BoxesKept DEF Aside

\* A step that moves nobody.
LEMMA StaysKeepsBoxes ==
  ASSUME ControlInv, BoxInv, TypeOK', Stays, left' = left,
         \A x \in Boxes : box'[x] = box[x] \/ (box[x] = "running" /\ box'[x] = "lost"),
         \A r \in active' : r \in active \/ caller[r].pc = "idle"
  PROVE  BoxInv'
<1>1. \A c \in Callers : caller[c] \in Locals
  BY DEF ControlInv, TypeOK
<1>2. \A x \in Boxes : (box[x] \in Dead => box'[x] \in Dead) /\ (box[x] # "unused" => box'[x] # "unused")
  BY DEF Dead
<1>3. \A c \in Callers : HandsOf(c)' /\ AllocatedTo(c)' /\ KeepsRef(c)'
  BY <1>1, <1>2 DEF BoxInv, Stays, HandsOf, AllocatedTo, KeepsRef, Spent, Locals
<1>4. \A r \in active' : WorksOnRow(r)'
  <2>1. \A r \in active : r \in Callers /\ WorksOnRow(r) /\ HandsOf(r)
    BY DEF BoxInv, ControlInv, TypeOK, Callers
  <2> QED
    BY <1>1, <1>2, <2>1 DEF Stays, WorksOnRow, HandsOf, Locals
<1>5. NoSandboxLost'
  BY DEF BoxInv, Stays, NoSandboxLost
<1>6. row'.ref # NoBox => box'[row'.ref] # "unused"
  BY <1>2 DEF BoxInv, Stays, ControlInv, TypeOK, Rows
<1> QED
  BY <1>3, <1>4, <1>5, <1>6 DEF BoxInv

-----------------------------------------------------------------------------
(* Every action keeps track of the sandboxes. *)

LEMMA BusyIsAside ==
  ASSUME ControlInv, BoxInv, NEW c \in Callers, Busy(c), UNCHANGED <<box, left, active, row>>,
         caller[c].pc \notin Handy
  PROVE  Aside(c)
BY BusyRests DEF Aside, Rests, Emptied, Handy, Booters

LEMMA RefusedIsAside ==
  ASSUME ControlInv, BoxInv, NEW m \in Managers, Refused(m), UNCHANGED <<box, left, active>>,
         row'.ref = row.ref, caller[m].pc \notin Handy
  PROVE  Aside(m)
BY RefusedRests DEF Aside, Rests, Emptied, Handy, Booters

LEMMA AcquireBoxes ==
  ASSUME ControlInv, BoxInv, NEW c \in Callers, Acquire(c)
  PROVE  BoxInv'
<1>1. PICK p \in {"validate", "survey", "ready"} : Goto(c, p)
  BY DEF Acquire
<1>2. Moves(c) /\ Kept(c, p) /\ caller[c].pc = "idle"
  BY <1>1, Goes DEF ControlInv, Places, Acquire, At
<1>3. HandsOf(c)
  BY DEF BoxInv
<1>9. Aside(c)
  BY <1>2, <1>3 DEF Acquire, Kept, HandsOf, Aside, Handy, Booters
<1> QED
  BY <1>9, AcquireKind, AsideKeeps DEF Callers

LEMMA ValidateBoxes ==
  ASSUME ControlInv, BoxInv, NEW c \in Callers, Validate(c)
  PROVE  BoxInv'
<1>1. Leave(c, "idle") \/ \E p \in {"survey", "ready"} : Goto(c, p)
  BY DEF Validate
<1>2. Moves(c) /\ (Emptied(c, "idle") \/ \E p \in {"survey", "ready"} : Kept(c, p))
  BY <1>1, Goes, Leaves DEF ControlInv, Places
<1>3. HandsOf(c) /\ caller[c].pc = "validate"
  BY DEF BoxInv, Validate, At
<1>9. Aside(c)
  BY <1>2, <1>3 DEF Validate, Kept, Emptied, HandsOf, Aside, Handy, Booters
<1> QED
  BY <1>9, ValidateKind, AsideKeeps DEF Callers

LEMMA FinishBoxes ==
  ASSUME ControlInv, BoxInv, NEW r \in Runs, Finish(r)
  PROVE  BoxInv'
<1>1. Moves(r) /\ Emptied(r, "release")
  BY Leaves DEF Finish, ControlInv, Places, Callers
<1>9. Aside(r)
  BY <1>1 DEF Finish, At, Emptied, Aside, Handy, Booters
<1> QED
  BY <1>9, FinishKind, AsideKeeps DEF Callers

LEMMA RecoverBoxes ==
  ASSUME ControlInv, BoxInv, NEW r \in Runs, Recover(r)
  PROVE  BoxInv'
<1>1. Moves(r) /\ Emptied(r, "ready")
  BY Leaves DEF Recover, ControlInv, Places, Callers
<1>9. Aside(r)
  BY <1>1 DEF Recover, At, Emptied, Aside, Handy, Booters
<1> QED
  BY <1>9, RecoverKind, AsideKeeps DEF Callers

LEMMA GiveBackBoxes ==
  ASSUME ControlInv, BoxInv, NEW c \in Callers, GiveBack(c)
  PROVE  BoxInv'
<1>1. PICK p \in {"idle", "done"} : Leave(c, p)
  BY DEF GiveBack
<1>2. Moves(c) /\ Emptied(c, p)
  BY <1>1, Leaves DEF ControlInv, Places
<1>9. Aside(c)
  BY <1>2 DEF GiveBack, At, Emptied, Aside, Handy, Booters
<1> QED
  BY <1>9, GiveBackKind, AsideKeeps DEF Callers

LEMMA LookBoxes ==
  ASSUME ControlInv, BoxInv, NEW c \in Callers, Look(c)
  PROVE  BoxInv'
<1>1. /\ UNCHANGED <<row, active, box, left>> /\ caller[c].pc = "ready"
      /\ HandsOf(c) /\ caller[c] \in Locals
  BY DEF Look, At, BoxInv, ControlInv, TypeOK
<1>2. ASSUME Busy(c) PROVE Aside(c)
  BY <1>1, <1>2, BusyIsAside DEF Handy
<1>3. ASSUME Goto(c, "wait") PROVE Aside(c)
  BY <1>1, <1>3, Goes DEF ControlInv, Places, Kept, HandsOf, Aside, Handy, Booters
<1>4. ASSUME caller' = [caller EXCEPT ![c].pc = "wait", ![c].old = row.stamp] PROVE Aside(c)
  <2>1. caller'[c] = [caller[c] EXCEPT !.pc = "wait", !.old = row.stamp]
    BY <1>4 DEF ControlInv, TypeOK
  <2>2. Moves(c)
    BY <1>4, LookKind DEF ControlInv, TypeOK, Moves
  <2> QED
    BY <1>1, <2>1, <2>2 DEF Locals, HandsOf, Aside, Handy, Booters
<1>5. ASSUME See(c, "claim") PROVE Aside(c)
  BY <1>1, <1>5, Sees DEF ControlInv, Places, Saw, HandsOf, Aside, Handy, Booters
<1>9. Aside(c)
  <2>1. \/ Busy(c) \/ Goto(c, "wait") \/ See(c, "claim")
        \/ caller' = [caller EXCEPT ![c].pc = "wait", ![c].old = row.stamp]
    BY DEF Look
  <2> QED
    BY <1>2, <1>3, <1>4, <1>5, <2>1
<1> QED
  BY <1>9, LookKind, AsideKeeps DEF Callers

LEMMA EndWaitBoxes ==
  ASSUME ControlInv, BoxInv, NEW c \in Callers, EndWait(c)
  PROVE  BoxInv'
<1>1. /\ UNCHANGED <<row, active, box, left>> /\ caller[c].pc = "wait" /\ HandsOf(c)
  BY DEF EndWait, At, BoxInv
<1>2. ASSUME Busy(c) PROVE Aside(c)
  BY <1>1, <1>2, BusyIsAside DEF Handy
<1>3. ASSUME See(c, "claim") PROVE Aside(c)
  BY <1>1, <1>3, Sees DEF ControlInv, Places, Saw, HandsOf, Aside, Handy, Booters
<1>9. Aside(c)
  BY <1>2, <1>3 DEF EndWait
<1> QED
  BY <1>9, EndWaitKind, AsideKeeps DEF Callers

LEMMA SurveyBoxes ==
  ASSUME ControlInv, BoxInv, NEW m \in Managers, Survey(m)
  PROVE  BoxInv'
<1>1. /\ UNCHANGED <<row, active, box, left>> /\ caller[m].pc \in {"idle", "survey"} /\ m \in Callers
  BY DEF Survey, At, Callers
<1>4. HandsOf(m)
  BY <1>1 DEF BoxInv
<1>2. ASSUME Busy(m) PROVE Aside(m)
  BY <1>1, <1>2, BusyIsAside DEF Handy
<1>3. ASSUME See(m, "suspend") PROVE Aside(m)
  BY <1>1, <1>3, <1>4, Sees DEF ControlInv, Places, Saw, HandsOf, Aside, Handy, Booters
<1>9. Aside(m)
  BY <1>2, <1>3 DEF Survey
<1> QED
  BY <1>9, SurveyKind, AsideKeeps DEF Callers

LEMMA SuspendBoxes ==
  ASSUME ControlInv, BoxInv, NEW m \in Managers, Suspend(m)
  PROVE  BoxInv'
<1>1. /\ UNCHANGED <<active, box, left>> /\ caller[m].pc = "suspend" /\ m \in Callers
  BY DEF Suspend, At, Callers
<1>4. HandsOf(m) /\ row'.ref = row.ref
  BY <1>1 DEF BoxInv, Suspend, WriteRow
<1>2. ASSUME Refused(m) PROVE Aside(m)
  BY <1>1, <1>2, <1>4, RefusedIsAside DEF Handy
<1>3. ASSUME Goto(m, "recheck") PROVE Aside(m)
  BY <1>1, <1>3, <1>4, Goes DEF ControlInv, Places, Kept, HandsOf, Aside, Handy, Booters
<1>9. Aside(m)
  BY <1>2, <1>3 DEF Suspend
<1> QED
  BY <1>9, SuspendKind, AsideKeeps DEF Callers

LEMMA RecheckBoxes ==
  ASSUME ControlInv, BoxInv, NEW m \in Managers, Recheck(m)
  PROVE  BoxInv'
<1>1. /\ UNCHANGED <<active, box, left>> /\ caller[m].pc = "recheck" /\ m \in Callers
  BY DEF Recheck, At, Callers
<1>4. HandsOf(m) /\ row'.ref = row.ref
  BY <1>1 DEF BoxInv, Recheck, WriteRow
<1>2. ASSUME Refused(m) PROVE Aside(m)
  BY <1>1, <1>2, <1>4, RefusedIsAside DEF Handy
<1>3. ASSUME Goto(m, "halt") PROVE Aside(m)
  BY <1>1, <1>3, <1>4, Goes DEF ControlInv, Places, Kept, HandsOf, Aside, Handy, Booters
<1>9. Aside(m)
  BY <1>2, <1>3 DEF Recheck
<1> QED
  BY <1>9, RecheckKind, AsideKeeps DEF Callers

LEMMA ClaimBoxes ==
  ASSUME ControlInv, BoxInv, NEW c \in Callers, Claim(c)
  PROVE  BoxInv'
<1>1. /\ UNCHANGED <<active, box, left>> /\ caller[c].pc = "claim" /\ TypeOK'
      /\ HandsOf(c) /\ AllocatedTo(c) /\ caller[c] \in Locals
  BY ClaimKind DEF Claim, At, BoxInv, ControlInv, TypeOK
<1>2. CASE Busy(c) /\ UNCHANGED row
  BY <1>1, <1>2, BusyIsAside, AsideKeeps DEF Handy
<1>3. CASE ~(Busy(c) /\ UNCHANGED row)
  <2>1. MayClaim(c)
    BY <1>3 DEF Claim
  <2>2. PICK stamp \in Nat :
          /\ row' = [state |-> "booting", ref |-> row.ref, stamp |-> stamp, aged |-> FALSE]
          /\ caller' = [caller EXCEPT ![c].pc = "provision", ![c].claim = stamp, ![c].old = 0]
    <3>1. PICK now \in {row.stamp, row.stamp + 1} :
            LET stamp == ClaimStamp(now, Observed(c)) IN
            /\ row' = [state |-> "booting", ref |-> row.ref, stamp |-> stamp, aged |-> FALSE]
            /\ caller' = [caller EXCEPT ![c].pc = "provision", ![c].claim = stamp, ![c].old = 0]
      BY <1>3, Zenon DEF Claim
    <3>2. row.stamp \in Nat /\ Observed(c) \in Nat
      BY <1>1 DEF ControlInv, TypeOK, Rows, Locals, Stamps, Observed
    <3>3. ClaimStamp(now, Observed(c)) \in Nat
      BY <3>2 DEF ClaimStamp
    <3> QED
      BY <3>1, <3>3
  <2>3. caller'[c] = [caller[c] EXCEPT !.pc = "provision", !.claim = stamp, !.old = 0] /\ row'.ref = row.ref
    BY <2>2 DEF ControlInv, TypeOK
  <2>4. /\ caller'[c].pc = "provision" /\ caller'[c].seen = caller[c].seen
        /\ caller'[c].box = NoBox /\ ~caller'[c].fresh
    BY <1>1, <2>3 DEF Locals, HandsOf, Handy
  <2>5. Moves(c)
    BY <1>1, <2>2 DEF ControlInv, TypeOK, Moves
  <2>6. caller[c].seen.ref = row.ref
    <3>1. CASE caller[c].seen.state = "booting"
      <4>1. row.stamp = caller[c].old /\ caller[c].old <= caller[c].seen.stamp /\ caller[c].seen.stamp <= row.stamp
        BY <1>1, <2>1, <3>1 DEF MayClaim, ControlInv, Readings
      <4>2. caller[c].seen.stamp \in Nat /\ row.stamp \in Nat
        BY <1>1 DEF ControlInv, TypeOK, Rows, Locals, Stamps
      <4>3. caller[c].seen.stamp = row.stamp
        BY <4>1, <4>2
      <4> QED
        BY <1>1, <4>3 DEF ControlInv, Readings
    <3>2. CASE caller[c].seen.state # "booting"
      BY <2>1, <3>2 DEF MayClaim
    <3> QED
      BY <3>1, <3>2
  <2>7. BoxesLast(c) /\ RowLast /\ HandsOver(c)
    BY <1>1, <2>3 DEF BoxesLast, RowLast, HandsOver, Handy
  <2>8. HandsOf(c)' /\ AllocatedTo(c)' /\ KeepsRef(c)' /\ WorksOnRow(c)'
    BY <1>1, <2>3, <2>4, <2>6 DEF HandsOf, AllocatedTo, KeepsRef, WorksOnRow, Spent, Handy, Booters
  <2>9. row'.ref # NoBox => box'[row'.ref] # "unused"
    BY <1>1, <2>3 DEF BoxInv
  <2> QED
    BY <1>1, <2>5, <2>7, <2>8, <2>9, BoxesKept
<1> QED
  BY <1>2, <1>3

LEMMA ProvisionBoxes ==
  ASSUME ControlInv, BoxInv, NEW c \in Callers, Provision(c)
  PROVE  BoxInv'
<1>1. /\ UNCHANGED <<row, active, left>> /\ caller[c].pc = "provision" /\ TypeOK'
      /\ HandsOf(c) /\ AllocatedTo(c) /\ KeepsRef(c) /\ caller[c] \in Locals
      /\ box \in [Boxes -> {"unused", "running", "stopped", "lost", "gone"}]
  BY ProvisionKind DEF Provision, At, BoxInv, ControlInv, TypeOK
<1>2. /\ Moves(c) /\ caller'[c].seen = caller[c].seen
      /\ caller[c].box = NoBox /\ ~caller[c].fresh /\ caller[c].seen.ref \in Boxes \cup {NoBox}
  BY <1>1, ProvisionMoves DEF HandsOf, Handy, Locals
<1>3. BoxesLast(c)
  BY <1>1, <1>2, ProvisionMoves DEF BoxesLast, Usable, Dead, Handy
<1>4. RowLast /\ HandsOver(c)
  BY <1>1 DEF RowLast, HandsOver, Handy
<1>5. HandsOf(c)'
  <2>1. CASE Usable(caller[c].seen.ref) /\ caller'[c].box = caller[c].seen.ref /\ caller'[c].fresh = caller[c].fresh
             /\ caller'[c].pc = "setup"
    BY <1>2, <2>1 DEF HandsOf, Handy, Usable
  <2>2. CASE /\ ~Usable(caller[c].seen.ref) /\ NextBox \in Boxes /\ box[NextBox] = "unused"
             /\ box' = [box EXCEPT ![NextBox] = "running"]
             /\ caller'[c].box = NextBox /\ caller'[c].fresh /\ caller'[c].pc = "setup"
    <3>1. caller[c].seen.ref = NoBox \/ box'[caller[c].seen.ref] \in Dead
      BY <1>1, <1>2, <2>2 DEF AllocatedTo, Usable, Dead
    <3> QED
      BY <1>2, <2>2, <3>1, CallersAssumption DEF HandsOf, Handy
  <2>3. CASE caller'[c].pc = "record" /\ caller'[c].box = caller[c].box /\ caller'[c].fresh = caller[c].fresh
             /\ caller'[c].lost = "error"
    BY <1>2, <2>3 DEF HandsOf, Handy
  <2> QED
    BY <2>1, <2>2, <2>3, ProvisionMoves
<1>6. AllocatedTo(c)'
  <2>1. caller[c].seen.ref # NoBox => box'[caller[c].seen.ref] # "unused"
    BY <1>1, <1>2, <1>3 DEF AllocatedTo, BoxesLast
  <2>2. caller'[c].box # NoBox => box'[caller'[c].box] # "unused"
    <3>1. CASE /\ Usable(caller[c].seen.ref) /\ caller'[c].box = caller[c].seen.ref
               /\ box' = [box EXCEPT ![caller[c].seen.ref] = "running"]
      BY <1>1, <1>2, <3>1 DEF Usable
    <3>2. CASE NextBox \in Boxes /\ caller'[c].box = NextBox /\ box' = [box EXCEPT ![NextBox] = "running"]
      BY <1>1, <3>2
    <3>3. CASE caller'[c].box = caller[c].box
      BY <1>2, <3>3
    <3> QED
      BY <3>1, <3>2, <3>3, ProvisionMoves
  <2> QED
    BY <1>2, <2>1, <2>2 DEF AllocatedTo
<1>7. KeepsRef(c)'
  BY <1>1, <1>2, <1>3 DEF KeepsRef, Spent, BoxesLast, Booters
<1>8. WorksOnRow(c)' /\ (row'.ref # NoBox => box'[row'.ref] # "unused")
  <2>1. row.ref # NoBox => row.ref \in Boxes /\ box[row.ref] # "unused"
    BY DEF BoxInv, ControlInv, TypeOK, Rows
  <2> QED
    BY <1>1, <1>3, <2>1, ProvisionMoves DEF WorksOnRow, BoxesLast
<1> QED
  BY <1>1, <1>2, <1>3, <1>4, <1>5, <1>6, <1>7, <1>8, BoxesKept

LEMMA ActivateBoxes ==
  ASSUME ControlInv, BoxInv, NEW c \in Callers, Activate(c)
  PROVE  BoxInv'
<1>1. /\ UNCHANGED <<active, left, box>> /\ caller[c].pc = "setup" /\ TypeOK' /\ Moves(c)
      /\ HandsOf(c) /\ AllocatedTo(c) /\ KeepsRef(c) /\ caller[c] \in Locals
  BY ActivateKind, ActivateMoves DEF Activate, At, BoxInv, ControlInv, TypeOK
<1>2. BoxesLast(c)
  BY <1>1 DEF BoxesLast
<1>3. CASE /\ Holds(c) /\ WriteRow("running", caller[c].box)
           /\ caller'[c].pc = (IF c \in Runs THEN "work" ELSE "release")
           /\ caller'[c].box = caller[c].box /\ caller'[c].seen.ref = NoBox
  <2>1. row'.ref = caller[c].box /\ row.ref = caller[c].seen.ref /\ caller[c].box # NoBox
    BY <1>1, <1>3 DEF WriteRow, Holds, HandsOf
  <2>2. row'.ref = row.ref \/ row.ref = NoBox \/ box[row.ref] \in Dead
    BY <1>1, <2>1 DEF HandsOf, Handy
  <2>3. RowLast /\ HandsOver(c)
    BY <1>1, <2>1, <2>2 DEF RowLast, HandsOver
  <2>4. HandsOf(c)' /\ AllocatedTo(c)' /\ KeepsRef(c)' /\ WorksOnRow(c)'
    BY <1>1, <1>3, <2>1 DEF HandsOf, AllocatedTo, KeepsRef, WorksOnRow, Spent, Handy, Booters
  <2>5. row'.ref # NoBox => box'[row'.ref] # "unused"
    BY <1>1, <2>1 DEF AllocatedTo
  <2> QED
    BY <1>1, <1>2, <2>3, <2>4, <2>5, BoxesKept
<1>4. CASE /\ UNCHANGED row
           /\ caller'[c].pc = (IF OwnsBox(c) THEN "rollback" ELSE "record")
           /\ caller'[c].seen = caller[c].seen /\ caller'[c].box = caller[c].box
           /\ caller'[c].fresh = caller[c].fresh /\ caller'[c].lost # "stuck"
  <2>1. RowLast /\ HandsOver(c)
    BY <1>1, <1>4 DEF RowLast, HandsOver, Handy
  <2>2. HandsOf(c)'
    BY <1>1, <1>4 DEF HandsOf, Handy, OwnsBox
  <2>3. AllocatedTo(c)' /\ KeepsRef(c)' /\ WorksOnRow(c)'
    BY <1>1, <1>4 DEF AllocatedTo, KeepsRef, WorksOnRow, Spent, Booters
  <2>4. row'.ref # NoBox => box'[row'.ref] # "unused"
    BY <1>1, <1>4 DEF BoxInv
  <2> QED
    BY <1>1, <1>2, <2>1, <2>2, <2>3, <2>4, BoxesKept
<1> QED
  BY <1>3, <1>4, ActivateMoves

LEMMA RollbackBoxes ==
  ASSUME ControlInv, BoxInv, NEW c \in Callers, Rollback(c)
  PROVE  BoxInv'
<1>1. /\ UNCHANGED <<row, active, left>> /\ caller[c].pc = "rollback" /\ TypeOK' /\ Moves(c)
      /\ HandsOf(c) /\ AllocatedTo(c) /\ KeepsRef(c) /\ caller[c] \in Locals
      /\ box \in [Boxes -> {"unused", "running", "stopped", "lost", "gone"}]
  BY RollbackKind, RollbackMoves DEF Rollback, At, BoxInv, ControlInv, TypeOK
<1>2. /\ caller'[c].pc = "record" /\ caller'[c].seen = caller[c].seen
      /\ caller'[c].box = caller[c].box /\ caller'[c].fresh = caller[c].fresh
      /\ caller[c].box \in Boxes
  BY <1>1, RollbackMoves DEF HandsOf, Locals
<1>3. BoxesLast(c)
  <2>1. box[caller[c].box] # "unused"
    BY <1>1 DEF AllocatedTo, HandsOf
  <2>2. box' = Destroyed(caller[c].box) \/ box' = Stopped(caller[c].box) \/ box' = box
    BY RollbackMoves
  <2>3. CASE box' = Destroyed(caller[c].box)
    BY <1>1, <1>2, <2>1, <2>3 DEF BoxesLast, Destroyed, Dead
  <2>4. CASE box' = Stopped(caller[c].box)
    BY <1>1, <1>2, <2>1, <2>4 DEF BoxesLast, Stopped, Dead
  <2>5. CASE box' = box
    BY <1>1, <2>5 DEF BoxesLast
  <2> QED
    BY <2>2, <2>3, <2>4, <2>5
<1>4. RowLast /\ HandsOver(c)
  BY <1>1, <1>2 DEF RowLast, HandsOver, Handy
<1>5. HandsOf(c)'
  <2>1. caller[c].fresh /\ caller'[c].lost # "stuck" => box'[caller[c].box] \in Dead
    BY <1>1, <1>2, RollbackMoves DEF Destroyed, Dead
  <2>2. caller[c].seen.ref # NoBox /\ box[caller[c].seen.ref] \in Dead => box'[caller[c].seen.ref] \in Dead
    BY <1>1, <1>3 DEF BoxesLast, Locals
  <2> QED
    BY <1>1, <1>2, <2>1, <2>2 DEF HandsOf, Handy
<1>6. AllocatedTo(c)' /\ KeepsRef(c)' /\ WorksOnRow(c)'
  BY <1>1, <1>2, <1>3 DEF AllocatedTo, KeepsRef, WorksOnRow, Spent, Booters, BoxesLast, Locals
<1>7. row'.ref # NoBox => box'[row'.ref] # "unused"
  <2>1. row.ref # NoBox => row.ref \in Boxes /\ box[row.ref] # "unused"
    BY DEF BoxInv, ControlInv, TypeOK, Rows
  <2> QED
    BY <1>1, <1>3, <2>1 DEF BoxesLast
<1> QED
  BY <1>1, <1>3, <1>4, <1>5, <1>6, <1>7, BoxesKept

\* Whoever forgets everything has nothing in its hands.
LEMMA EmptiedHands ==
  ASSUME NEW c, NEW p \in Places \ (Booters \cup {"work"}), Emptied(c, p)
  PROVE  HandsOf(c)' /\ AllocatedTo(c)' /\ KeepsRef(c)' /\ WorksOnRow(c)'
BY DEF Emptied, HandsOf, AllocatedTo, KeepsRef, WorksOnRow, Spent, Handy, Booters

LEMMA RecordBoxes ==
  ASSUME ControlInv, BoxInv, NEW c \in Callers, Record(c)
  PROVE  BoxInv'
<1>1. /\ UNCHANGED <<active, box>> /\ caller[c].pc = "record"
      /\ HandsOf(c) /\ AllocatedTo(c) /\ KeepsRef(c) /\ caller[c] \in Locals
  BY DEF Record, At, BoxInv, ControlInv, TypeOK
<1>2. TypeOK'
  BY <1>1, RecordKind DEF HandsOf
<1>3. PICK p \in {"ready", "release"} : Leave(c, p)
  BY DEF Record
<1>4. Moves(c) /\ Emptied(c, p)
  BY <1>3, Leaves DEF ControlInv, Places
<1>5. BoxesLast(c)
  BY <1>1 DEF BoxesLast, Record
<1>6. HandsOf(c)' /\ AllocatedTo(c)' /\ KeepsRef(c)' /\ WorksOnRow(c)'
  BY <1>4, EmptiedHands DEF Places, Booters
<1> DEFINE keeps == Holds(c) /\ ~Reconnecting(c) /\ caller[c].lost = "stuck"
<1>7. row'.ref = IF keeps THEN caller[c].box ELSE row.ref
  BY DEF Record, WriteRow
<1>8. keeps => row.ref = caller[c].seen.ref /\ caller[c].box # NoBox
  BY <1>1 DEF Holds, HandsOf
<1>9. RowLast
  <2>1. keeps => row.ref = caller[c].box \/ row.ref = NoBox \/ box[row.ref] \in Dead
    BY <1>1, <1>8 DEF HandsOf, Handy
  <2> QED
    BY <1>1, <1>7, <2>1 DEF RowLast
<1>10. HandsOver(c)
  <2>1. CASE caller[c].lost = "stuck"
    BY <1>7, <2>1 DEF HandsOver, Record
  <2>2. CASE caller[c].lost # "stuck" /\ caller[c].fresh
    BY <1>1, <2>2 DEF HandsOver, HandsOf
  <2>3. CASE caller[c].lost # "stuck" /\ ~caller[c].fresh
    BY <1>1, <1>5, <1>7, <2>3 DEF HandsOver, HandsOf, KeepsRef, Spent, BoxesLast, Handy, Booters
  <2> QED
    BY <2>1, <2>2, <2>3
<1>11. row'.ref # NoBox => box'[row'.ref] # "unused"
  BY <1>1, <1>7 DEF AllocatedTo, BoxInv
<1> QED
  BY <1>1, <1>2, <1>4, <1>5, <1>6, <1>9, <1>10, <1>11, BoxesKept

LEMMA CrashBoxes ==
  ASSUME ControlInv, BoxInv, NEW c \in Callers, Crash(c)
  PROVE  BoxInv'
<1>1. UNCHANGED <<row, active, box>> /\ caller[c] \in Locals /\ TypeOK'
  BY CrashKind DEF Crash, ControlInv, TypeOK
<1>2. PICK p \in {"idle", "done"} : Leave(c, p)
  BY DEF Crash
<1>3. Moves(c) /\ Emptied(c, p)
  BY <1>2, Leaves DEF ControlInv, Places
<1>4. HandsOf(c)' /\ AllocatedTo(c)' /\ KeepsRef(c)' /\ WorksOnRow(c)'
  BY <1>3, EmptiedHands DEF Places, Booters
<1>5. BoxesLast(c) /\ RowLast
  BY <1>1 DEF BoxesLast, RowLast, Crash
<1>6. HandsOver(c)
  BY DEF HandsOver, Crash, Handy
<1>7. row'.ref # NoBox => box'[row'.ref] # "unused"
  BY <1>1 DEF BoxInv
<1> QED
  BY <1>1, <1>3, <1>4, <1>5, <1>6, <1>7, BoxesKept

LEMMA HaltBoxes ==
  ASSUME ControlInv, BoxInv, NEW m \in Managers, Halt(m)
  PROVE  BoxInv'
<1>1. /\ UNCHANGED <<active, left>> /\ caller[m].pc = "halt" /\ m \in Callers /\ TypeOK'
      /\ HandsOf(m) /\ AllocatedTo(m) /\ caller[m] \in Locals
      /\ box \in [Boxes -> {"unused", "running", "stopped", "lost", "gone"}]
  BY HaltKind DEF Halt, Callers, At, BoxInv, ControlInv, TypeOK
<1>2. row'.ref = row.ref
  BY DEF Halt, WriteRow
<1>3. Moves(m) /\ (Kept(m, "settle") \/ \E p \in {"release", "done"} : Emptied(m, p))
  <2>1. Goto(m, "settle") \/ \E p \in {"release", "done"} : Leave(m, p)
    BY DEF Halt
  <2> QED
    BY <1>1, <2>1, Goes, Leaves DEF ControlInv, Places
<1>4. BoxesLast(m)
  <2> DEFINE ref == caller[m].seen.ref
  <2>1. ref = NoBox \/ (ref \in Boxes /\ box[ref] # "unused")
    BY <1>1 DEF AllocatedTo, Locals
  <2>2. box' = box \/ (ref # NoBox /\ (box' = Destroyed(ref) \/ box' = Stopped(ref)))
    BY DEF Halt
  <2>3. CASE box' = box
    BY <1>1, <2>3 DEF BoxesLast
  <2>4. CASE ref # NoBox /\ box' = Destroyed(ref)
    BY <1>1, <2>1, <2>4 DEF BoxesLast, Destroyed, Dead
  <2>5. CASE ref # NoBox /\ box' = Stopped(ref)
    BY <1>1, <2>1, <2>5 DEF BoxesLast, Stopped, Dead
  <2> QED
    BY <2>2, <2>3, <2>4, <2>5
<1>5. RowLast /\ HandsOver(m)
  BY <1>1, <1>2 DEF RowLast, HandsOver, Handy
<1>6. HandsOf(m)' /\ KeepsRef(m)' /\ WorksOnRow(m)'
  BY <1>1, <1>3 DEF Kept, Emptied, HandsOf, KeepsRef, WorksOnRow, Handy, Booters
<1>7. AllocatedTo(m)'
  BY <1>1, <1>3, <1>4 DEF Kept, Emptied, AllocatedTo, BoxesLast, Locals
<1>8. row'.ref # NoBox => box'[row'.ref] # "unused"
  <2>1. row.ref # NoBox => row.ref \in Boxes /\ box[row.ref] # "unused"
    BY DEF BoxInv, ControlInv, TypeOK, Rows
  <2> QED
    BY <1>2, <1>4, <2>1 DEF BoxesLast
<1> QED
  BY <1>1, <1>3, <1>4, <1>5, <1>6, <1>7, <1>8, BoxesKept

\* A replacement lets go of the sandbox of the row: nobody may be at work on it.
LEMMA SettleBoxes ==
  ASSUME ControlInv, BoxInv, NEW m \in Managers, Settle(m),
         caller[m].job # "stop" => \A r \in active : caller[r].pc # "work"
  PROVE  BoxInv'
<1>1. /\ UNCHANGED <<active, box>> /\ caller[m].pc = "settle" /\ m \in Callers /\ TypeOK'
      /\ row.ref \in Boxes \cup {NoBox}
      /\ box \in [Boxes -> {"unused", "running", "stopped", "lost", "gone"}]
  BY SettleKind DEF Settle, Callers, At, ControlInv, TypeOK, Rows
<1>2. PICK p \in {"ready", "done"} : Leave(m, p)
  BY DEF Settle
<1>3. Moves(m) /\ Emptied(m, p)
  BY <1>1, <1>2, Leaves DEF ControlInv, Places
<1>4. HandsOf(m)' /\ AllocatedTo(m)' /\ KeepsRef(m)' /\ WorksOnRow(m)'
  BY <1>3, EmptiedHands DEF Places, Booters
<1>5. BoxesLast(m) /\ HandsOver(m)
  BY <1>1 DEF BoxesLast, HandsOver, Handy, Settle
<1>6. row'.ref = row.ref \/ (caller[m].job = "replace" /\ row'.ref = NoBox)
  BY DEF Settle, WriteRow, Job, ControlInv, Bounded, AllJobs
<1>7. RowLast
  <2>1. CASE caller[m].job = "replace"
    <3>1. row.ref = NoBox \/ box[row.ref] = "gone" \/ row.ref \in left'
      BY <2>1 DEF Settle, Job
    <3> QED
      BY <1>1, <2>1, <3>1 DEF RowLast, Dead
  <2>2. CASE caller[m].job # "replace"
    BY <1>6, <2>2 DEF RowLast
  <2> QED
    BY <2>1, <2>2
<1>8. row'.ref # NoBox => box'[row'.ref] # "unused"
  BY <1>1, <1>6 DEF BoxInv
<1> QED
  BY <1>1, <1>3, <1>4, <1>5, <1>7, <1>8, BoxesKept

-----------------------------------------------------------------------------
(* Whom sleep, stop and replacement spare *)

\* Whom m may interrupt: nobody, and for a stop only the runs of its own bot.
Spares(m) ==
  \A r \in active : caller[r].pc = "work" =>
    caller[m].job = "stop" /\ (scope = "team" => BotOf[r] = BotOf[m])

\* Past the second check nobody is at work whom the provider call would interrupt, and nobody
\* comes back to work while the row is locked.
WorkSpared == \A m \in Managers : caller[m].pc \in {"halt", "settle"} => Spares(m)

LEMMA SparesAtFirst == Init => WorkSpared
<1> SUFFICES ASSUME Init, NEW m \in Managers PROVE caller[m].pc = "idle"
  BY DEF WorkSpared
<1>1. PICK job \in [Managers -> Jobs] :
     caller = [d \in Callers |->
       IF d \in active THEN [Fresh EXCEPT !.pc = "work", !.box = FirstBox]
       ELSE IF d \in Runs THEN Fresh ELSE [Fresh EXCEPT !.job = job[d]]]
  BY DEF Init
<1>2. m \in Callers /\ m \notin Runs /\ m \notin active
  BY CallersAssumption DEF Init, Callers
<1>3. caller[m] = [Fresh EXCEPT !.job = job[m]]
  BY <1>1, <1>2
<1> QED
  BY <1>3 DEF Fresh

LEMMA SparedKept ==
  ASSUME ControlInv, WorkSpared, NEW c \in Callers, Moves(c), scope' = scope, active' \subseteq active,
         caller'[c].job = caller[c].job,
         caller'[c].pc = "work" => row.state = "booting",
         caller'[c].pc \in {"halt", "settle"} => caller[c].pc \in {"halt", "settle"} \/ Spares(c)
  PROVE  WorkSpared'
<1> SUFFICES ASSUME NEW m \in Managers, caller'[m].pc \in {"halt", "settle"},
                    NEW r \in active', caller'[r].pc = "work"
             PROVE  caller'[m].job = "stop" /\ (scope' = "team" => BotOf[r] = BotOf[m])
  BY DEF WorkSpared, Spares
<1>1. m \in Callers /\ r \in Callers /\ r \in active /\ m # r
  BY DEF ControlInv, TypeOK, Callers
<1>2. caller'[m].job = caller[m].job
  BY <1>1 DEF Moves
<1>3. CASE r = c
  <2>1. caller[m].pc \in {"halt", "settle"} /\ row.state = "booting"
    BY <1>1, <1>3 DEF Moves
  <2> QED
    BY <1>1, <2>1 DEF ControlInv, SuspendLocks, Suspenders
<1>4. CASE r # c
  <2>1. caller[r].pc = "work"
    BY <1>1, <1>4 DEF Moves
  <2>2. Spares(m)
    BY <1>1 DEF WorkSpared, Moves
  <2> QED
    BY <1>1, <1>2, <2>1, <2>2 DEF Spares
<1> QED
  BY <1>3, <1>4

\* c goes neither to work nor past the second check.
Quiet(c) ==
  /\ Moves(c) /\ scope' = scope /\ active' \subseteq active /\ caller'[c].job = caller[c].job
  /\ caller'[c].pc \notin {"work", "halt", "settle"}

LEMMA QuietSpares ==
  ASSUME ControlInv, WorkSpared, NEW c \in Callers, Quiet(c)
  PROVE  WorkSpared'
BY SparedKept DEF Quiet

LEMMA QuietMoves ==
  ASSUME ControlInv, NEW c \in Callers, NEW p \in Places \ {"work", "halt", "settle"},
         Leave(c, p) \/ Goto(c, p) \/ See(c, p), scope' = scope, active' \subseteq active
  PROVE  Quiet(c)
BY Leaves, Goes, Sees DEF ControlInv, Quiet, Emptied, Kept, Saw

LEMMA RunsAreQuiet ==
  ASSUME ControlInv, NEW r \in Runs, Finish(r) \/ Recover(r)
  PROVE  Quiet(r)
<1>1. PICK p \in {"release", "ready"} : Leave(r, p)
  BY DEF Finish, Recover
<1>2. r \in Callers /\ p \in Places \ {"work", "halt", "settle"}
  BY DEF Callers, Places
<1>3. scope' = scope /\ active' \subseteq active
  BY DEF Finish, Recover
<1> QED
  BY <1>1, <1>2, <1>3, QuietMoves

LEMMA LeasesAreQuiet ==
  ASSUME ControlInv, NEW c \in Callers, Acquire(c) \/ Validate(c) \/ GiveBack(c) \/ Crash(c)
  PROVE  Quiet(c)
<1>1. PICK p \in {"validate", "survey", "ready", "idle", "done"} : Leave(c, p) \/ Goto(c, p)
  BY DEF Acquire, Validate, GiveBack, Crash
<1>2. p \in Places \ {"work", "halt", "settle"}
  BY DEF Places
<1>3. scope' = scope /\ active' \subseteq active
  BY DEF Acquire, Validate, GiveBack, Crash
<1> QED
  BY <1>1, <1>2, <1>3, QuietMoves

LEMMA BusyIsQuiet ==
  ASSUME ControlInv, NEW c \in Callers, Busy(c), scope' = scope, active' \subseteq active
  PROVE  Quiet(c)
BY BusyRests DEF Quiet, Rests, Emptied

LEMMA LooksAreQuiet ==
  ASSUME ControlInv, NEW c \in Callers, Look(c) \/ EndWait(c)
  PROVE  Quiet(c)
<1>1. scope' = scope /\ active' \subseteq active
  BY DEF Look, EndWait
<1>2. \/ Busy(c) \/ Goto(c, "wait") \/ See(c, "claim")
      \/ caller' = [caller EXCEPT ![c].pc = "wait", ![c].old = row.stamp]
  BY DEF Look, EndWait
<1>3. CASE Busy(c)
  BY <1>1, <1>3, BusyIsQuiet
<1>4. CASE Goto(c, "wait") \/ See(c, "claim")
  <2>1. "wait" \in Places \ {"work", "halt", "settle"} /\ "claim" \in Places \ {"work", "halt", "settle"}
    BY DEF Places
  <2> QED
    BY <1>1, <1>4, <2>1, QuietMoves
<1>5. CASE caller' = [caller EXCEPT ![c].pc = "wait", ![c].old = row.stamp]
  <2>1. caller[c] \in Locals /\ row.stamp \in Stamps
    BY DEF ControlInv, TypeOK, Rows
  <2>2. caller'[c] = [caller[c] EXCEPT !.pc = "wait", !.old = row.stamp]
    BY <1>5 DEF ControlInv, TypeOK
  <2>3. caller'[c] \in Locals /\ caller'[c].pc = "wait" /\ caller'[c].job = caller[c].job
    BY <2>1, <2>2 DEF Locals, Places
  <2> QED
    BY <1>1, <1>5, <2>3 DEF Quiet, Moves, ControlInv, TypeOK
<1> QED
  BY <1>2, <1>3, <1>4, <1>5

LEMMA ClaimIsQuiet ==
  ASSUME ControlInv, NEW c \in Callers, Claim(c)
  PROVE  Quiet(c)
<1>1. scope' = scope /\ active' = active /\ TypeOK' /\ caller[c].pc = "claim"
  BY ClaimKind DEF Claim, At
<1>2. CASE Busy(c)
  BY <1>1, <1>2, BusyIsQuiet
<1>3. CASE ~Busy(c)
  <2>1. PICK stamp : caller' = [caller EXCEPT ![c].pc = "provision", ![c].claim = stamp, ![c].old = 0]
    BY <1>3, Zenon DEF Claim
  <2>2. caller'[c] = [caller[c] EXCEPT !.pc = "provision", !.claim = stamp, !.old = 0]
    BY <2>1 DEF ControlInv, TypeOK
  <2>3. caller'[c].pc = "provision" /\ caller'[c].job = caller[c].job
    BY <2>2 DEF ControlInv, TypeOK, Locals
  <2>4. Moves(c)
    BY <1>1, <2>1 DEF Moves, ControlInv, TypeOK
  <2> QED
    BY <1>1, <2>3, <2>4 DEF Quiet
<1> QED
  BY <1>2, <1>3

LEMMA BootsAreQuiet ==
  ASSUME ControlInv, NEW c \in Callers, Provision(c) \/ Rollback(c) \/ Record(c)
  PROVE  Quiet(c)
<1>1. scope' = scope /\ active' = active
  BY DEF Provision, Rollback, Record
<1>2. CASE Provision(c)
  BY <1>1, <1>2, ProvisionMoves DEF Quiet
<1>3. CASE Rollback(c)
  BY <1>1, <1>3, RollbackMoves DEF Quiet
<1>4. CASE Record(c)
  <2>1. PICK p \in {"ready", "release"} : Leave(c, p)
    BY <1>4 DEF Record
  <2>2. p \in Places \ {"work", "halt", "settle"}
    BY DEF Places
  <2> QED
    BY <1>1, <2>1, <2>2, QuietMoves
<1> QED
  BY <1>2, <1>3, <1>4

LEMMA SurveysAreQuiet ==
  ASSUME ControlInv, NEW m \in Managers, Survey(m) \/ Suspend(m)
  PROVE  Quiet(m)
<1>1. scope' = scope /\ active' = active /\ m \in Callers
  BY DEF Survey, Suspend, Callers
<1>2. "suspend" \in Places \ {"work", "halt", "settle"} /\ "recheck" \in Places \ {"work", "halt", "settle"}
  BY DEF Places
<1>3. Busy(m) \/ Refused(m) \/ See(m, "suspend") \/ Goto(m, "recheck")
  BY DEF Survey, Suspend
<1>4. CASE Busy(m)
  BY <1>1, <1>4, BusyIsQuiet
<1>5. CASE Refused(m)
  BY <1>1, <1>5, RefusedRests DEF Quiet, Rests, Emptied
<1>6. CASE See(m, "suspend") \/ Goto(m, "recheck")
  BY <1>1, <1>2, <1>6, QuietMoves
<1> QED
  BY <1>3, <1>4, <1>5, <1>6

\* Whoever activates the computer holds a boot: nobody holds the lock.
LEMMA ActivateSpares ==
  ASSUME ControlInv, WorkSpared, NEW c \in Callers, Activate(c)
  PROVE  WorkSpared'
<1>1. scope' = scope /\ active' = active
  BY DEF Activate
<1>2. Moves(c) /\ caller'[c].job = caller[c].job /\ caller'[c].pc \notin {"halt", "settle"}
      /\ (caller'[c].pc = "work" => row.state = "booting")
  BY ActivateMoves DEF Holds
<1> QED
  BY <1>1, <1>2, SparedKept

\* The second check.
LEMMA RecheckSpares ==
  ASSUME ControlInv, WorkSpared, NEW m \in Managers, Recheck(m)
  PROVE  WorkSpared'
<1>1. scope' = scope /\ active' = active /\ m \in Callers
  BY DEF Recheck, Callers
<1>2. CASE InTheWay(m) # {}
  <2>1. Quiet(m)
    BY <1>1, <1>2, RefusedRests DEF Recheck, Quiet, Rests, Emptied
  <2> QED
    BY <1>1, <2>1, QuietSpares
<1>3. CASE InTheWay(m) = {}
  <2>1. Spares(m)
    BY <1>3 DEF Spares, InTheWay, OtherBots, Job
  <2>2. Moves(m) /\ Kept(m, "halt")
    BY <1>1, <1>3, Goes DEF Recheck, ControlInv, Places
  <2> QED
    BY <1>1, <2>1, <2>2, SparedKept DEF Kept
<1> QED
  BY <1>2, <1>3

LEMMA HaltSpares ==
  ASSUME ControlInv, WorkSpared, NEW m \in Managers, Halt(m)
  PROVE  WorkSpared'
<1>1. scope' = scope /\ active' = active /\ caller[m].pc = "halt" /\ m \in Callers
  BY DEF Halt, At, Callers
<1>2. Moves(m) /\ (Kept(m, "settle") \/ \E p \in {"release", "done"} : Emptied(m, p))
  <2>1. Goto(m, "settle") \/ \E p \in {"release", "done"} : Leave(m, p)
    BY DEF Halt
  <2> QED
    BY <1>1, <2>1, Goes, Leaves DEF ControlInv, Places
<1> QED
  BY <1>1, <1>2, SparedKept DEF Kept, Emptied

LEMMA SettleSpares ==
  ASSUME ControlInv, WorkSpared, NEW m \in Managers, Settle(m)
  PROVE  WorkSpared'
<1>1. PICK p \in {"ready", "done"} : Leave(m, p)
  BY DEF Settle
<1>2. m \in Callers /\ p \in Places \ {"work", "halt", "settle"} /\ scope' = scope /\ active' = active
  BY DEF Settle, Callers, Places
<1> QED
  BY <1>1, <1>2, QuietMoves, QuietSpares

LEMMA StaysSpares ==
  ASSUME ControlInv, WorkSpared, Stays, scope' = scope,
         \A r \in active' : r \in active \/ caller[r].pc = "idle"
  PROVE  WorkSpared'
BY DEF WorkSpared, Spares, Stays

-----------------------------------------------------------------------------
(* The inductive invariant *)

IInv == ControlInv /\ BoxInv /\ WorkSpared

\* A step that moves nobody: a run is asked for or stopped, a lease is renewed or lapses, a
\* session ends, a boot grows old.
LEMMA Still ==
  ASSUME IInv, \/ \E r \in Runs : Ask(r) \/ Beat(r) \/ Cancel(r)
               \/ \E c \in Callers : Lapse(c)
               \/ \E x \in Boxes : LoseSession(x)
               \/ Age
  PROVE  IInv'
<1>1. TypeOK' /\ Stays
  BY AskKind, BeatKind, CancelKind, LapseKind, LoseSessionKind, AgeKind DEF IInv
<1>2. scope' = scope /\ left' = left
  BY DEF Ask, Beat, Cancel, Lapse, LoseSession, Age
<1>3. \A x \in Boxes : box'[x] = box[x] \/ (box[x] = "running" /\ box'[x] = "lost")
  BY DEF Ask, Beat, Cancel, Lapse, LoseSession, Age, IInv, ControlInv, TypeOK
<1>4. \A r \in active' : r \in active \/ caller[r].pc = "idle"
  BY DEF Ask, Beat, Cancel, Lapse, LoseSession, Age, At
<1>5. ControlInv'
  BY <1>1, StaysKeeps DEF IInv, ControlInv
<1> QED
  BY <1>1, <1>2, <1>3, <1>4, <1>5, StaysKeepsBoxes, StaysSpares DEF IInv

LEMMA KindsKeep ==
  ASSUME ControlInv, NEW c \in Callers, TypeOK', ControlKinds(c)
  PROVE  ControlInv'
<1>1. row' \in Rows
  BY DEF TypeOK
<1> QED
  BY <1>1, RestsKeeps, ReadsKeeps, BootsOnKeeps, SuspendsOnKeeps, ClaimsKeeps, LocksKeeps, WritesKeeps
  DEF ControlKinds, ControlInv

LEMMA RunSteps ==
  ASSUME IInv, NEW r \in Runs, Finish(r) \/ Recover(r)
  PROVE  IInv'
<1>1. r \in Callers
  BY DEF Callers
<1>2. ControlInv'
  BY <1>1, FinishKind, RecoverKind, KindsKeep DEF IInv
<1>3. BoxInv'
  BY FinishBoxes, RecoverBoxes DEF IInv
<1>4. WorkSpared'
  BY <1>1, RunsAreQuiet, QuietSpares DEF IInv
<1> QED
  BY <1>2, <1>3, <1>4 DEF IInv

LEMMA LeaseSteps ==
  ASSUME IInv, NEW c \in Callers, Acquire(c) \/ Validate(c) \/ GiveBack(c) \/ Crash(c)
  PROVE  IInv'
<1>1. ControlInv'
  BY AcquireKind, ValidateKind, GiveBackKind, CrashKind, KindsKeep DEF IInv
<1>2. BoxInv'
  BY AcquireBoxes, ValidateBoxes, GiveBackBoxes, CrashBoxes DEF IInv
<1>3. WorkSpared'
  BY LeasesAreQuiet, QuietSpares DEF IInv
<1> QED
  BY <1>1, <1>2, <1>3 DEF IInv

LEMMA BootSteps ==
  ASSUME IInv, NEW c \in Callers,
         \/ Look(c) \/ EndWait(c) \/ Claim(c)
         \/ Provision(c) \/ Activate(c) \/ Rollback(c) \/ Record(c)
  PROVE  IInv'
<1>1. Record(c) => (caller[c].lost = "stuck" => caller[c].box # NoBox)
  BY DEF IInv, BoxInv, HandsOf, Record, At
<1>2. ControlInv'
  BY <1>1, LookKind, EndWaitKind, ClaimKind, ProvisionKind, ActivateKind, RollbackKind, RecordKind, KindsKeep
  DEF IInv
<1>3. BoxInv'
  BY LookBoxes, EndWaitBoxes, ClaimBoxes, ProvisionBoxes, ActivateBoxes, RollbackBoxes, RecordBoxes DEF IInv
<1>4. WorkSpared'
  BY LooksAreQuiet, ClaimIsQuiet, BootsAreQuiet, QuietSpares, ActivateSpares DEF IInv
<1> QED
  BY <1>2, <1>3, <1>4 DEF IInv

LEMMA ManagerSteps ==
  ASSUME IInv, NEW m \in Managers, Survey(m) \/ Suspend(m) \/ Recheck(m) \/ Halt(m) \/ Settle(m)
  PROVE  IInv'
<1>1. m \in Callers
  BY DEF Callers
<1>2. ControlInv'
  BY <1>1, SurveyKind, SuspendKind, RecheckKind, HaltKind, SettleKind, KindsKeep DEF IInv
<1>3. Settle(m) => (caller[m].job # "stop" => \A r \in active : caller[r].pc # "work")
  BY DEF IInv, WorkSpared, Spares, Settle, At
<1>4. BoxInv'
  BY <1>3, SurveyBoxes, SuspendBoxes, RecheckBoxes, HaltBoxes, SettleBoxes DEF IInv
<1>5. WorkSpared'
  BY <1>1, SurveysAreQuiet, QuietSpares, RecheckSpares, HaltSpares, SettleSpares DEF IInv
<1> QED
  BY <1>2, <1>4, <1>5 DEF IInv

LEMMA Invariant == Spec => []IInv
<1>1. Init => IInv
  BY Starts, BoxesStart, SparesAtFirst DEF IInv
<1>2. IInv /\ [Next]_vars => IInv'
  <2> SUFFICES ASSUME IInv, [Next]_vars PROVE IInv'
    OBVIOUS
  <2>1. CASE UNCHANGED vars
    BY <2>1 DEF vars, IInv, ControlInv, TypeOK, Bounded, Readings, ClaimsDiffer, SuspendLocks, Holds,
       BoxInv, HandsOf, AllocatedTo, KeepsRef, Spent, WorksOnRow, NoSandboxLost, WorkSpared, Spares
  <2>2. CASE Next
    BY <2>2, Still, RunSteps, LeaseSteps, BootSteps, ManagerSteps, Zenon DEF Next
  <2> QED
    BY <2>1, <2>2
<1> QED
  BY <1>1, <1>2, PTL DEF Spec

\* The row, the leases, the sandboxes and what every caller remembers stay what the code takes
\* them for, and updatedAt within its bound: after a claim in time only two more writes follow.
THEOREM ComputerTypeCorrect == Spec => []TypeOK
<1>1. IInv => TypeOK
  BY DEF IInv, ControlInv
<1> QED
  BY <1>1, Invariant, PTL

\* At most one boot under way can still activate the computer, for any number of runs and
\* requests booting it and reclaiming each other's boots: claims keep distinct stamps because
\* one that reclaims a boot moves past the stamp it observed.
THEOREM OneActivatorAlways == Spec => []OneActivator
<1>1. IInv => OneActivator
  BY DEF IInv, ControlInv, ClaimsDiffer, OneActivator, Holds, Booters
<1> QED
  BY <1>1, Invariant, PTL

\* Runs at work on a computer work on one living sandbox, the one of the row: whoever works
\* after a replacement or a second boot does so on a sandbox that has died, and recovers.
THEOREM OneSandboxAlways == Spec => []OneSandbox
<1>1. IInv => OneSandbox
  <2> SUFFICES ASSUME IInv, NEW q \in active, NEW r \in active, At(q, "work"), At(r, "work"),
                      box[caller[q].box] = "running", box[caller[r].box] = "running"
               PROVE  caller[q].box = caller[r].box
    BY DEF OneSandbox
  <2> QED
    BY DEF IInv, BoxInv, WorksOnRow, At, Dead
<1> QED
  BY <1>1, Invariant, PTL

\* Sleep, stop and replacement call the provider only when nobody they may not interrupt is at
\* work: the row is locked first and the runs looked for after, so none slips in between.
THEOREM SparesWorkAlways == Spec => []SparesWork
<1>1. IInv => SparesWork
  BY DEF IInv, WorkSpared, Spares, SparesWork, At, Job
<1> QED
  BY <1>1, Invariant, PTL

\* Booting loses no sandbox: whatever boot is lost, fails or is reclaimed, a living sandbox is
\* the row's, in somebody's hands, or one whose keeper died, failed to end it or let it go.
THEOREM NoSandboxLostAlways == Spec => []NoSandboxLost
<1>1. IInv => NoSandboxLost
  BY DEF IInv, BoxInv
<1> QED
  BY <1>1, Invariant, PTL

=============================================================================
