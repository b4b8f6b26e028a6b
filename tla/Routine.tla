--------------------------------- MODULE Routine ---------------------------------
(***************************************************************************)
(* One routine: its row, the keyed wake-up job for its next slot, the      *)
(* handlers that fire it, and the edits, check-in syncs and removals that  *)
(* happen between a handler's reads and writes.  Slots are the dates of    *)
(* its schedule, numbered; the second by which a wake-up may be early is   *)
(* left out.                                                               *)
(***************************************************************************)
EXTENDS Naturals, FiniteSets

CONSTANTS
  Wakers,    \* routine.wakeup jobs that may be handled at the same time
  LastSlot,  \* bound: the clock stops here
  MaxEdits,  \* bound: edits, syncs and removals
  MaxBlows   \* bound: enqueues that fail and processes that die

ASSUME RoutineAssumption == LastSlot \in Nat \ {0} /\ MaxEdits \in Nat /\ MaxBlows \in Nat

VARIABLES
  kind,      \* a user's recurring routine, a one-shot, a check-in, or removed
  active, nextRunAt, lastRunAt,  \* the row: 0 is null; whether it ever ran
  clock,     \* the last slot that has come
  wake,      \* the slot the routine:<id> job is queued for, 0 for none
  waker,     \* the locals of each handler, and its run's state
  editor,    \* routines.update between its read and its write
  fired,     \* per slot, the runs made for it that stand
  putBack,   \* history: slots made due again while a run of theirs stands
  dropped,   \* history: due slots replaced without a run
  edits, blows

routineVars == <<kind, active, nextRunAt, lastRunAt, clock, wake, waker, editor, fired, putBack,
                 dropped, edits, blows>>
routineRow == <<kind, active, nextRunAt, lastRunAt>>

Slots == 1 .. LastSlot
None == 0
Never == LastSlot + 1
NoWaker == [pc |-> "idle", at |-> None, next |-> None, ran |-> FALSE, mine |-> "none"]
NoEditor == [pc |-> "idle", input |-> "rename", set |-> None, sync |-> FALSE]

RoutineTypeOK ==
  /\ kind \in {"recurring", "once", "checkin", "removed"} /\ active \in BOOLEAN
  /\ nextRunAt \in 0 .. Never /\ lastRunAt \in BOOLEAN
  /\ clock \in 0 .. LastSlot /\ wake \in 0 .. Never
  /\ waker \in [Wakers -> [pc : {"idle", "claim", "enqueue", "undo", "rearm"}, at : 0 .. LastSlot,
                           next : 0 .. Never, ran : BOOLEAN, mine : {"none", "queued", "taken"}]]
  /\ editor \in [pc : {"idle", "write"}, input : {"rename", "on", "off", "crons"},
                 set : 0 .. Never, sync : BOOLEAN]
  /\ fired \in [Slots -> 0 .. MaxEdits + MaxBlows + 1]
  /\ putBack \subseteq Slots /\ dropped \subseteq Slots
  /\ edits \in 0 .. MaxEdits /\ blows \in 0 .. MaxBlows

\* nextCronDateAcross
SlotAfter(t) == t + 1

\* Just created: the row is stored before the wake-up job, whose enqueue may fail.
RoutineInit ==
  /\ kind \in {"recurring", "once", "checkin"} /\ active = TRUE /\ nextRunAt = 1
  /\ lastRunAt = FALSE
  /\ clock = 0 /\ wake \in {None, 1}
  /\ waker = [w \in Wakers |-> NoWaker] /\ editor = NoEditor
  /\ fired = [s \in Slots |-> 0] /\ putBack = {} /\ dropped = {}
  /\ edits = 0 /\ blows = 0

Blow == blows < MaxBlows /\ blows' = blows + 1
Edit == edits < MaxEdits /\ edits' = edits + 1

\* A job that throws is retried, unless its key was given to a newer one meanwhile.
Retry(s) == wake' = IF wake = None THEN s ELSE wake

\* The slot a write of the row gives up, and those it makes due again.
Replaced(next) == IF active /\ nextRunAt \in Slots /\ nextRunAt # next THEN {nextRunAt} ELSE {}
Again(next) == IF next \in Slots THEN {s \in Slots : s >= next /\ fired[s] > 0} ELSE {}

Tick ==
  /\ clock < LastSlot /\ clock' = clock + 1
  /\ UNCHANGED <<routineRow, wake, waker, editor, fired, putBack, dropped, edits, blows>>

\* routineScan of the reconciler
RearmDue ==
  /\ active /\ nextRunAt # None /\ nextRunAt <= clock + 1 /\ wake # nextRunAt
  /\ wake' = nextRunAt
  /\ UNCHANGED <<routineRow, clock, waker, editor, fired, putBack, dropped, edits, blows>>

--------------------------------------------------------------------------------
(* wakeRoutine *)

WakerTo(w, pc) == waker' = [waker EXCEPT ![w].pc = pc]
WakerEnds(w) == waker' = [waker EXCEPT ![w] = NoWaker]

\* The job is due; the row is read and the next date computed.
TakeWake(w) ==
  /\ waker[w].pc = "idle" /\ wake # None /\ wake <= clock
  /\ wake' = None
  /\ IF active /\ nextRunAt = wake
     THEN waker' = [waker EXCEPT ![w] =
            [pc |-> "claim", at |-> wake, ran |-> lastRunAt, mine |-> "none",
             next |-> IF kind = "once" THEN None ELSE SlotAfter(clock)]]
     ELSE UNCHANGED waker
  /\ UNCHANGED <<routineRow, clock, editor, fired, putBack, dropped, edits, blows>>

\* Mutant: the row is not compared with what was read.
DueStillMutantAny(w) == TRUE

DueStill(w) == active /\ nextRunAt = waker[w].at

MoveOn(w) ==
  /\ lastRunAt' = TRUE /\ nextRunAt' = waker[w].next /\ active' = (waker[w].next # None)
  /\ UNCHANGED kind

\* The slot is claimed and its task and run are made in one transaction.
ClaimSlot(w) ==
  /\ waker[w].pc = "claim"
  /\ IF DueStill(w) /\ kind # "removed"
     THEN /\ MoveOn(w)
          /\ waker' = [waker EXCEPT ![w].pc = "enqueue", ![w].mine = "queued"]
          /\ fired' = [fired EXCEPT ![waker[w].at] = @ + 1]
     ELSE WakerEnds(w) /\ UNCHANGED <<routineRow, fired>>
  /\ UNCHANGED <<clock, wake, editor, putBack, dropped, edits, blows>>

\* A check-in with nothing to say moves its schedule on and makes no run.
SkipCheckIn(w) ==
  /\ waker[w].pc = "claim" /\ kind = "checkin"
  /\ IF DueStill(w)
     THEN MoveOn(w) /\ WakerTo(w, "rearm") /\ dropped' = dropped \cup {waker[w].at}
     ELSE WakerEnds(w) /\ UNCHANGED <<routineRow, dropped>>
  /\ UNCHANGED <<clock, wake, editor, fired, putBack, edits, blows>>

EnqueueRun(w) ==
  /\ waker[w].pc = "enqueue"
  /\ WakerTo(w, "rearm")
  /\ UNCHANGED <<routineRow, clock, wake, editor, fired, putBack, dropped, edits, blows>>

\* The enqueue throws; the job may be queued all the same.
EnqueueThrows(w) ==
  /\ waker[w].pc = "enqueue" /\ Blow
  /\ WakerTo(w, "undo")
  /\ UNCHANGED <<routineRow, clock, wake, editor, fired, putBack, dropped, edits>>

\* A worker takes the run: its job was queued, or the reconciler found it.
TakeRoutineRun(w) ==
  /\ waker[w].mine = "queued"
  /\ waker' = [waker EXCEPT ![w].mine = "taken"]
  /\ UNCHANGED <<routineRow, clock, wake, editor, fired, putBack, dropped, edits, blows>>

\* Mutant: the run is deleted and the next date kept.
UndoClaimMutantKeepsDate(w) ==
  /\ waker[w].pc = "undo"
  /\ fired' = IF waker[w].mine = "taken" THEN fired ELSE [fired EXCEPT ![waker[w].at] = @ - 1]
  /\ WakerEnds(w) /\ Retry(waker[w].at)
  /\ UNCHANGED <<routineRow, clock, editor, putBack, dropped, edits, blows>>

\* The claim is restored: the run is deleted if it is still queued, and the slot made due
\* again if the row is as the claim left it.
UndoClaim(w) ==
  LET c == waker[w]
      stands == c.mine = "taken"
      restores == kind # "removed" /\ nextRunAt = c.next /\ (c.next = None => ~active) IN
  /\ c.pc = "undo"
  /\ fired' = IF stands THEN fired ELSE [fired EXCEPT ![c.at] = @ - 1]
  /\ IF restores
     THEN /\ nextRunAt' = c.at /\ active' = TRUE /\ lastRunAt' = c.ran
          /\ dropped' = dropped \cup Replaced(c.at)
          /\ putBack' = putBack \cup {s \in Slots : s >= c.at /\ fired'[s] > 0}
          /\ UNCHANGED kind
     ELSE /\ dropped' = IF stands THEN dropped ELSE dropped \cup {c.at}
          /\ UNCHANGED <<routineRow, putBack>>
  /\ WakerEnds(w) /\ Retry(c.at)
  /\ UNCHANGED <<clock, editor, edits, blows>>

\* The job of the next slot is queued, or the one-shot's cancelled; the reconciler repairs
\* an enqueue that fails.
Rearm(w) ==
  /\ waker[w].pc = "rearm"
  /\ \/ wake' = waker[w].next /\ UNCHANGED blows
     \/ Blow /\ UNCHANGED wake
  /\ WakerEnds(w)
  /\ UNCHANGED <<routineRow, clock, editor, fired, putBack, dropped, edits>>

WakerDies(w) ==
  /\ waker[w].pc # "idle" /\ Blow
  /\ Retry(waker[w].at) /\ WakerEnds(w)
  /\ UNCHANGED <<routineRow, clock, editor, fired, putBack, dropped, edits>>

--------------------------------------------------------------------------------
(* Edits *)

\* routines.update reads the row and computes the date it will write.
ReadForEdit(input) ==
  LET on == input # "off" /\ (input = "on" \/ active)
      changed == (~active /\ on) \/ input = "crons"
      date == IF ~on THEN None
              ELSE IF kind = "once"
              THEN IF nextRunAt = None /\ ~lastRunAt THEN SlotAfter(clock) ELSE nextRunAt
              ELSE IF changed \/ nextRunAt = None THEN SlotAfter(clock) ELSE nextRunAt IN
  /\ editor.pc = "idle" /\ kind \in {"recurring", "once"} /\ Edit
  /\ kind = "once" => input # "crons" /\ (nextRunAt = None => ~lastRunAt)
  /\ editor' = [pc |-> "write", input |-> input, set |-> date,
                sync |-> changed \/ active # on \/ (nextRunAt = None /\ date # None)]
  /\ UNCHANGED <<routineRow, clock, wake, waker, fired, putBack, dropped, blows>>

\* The row is written by its id, whatever happened since; active only if it was asked for.
WriteEdit ==
  /\ editor.pc = "write"
  /\ IF kind = "removed" THEN UNCHANGED <<routineRow, wake, putBack, dropped, blows>>
     ELSE /\ nextRunAt' = editor.set
          /\ active' = CASE editor.input = "on" -> TRUE [] editor.input = "off" -> FALSE
                         [] OTHER -> active
          /\ putBack' = putBack \cup Again(editor.set)
          /\ dropped' = dropped \cup Replaced(editor.set)
          /\ \/ wake' = (IF ~editor.sync THEN wake
                         ELSE IF active' /\ nextRunAt' # None THEN nextRunAt' ELSE None)
                /\ UNCHANGED blows
             \/ Blow /\ UNCHANGED wake
          /\ UNCHANGED <<kind, lastRunAt>>
  /\ editor' = NoEditor
  /\ UNCHANGED <<clock, waker, fired, edits>>

\* syncBotCheckInRoutine with other settings than the stored ones.
SyncCheckIn(enabled) ==
  LET date == IF enabled THEN SlotAfter(clock) ELSE None IN
  /\ kind = "checkin" /\ Edit
  /\ nextRunAt' = date /\ active' = enabled
  /\ dropped' = dropped \cup Replaced(date) /\ putBack' = putBack \cup Again(date)
  /\ \/ wake' = date /\ UNCHANGED blows
     \/ Blow /\ UNCHANGED wake
  /\ UNCHANGED <<kind, lastRunAt, clock, waker, editor, fired>>

\* routines.remove, or cancelScheduleFromTool; then the job is cancelled.
RemoveRoutine ==
  /\ kind \in {"recurring", "once"} /\ Edit
  /\ kind' = "removed" /\ active' = FALSE /\ nextRunAt' = None
  /\ dropped' = dropped \cup Replaced(None)
  /\ wake' = None
  /\ UNCHANGED <<lastRunAt, clock, waker, editor, fired, putBack, blows>>

\* archiveBot
ArchiveOwner ==
  /\ kind # "removed" /\ Edit
  /\ active' = FALSE /\ nextRunAt' = None
  /\ dropped' = dropped \cup Replaced(None)
  /\ wake' = None
  /\ UNCHANGED <<kind, lastRunAt, clock, waker, editor, fired, putBack, blows>>

WakerStep(w) ==
  \/ ClaimSlot(w) \/ SkipCheckIn(w) \/ EnqueueRun(w) \/ EnqueueThrows(w) \/ UndoClaim(w) \/ Rearm(w)

RoutineNext ==
  \/ Tick \/ RearmDue \/ WriteEdit \/ RemoveRoutine \/ ArchiveOwner
  \/ \E enabled \in BOOLEAN : SyncCheckIn(enabled)
  \/ \E input \in {"rename", "on", "off", "crons"} : ReadForEdit(input)
  \/ \E w \in Wakers : TakeWake(w) \/ WakerStep(w) \/ TakeRoutineRun(w) \/ WakerDies(w)

\* The queue delivers what is due, the reconciler scans, and handlers go on.
RoutineFairness ==
  /\ WF_routineVars(RearmDue) /\ WF_routineVars(\E w \in Wakers : TakeWake(w))
  /\ \A w \in Wakers : WF_routineVars(WakerStep(w))

RoutineSpec == RoutineInit /\ [][RoutineNext]_routineVars /\ RoutineFairness

--------------------------------------------------------------------------------
\* A slot fires once, however often its wake-up is delivered and to whom: a second run
\* stands only for a slot that was made due again, by an edit that wrote back the date it had
\* read or by the compensation of a claim whose run had been taken.  (wakeRoutine)
FiresOnce == \A s \in Slots : fired[s] > 1 => s \in putBack

\* A slot that has come ends up with a run that stands even when enqueues fail and processes
\* die, unless the routine is edited away from it or a check-in has nothing to say.
\* (wakeRoutine, routineScan)
DueFires ==
  \A s \in Slots :
    (active /\ nextRunAt = s /\ clock >= s) ~> [](fired[s] > 0 \/ s \in dropped)
================================================================================
