-------------------------------- MODULE Teaching --------------------------------
(***************************************************************************)
(* Teaching one bot: the user records a skill on the screen of the bot's   *)
(* computer; the recording ends by the user's stop, by its deadline or by  *)
(* a reader that meets a recording past its deadline, each of which makes  *)
(* it a draft, gives the screen back, posts the draft's card and cancels   *)
(* the deadline's job, in four separate steps that may be cut off.         *)
(* A session is numbered in the order of creation, a control lease in the  *)
(* order it was granted; 0 is none.                                        *)
(***************************************************************************)
EXTENDS Naturals, Sequences

CONSTANTS
  Requests,     \* concurrent requests of the user
  Timers,       \* workers that execute the deadline's job
  MaxSessions,  \* bound: sessions
  MaxControls,    \* bound: control leases
  MaxHitches    \* bound: steps that fail or whose process dies

ASSUME TeachingAssumption ==
  /\ Requests \cap Timers = {}
  /\ MaxSessions \in Nat \ {0} /\ MaxControls \in Nat \ {0} /\ MaxHitches \in Nat

VARIABLES
  skill,    \* taught_skills: status and the control lease kept with the recording
  card,     \* the card of the skill in the thread, with the status it shows
  timer,    \* sessions with a pending skill.teaching-expire job
  due,      \* sessions past their deadline
  screen,   \* the lease of the user's control of the screen, 0 when the bot has it
  controls,  \* the last lease
  act,      \* what each request and job is about, and the steps it has left
  untimed,  \* sessions a request left without their job
  hitches

teachingVars == <<skill, card, timer, due, screen, controls, act, untimed, hitches>>

Actors == Requests \cup Timers
Sessions == 1 .. MaxSessions
ControlLeases == 0 .. MaxControls
Steps == {"grant", "create", "enqueue", "finalize", "release", "emit", "cancel", "recheck",
          "delete", "card"}
AtRest == [doing |-> "none", of |-> 0, lease |-> 0, todo |-> <<>>]

TeachingTypeOK ==
  /\ skill \in [Sessions -> [status : {"none", "recording", "draft", "saved", "gone"}, lease : ControlLeases]]
  /\ card \in [Sessions -> {"none", "draft", "saved"}]
  /\ timer \subseteq Sessions /\ due \subseteq Sessions /\ untimed \subseteq Sessions
  /\ screen \in 0 .. controls /\ controls \in ControlLeases
  /\ act \in [Actors -> [doing : {"none", "start", "get", "stop", "save", "remove", "expire"},
                         of : {0} \cup Sessions, lease : ControlLeases, todo : Seq(Steps)]]
  /\ hitches \in 0 .. MaxHitches

TeachingInit ==
  /\ skill = [s \in Sessions |-> [status |-> "none", lease |-> 0]]
  /\ card = [s \in Sessions |-> "none"]
  /\ timer = {} /\ due = {} /\ untimed = {}
  /\ screen = 0 /\ controls = 0
  /\ act = [a \in Actors |-> AtRest]
  /\ hitches = 0

--------------------------------------------------------------------------------
(* What a request or a job has to do *)

Known(s) == skill[s].status \in {"recording", "draft", "saved"}
Recording == {s \in Sessions : skill[s].status = "recording"}

\* The job would be cancelled before there is nothing left for it to do.
CompletionMutantCancelFirst == <<"cancel", "finalize", "release", "emit">>

\* completeTeachingSession, and the cancellation that follows it.
Completion == <<"finalize", "release", "emit", "cancel">>

\* expireTaughtSkillTeaching, from what it reads of the session.
ExpireSteps(s) ==
  CASE skill[s].status = "recording" -> IF s \in due THEN Completion ELSE <<>>
    [] skill[s].status = "draft" -> <<"release", "emit">>
    [] skill[s].status = "saved" -> <<"release">>
    [] OTHER -> <<>>

Begins(a, what, s, lease, steps) ==
  /\ act[a] = AtRest /\ steps # <<>>
  /\ act' = [act EXCEPT ![a] = [doing |-> what, of |-> s, lease |-> lease, todo |-> steps]]

At(a, step) == act[a].todo # <<>> /\ Head(act[a].todo) = step

Going(a, steps) ==
  act' = [act EXCEPT ![a] = IF steps = <<>> THEN AtRest ELSE [@ EXCEPT !.todo = steps]]
Goes(a) == Going(a, Tail(act[a].todo))

--------------------------------------------------------------------------------
(* The requests of the user *)

\* start reads the screen's control before it looks for a recording.
StartTeaching(q) ==
  /\ Recording = {}
  /\ Begins(q, "start", 0, screen, <<"grant", "create", "enqueue">>)
  /\ UNCHANGED <<skill, card, timer, due, screen, controls, untimed, hitches>>

\* grantTakeover: the control that was read is extended if it is still there, or a new one replaces any.
GrantControl(q) ==
  /\ At(q, "grant")
  /\ IF act[q].lease # 0 /\ screen = act[q].lease
       THEN Goes(q) /\ UNCHANGED <<screen, controls>>
       ELSE /\ controls < MaxControls
            /\ controls' = controls + 1 /\ screen' = controls + 1
            /\ act' = [act EXCEPT ![q].lease = controls + 1, ![q].todo = Tail(@)]
  /\ UNCHANGED <<skill, card, timer, due, untimed, hitches>>

\* Under the bot's lock; the control stays granted when there is a recording by now.
CreateSession(q) ==
  /\ At(q, "create")
  /\ IF Recording # {}
       THEN Going(q, <<>>) /\ UNCHANGED skill
       ELSE \E s \in Sessions :
              /\ skill[s].status = "none" /\ \A t \in 1 .. (s - 1) : skill[t].status # "none"
              /\ skill' = [skill EXCEPT ![s] = [status |-> "recording", lease |-> act[q].lease]]
              /\ act' = [act EXCEPT ![q].of = s, ![q].todo = Tail(@)]
  /\ UNCHANGED <<card, timer, due, screen, controls, untimed, hitches>>

EnqueueExpiry(q) ==
  /\ At(q, "enqueue") /\ Goes(q)
  /\ timer' = timer \cup {act[q].of}
  /\ UNCHANGED <<skill, card, due, screen, controls, untimed, hitches>>

\* get, and every other read of a session, ends a recording that is past its deadline.
GetSkill(q, s) ==
  /\ Known(s) /\ Begins(q, "get", s, 0, ExpireSteps(s))
  /\ UNCHANGED <<skill, card, timer, due, screen, controls, untimed, hitches>>

StopTeaching(q, s) ==
  /\ Known(s) /\ Begins(q, "stop", s, 0, ExpireSteps(s) \o <<"recheck">>)
  /\ UNCHANGED <<skill, card, timer, due, screen, controls, untimed, hitches>>

\* stopTeachingSession reads the session again; somebody may have ended it meanwhile.
Recheck(q) ==
  LET status == skill[act[q].of].status IN
  /\ At(q, "recheck")
  /\ Going(q, CASE status = "recording" -> Completion
                [] status \in {"draft", "saved"} -> <<"release">>
                [] OTHER -> <<>>)
  /\ UNCHANGED <<skill, card, timer, due, screen, controls, untimed, hitches>>

Save(q, s) ==
  /\ skill[s].status \in {"draft", "saved"} /\ Begins(q, "save", s, 0, <<"card">>)
  /\ skill' = [skill EXCEPT ![s].status = "saved"]
  /\ UNCHANGED <<card, timer, due, screen, controls, untimed, hitches>>

UpdateCard(q) ==
  /\ At(q, "card") /\ Goes(q)
  /\ card' = [card EXCEPT ![act[q].of] = IF @ = "none" THEN @ ELSE "saved"]
  /\ UNCHANGED <<skill, timer, due, screen, controls, untimed, hitches>>

Remove(q, s) ==
  /\ Known(s)
  /\ Begins(q, "remove", s, 0,
            IF skill[s].status = "recording" THEN <<"cancel", "release", "delete">> ELSE <<"delete">>)
  /\ UNCHANGED <<skill, card, timer, due, screen, controls, untimed, hitches>>

Delete(q) ==
  /\ At(q, "delete") /\ Goes(q)
  /\ skill' = [skill EXCEPT ![act[q].of].status = "gone"]
  /\ UNCHANGED <<card, timer, due, screen, controls, untimed, hitches>>

--------------------------------------------------------------------------------
(* The end of a session *)

\* The job stays until it has been carried out.
FireExpiry(w, s) ==
  /\ s \in timer \cap due /\ \A t \in Timers : act[t].of # s
  /\ Begins(w, "expire", s, 0, IF skill[s].status = "recording" THEN Completion
                                                                ELSE ExpireSteps(s) \o <<"cancel">>)
  /\ UNCHANGED <<skill, card, timer, due, screen, controls, untimed, hitches>>

\* What follows the card in the steps of a completion.
AfterCard(steps) == Tail(Tail(Tail(steps)))

\* finalizeTeachingRecording, under the lock of the row; no card for what was saved meanwhile.
Finalize(a) ==
  LET s == act[a].of IN
  /\ At(a, "finalize")
  /\ Going(a, CASE skill[s].status = "gone" -> <<>>
                [] skill[s].status = "saved" -> <<"release">> \o AfterCard(act[a].todo)
                [] OTHER -> Tail(act[a].todo))
  /\ skill' = [skill EXCEPT ![s].status = IF @ = "recording" THEN "draft" ELSE @]
  /\ UNCHANGED <<card, timer, due, screen, controls, untimed, hitches>>

\* releaseTeachingComputerControl: only the control the session was given.
GiveBack(a) ==
  /\ At(a, "release") /\ Goes(a)
  /\ screen' = IF screen = skill[act[a].of].lease THEN 0 ELSE screen
  /\ UNCHANGED <<skill, card, timer, due, controls, untimed, hitches>>

\* emitSkillDraftMessages: once, under the lock of the row, but from what was read of it before.
EmitCard(a) ==
  /\ At(a, "emit") /\ Goes(a)
  /\ card' = [card EXCEPT ![act[a].of] = IF @ = "none" THEN "draft" ELSE @]
  /\ UNCHANGED <<skill, timer, due, screen, controls, untimed, hitches>>

CancelExpiry(a) ==
  /\ At(a, "cancel") /\ Goes(a)
  /\ timer' = timer \ {act[a].of}
  /\ UNCHANGED <<skill, card, due, screen, controls, untimed, hitches>>

TeachingStep(a) ==
  \/ GrantControl(a) \/ CreateSession(a) \/ EnqueueExpiry(a) \/ Recheck(a) \/ UpdateCard(a) \/ Delete(a)
  \/ Finalize(a) \/ GiveBack(a) \/ EmitCard(a) \/ CancelExpiry(a)

--------------------------------------------------------------------------------
(* Around the session *)

\* A step fails or its process dies.  Nothing retries a request; a job stays pending.
Hitch(a) ==
  /\ act[a] # AtRest /\ hitches < MaxHitches
  /\ act' = [act EXCEPT ![a] = AtRest] /\ hitches' = hitches + 1
  /\ untimed' = IF act[a].doing \in {"start", "remove"} /\ act[a].of \in Sessions \ timer
                  THEN untimed \cup {act[a].of} ELSE untimed
  /\ UNCHANGED <<skill, card, timer, due, screen, controls>>

DeadlinePasses(s) ==
  /\ skill[s].status # "none" /\ s \notin due
  /\ due' = due \cup {s}
  /\ UNCHANGED <<skill, card, timer, screen, controls, act, untimed, hitches>>

\* takeover of the router, beside any session.
UserTakesScreen ==
  /\ screen = 0 /\ controls < MaxControls
  /\ controls' = controls + 1 /\ screen' = controls + 1
  /\ UNCHANGED <<skill, card, timer, due, act, untimed, hitches>>

\* release of the router, or the lapse of the control.
ScreenGivenBack ==
  /\ screen # 0 /\ screen' = 0
  /\ UNCHANGED <<skill, card, timer, due, controls, act, untimed, hitches>>

TeachingNext ==
  \/ \E q \in Requests :
       \/ StartTeaching(q)
       \/ \E s \in Sessions : GetSkill(q, s) \/ StopTeaching(q, s) \/ Save(q, s) \/ Remove(q, s)
  \/ \E w \in Timers, s \in Sessions : FireExpiry(w, s)
  \/ \E a \in Actors : TeachingStep(a) \/ Hitch(a)
  \/ \E s \in Sessions : DeadlinePasses(s)
  \/ UserTakesScreen \/ ScreenGivenBack

\* The deadline passes, the queue delivers the job and retries it, and what was started goes on.
TeachingFairness ==
  /\ \A a \in Actors : WF_teachingVars(TeachingStep(a))
  /\ \A s \in Sessions : WF_teachingVars(\E w \in Timers : FireExpiry(w, s))
  /\ \A s \in Sessions : WF_teachingVars(DeadlinePasses(s))

TeachingSpec == TeachingInit /\ [][TeachingNext]_teachingVars /\ TeachingFairness

--------------------------------------------------------------------------------
(* Correctness *)

\* Nothing is left to do for a session: it was not recorded yet, it is a draft with its card whose
\* screen was given back, or the user has saved or removed it.
Settled(s) ==
  \/ skill[s].status \in {"none", "saved", "gone"}
  \/ skill[s].status = "draft" /\ card[s] # "none" /\ screen # skill[s].lease

\* However a start, stops, readers, the deadline's job and a removal of one session interleave, and
\* wherever one of them is cut off: a recording, and a draft that lacks its card or still has the
\* screen, has its job pending, unless a start or a removal of it is under way or failed
\* (completeTeachingSession, expireTaughtSkillTeaching, remove).
SessionTended ==
  \A s \in Sessions :
    \/ Settled(s) \/ s \in timer \cup untimed
    \/ \E a \in Actors : act[a].of = s /\ act[a].doing \in {"start", "remove"}

\* Whoever ends a session, and wherever it is cut off: a draft gets its card and the screen it was
\* recorded on is given back, by the request or by the job that stays pending until both are done,
\* unless the user saves or removes it or a failed start or removal left the session without its
\* job (completeTeachingSession, expireTaughtSkillTeaching).
SessionSettles ==
  \A s \in Sessions :
    (skill[s].status = "draft" /\ s \notin untimed) ~>
      \/ skill[s].status \in {"saved", "gone"} \/ s \in untimed
      \/ card[s] # "none" /\ screen # skill[s].lease
=============================================================================
