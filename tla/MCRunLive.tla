------------------------------ MODULE MCRunLive ------------------------------
(* What must happen eventually to the runs of a bot, to a run that waits for its  *)
(* user on the screen, and to a skill the user has shown.  The models share no    *)
(* state: a behaviour is about one part, the others stay in an initial state.     *)
EXTENDS MCRunLifecycle, ScreenControl, Teaching

VARIABLE part

liveVars == <<part, vars, screenVars, teachingVars>>

PartInit ==
  /\ part \in {"runs", "screen", "teaching"}
  /\ Init
  /\ ScreenInit /\ (part = "screen" \/ owner = Nobody)
  /\ TeachingInit

PartNext ==
  /\ \/ part = "runs" /\ Next /\ UNCHANGED <<screenVars, teachingVars>>
     \/ part = "screen" /\ ScreenNext /\ UNCHANGED <<vars, teachingVars>>
     \/ part = "teaching" /\ TeachingNext /\ UNCHANGED <<vars, screenVars>>
  /\ UNCHANGED part

\* Fairness, ScreenFairness and TeachingFairness, each in the behaviours that are about its part.
PartFairness ==
  /\ \A c \in Conts : /\ WF_vars(part = "runs" /\ Advance(c))
                      /\ WF_vars(part = "runs" /\ EndTurn(c))
                      /\ WF_vars(part = "runs" /\ Heartbeat(c))
  /\ \A r \in Runs : /\ WF_vars(part = "runs" /\ \E c \in Conts : Deliver(c, r))
                     /\ WF_vars(part = "runs" /\ Reconcile(r))
                     /\ WF_vars(part = "runs" /\ ~Attended(r) /\ Expire(r))
  /\ WF_screenVars(part = "screen" /\ ControlLapses)
  /\ WF_screenVars(part = "screen" /\ SweepControls)
  /\ \A d \in ExpiryWorkers : WF_screenVars(part = "screen" /\ TakeExpiry(d))
  /\ \A d \in DeskIds : WF_screenVars(part = "screen" /\ DeskStep(d))
  /\ \A a \in Actors : WF_teachingVars(part = "teaching" /\ TeachingStep(a))
  /\ \A s \in Sessions : /\ WF_teachingVars(part = "teaching" /\ \E w \in Timers : FireExpiry(w, s))
                         /\ WF_teachingVars(part = "teaching" /\ DeadlinePasses(s))

PartSpec == PartInit /\ [][PartNext]_liveVars /\ PartFairness

PartView == <<part, LiveView, screenVars, teachingVars>>
==============================================================================
