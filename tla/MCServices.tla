------------------------------- MODULE MCServices -------------------------------
(* The services around the run on small instances, all in one run.  They share   *)
(* no state in the models: "pick" is the one a behaviour is about, and the others *)
(* stay in an initial state of theirs.                                           *)
EXTENDS Outbox, ThreadView, Effects, Outcomes, Compaction, Routine, StuckNotice, Mirror, CloudAgent,
        Updater

CONSTANTS
  d1, d2,
  Picked   \* the services of a run

Symmetry == Permutations(Drains)

VARIABLE pick

servicesVars == <<pick, vars, viewVars, effectVars, outcomesVars, historyVars, routineVars,
                  noticeVars, mirrorVars, agentVars, updaterVars>>

ServicesTypeOK ==
  /\ pick = "outbox" => TypeOK
  /\ pick = "view" => ViewTypeOK
  /\ pick = "effects" => EffectsTypeOK
  /\ pick = "outcomes" => OutcomesTypeOK
  /\ pick = "compaction" => CompactionTypeOK
  /\ pick = "routine" => RoutineTypeOK
  /\ pick = "notice" => StuckNoticeTypeOK
  /\ pick = "mirror" => MirrorTypeOK
  /\ pick = "cloud" => CloudAgentTypeOK
  /\ pick = "updater" => UpdaterTypeOK

ServicesInit ==
  /\ pick \in Picked
  /\ Init /\ StuckNoticeInit
  /\ ViewInit /\ (pick = "view" \/ (log = {} /\ listening))
  /\ EffectsInit /\ (pick = "effects" \/ (consequential /\ plan = "ask"))
  /\ OutcomesInit /\ (pick = "outcomes" \/ byAge = CHOOSE line \in SetToSeqs(Delegated) : TRUE)
  /\ CompactionInit /\ (pick = "compaction" \/ last = 0)
  /\ RoutineInit /\ (pick = "routine" \/ (kind = "once" /\ wake = None))
  /\ MirrorInit /\ (pick = "mirror" \/ channel)
  /\ CloudAgentInit /\ (pick = "cloud" \/ accepts)
  /\ UpdaterInit /\ (pick = "updater" \/ (tree.on = Home /\ origin = "fork"))

\* The outbox up to what no action and no property of these runs tells apart: retry data of
\* rows that nobody retries, the ways in which a row is done, a declined and a revoked pair,
\* the counters of an identity that is unlinked for good, and how many acceptances and doubts
\* make up their difference.
RowView(k) ==
  IF out[k].status = "pending" THEN out[k]
  ELSE [out[k] EXCEPT !.due = TRUE,
          !.attempts = IF \E d \in Drains : drain[d].row = k THEN @ ELSE 0,
          !.status = IF @ = "failed" /\ (out[k].handle \/ out[k].kind # "invite") THEN "sent" ELSE @]
OutboxView ==
  <<[k \in Rows |-> RowView(k)], created, IF conn = "declined" THEN "revoked" ELSE conn, lock,
    drain, job, linked, IF linked THEN <<since, inbound, unanswered>> ELSE <<>>, faults,
    [k \in Rows |-> accepted[k] - doubt[k]]>>

\* The variables of the service a behaviour is about; the others never change in it.
ServicesView ==
  CASE pick = "outbox" -> <<pick, OutboxView>>
    [] pick = "view" -> <<pick, viewVars>>
    [] pick = "effects" -> <<pick, effectVars>>
    [] pick = "outcomes" -> <<pick, outcomesVars>>
    [] pick = "compaction" -> <<pick, historyVars>>
    [] pick = "routine" -> <<pick, routineVars>>
    [] pick = "notice" -> <<pick, noticeVars>>
    [] pick = "mirror" -> <<pick, mirrorVars>>
    [] pick = "cloud" -> <<pick, agentVars>>
    [] pick = "updater" -> <<pick, updaterVars>>

Others(service, stepVars) == IF pick = service THEN TRUE ELSE UNCHANGED stepVars

ServicesNext ==
  /\ \/ pick = "outbox" /\ Next
     \/ pick = "view" /\ ViewNext
     \/ pick = "effects" /\ EffectsNext
     \/ pick = "outcomes" /\ OutcomesNext
     \/ pick = "compaction" /\ CompactionNext
     \/ pick = "routine" /\ RoutineNext
     \/ pick = "notice" /\ StuckNoticeNext
     \/ pick = "mirror" /\ MirrorNext
     \/ pick = "cloud" /\ CloudAgentNext
     \/ pick = "updater" /\ UpdaterNext
  /\ UNCHANGED pick
  /\ Others("outbox", vars) /\ Others("view", viewVars) /\ Others("effects", effectVars)
  /\ Others("outcomes", outcomesVars) /\ Others("compaction", historyVars)
  /\ Others("routine", routineVars) /\ Others("notice", noticeVars)
  /\ Others("mirror", mirrorVars) /\ Others("cloud", agentVars)
  /\ Others("updater", updaterVars)

\* Fairness, Outcomes-, Routine-, Mirror-, CloudAgent- and ViewFairness, each in the behaviours
\* that are about its service.
ServicesFairness ==
  /\ \A d \in Drains : WF_vars(pick = "outbox" /\ Advance(d))
  /\ WF_vars(pick = "outbox" /\ \E d \in Drains : Start(d))
  /\ \A k \in Rows : WF_vars(pick = "outbox" /\ Due(k))
  /\ WF_vars(pick = "outbox" /\ Reconcile)
  /\ WF_viewVars(pick = "view" /\ StreamRuns /\ UNCHANGED clientVars)
  /\ WF_viewVars(pick = "view" /\ WriterEnds /\ UNCHANGED clientVars)
  /\ WF_viewVars(pick = "view" /\ Subscribe)
  /\ WF_viewVars(pick = "view" /\ \E e \in Events : Receive(e))
  /\ WF_viewVars(pick = "view" /\ ~shown /\ Refresh)
  /\ SF_viewVars(pick = "view" /\ Answer("refresh"))
  /\ WF_viewVars(pick = "view" /\ RefreshArrives)
  /\ WF_viewVars(pick = "view" /\ BecomeReady)
  /\ WF_outcomesVars(pick = "outcomes" /\ Round)
  /\ \A d \in Delegated : WF_outcomesVars(pick = "outcomes" /\ Bump(d))
  /\ \A w \in Givers, d \in Delegated : WF_outcomesVars(pick = "outcomes" /\ Give(w, d))
  /\ WF_routineVars(pick = "routine" /\ RearmDue)
  /\ WF_routineVars(pick = "routine" /\ \E w \in Wakers : TakeWake(w))
  /\ \A w \in Wakers : WF_routineVars(pick = "routine" /\ WakerStep(w))
  /\ WF_mirrorVars(pick = "mirror" /\ SweepMirror)
  /\ \A m \in Copiers : WF_mirrorVars(pick = "mirror" /\ MirrorStep(m))
  /\ WF_agentVars(pick = "cloud" /\ \E p \in Polls : ReadAgent(p))
  /\ WF_agentVars(pick = "cloud" /\ ExpireLease)
  /\ WF_agentVars(pick = "cloud" /\ RunEnds)
  /\ \A p \in Polls : WF_agentVars(pick = "cloud" /\ PollStep(p))

ServicesSpec == ServicesInit /\ [][ServicesNext]_servicesVars
ServicesLiveSpec == ServicesSpec /\ ServicesFairness
=============================================================================
