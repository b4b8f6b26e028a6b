--------------------------------- MODULE Effects ---------------------------------
(***************************************************************************)
(* One external action of a run: a tool call whose arguments, with the run *)
(* and the tool, are its idempotency key.  Every invocation that works on  *)
(* the run may propose it, again after a crash or beside a stalled worker  *)
(* that still goes on.  A row carries it from intended to its outcome; the *)
(* user, a rule or a reviewing model decides whether it may be performed.  *)
(* Calls that no rule, review or default asks about have another key and   *)
(* are not modelled.                                                       *)
(***************************************************************************)
EXTENDS Naturals, FiniteSets

CONSTANTS
  Hands,      \* invocations of continueRun on the run
  MaxStalls   \* bound: leases that lapse, calls that fail and processes that die

ASSUME EffectsAssumption == MaxStalls \in Nat /\ "nobody" \notin Hands

VARIABLES
  consequential, \* requiresApprovalByDefault
  plan,          \* what the rules say: "ask", "judge" (a model reviews it) or "allow"
  effect,        \* ExternalEffect.status, "none" before the row is there
  review,        \* ExternalEffect.reviewDecision; an error counts as "ask"
  stage,         \* the run: "queued", "running", "waiting" (for the card) or "over"
  holder,        \* whose lease the run is under
  lapsed,        \* that lease has run out
  hand,          \* each invocation: where it is and what it read
  calls,         \* history: how often the action was performed
  permitted,     \* history: the user, a rule or the reviewer allowed it
  stalls

effectVars == <<consequential, plan, effect, review, stage, holder, lapsed, hand, calls,
                permitted, stalls>>

Settled == {"completed", "denied", "uncertain"}
Effect == {"none", "intended", "approved", "executing"} \cup Settled
Verdicts == {"ask", "pass"}
MaxCalls == 3   \* bound: no more calls are counted

NoHand == [pc |-> "idle", seen |-> "none", review |-> "none", plan |-> "ask",
           ask |-> FALSE, claimed |-> FALSE]

EffectsTypeOK ==
  /\ consequential \in BOOLEAN /\ plan \in {"ask", "judge", "allow"}
  /\ effect \in Effect /\ review \in Verdicts \cup {"none"}
  /\ stage \in {"queued", "running", "waiting", "over"}
  /\ holder \in Hands \cup {"nobody"} /\ lapsed \in BOOLEAN
  /\ hand \in [Hands -> [pc : {"idle", "turn", "create", "judge", "gate", "claim", "pause",
                               "settle", "call", "finish"},
                         seen : Effect, review : Verdicts \cup {"none"},
                         plan : {"ask", "judge", "allow"}, ask : BOOLEAN, claimed : BOOLEAN]]
  /\ holder # "nobody" <=> stage = "running"
  /\ calls \in 0 .. MaxCalls /\ permitted \in BOOLEAN /\ stalls \in 0 .. MaxStalls

EffectsInit ==
  /\ consequential \in BOOLEAN
  /\ plan \in IF consequential THEN {"ask", "judge", "allow"} ELSE {"ask", "judge"}
  /\ effect = "none" /\ review = "none"
  /\ stage = "queued" /\ holder = "nobody" /\ lapsed = FALSE
  /\ hand = [h \in Hands |-> NoHand]
  /\ calls = 0 /\ permitted = (plan = "allow") /\ stalls = 0

HandAt(h, pc) == hand[h].pc = pc
MoveHand(h, pc) == hand' = [hand EXCEPT ![h].pc = pc]
Stall == stalls < MaxStalls /\ stalls' = stalls + 1

\* h throws: what it holds goes back to the queue, to be tried again.
Throws(h) ==
  /\ hand' = [hand EXCEPT ![h] = NoHand]
  /\ IF holder = h THEN stage' = "queued" /\ holder' = "nobody" /\ lapsed' = FALSE
     ELSE UNCHANGED <<stage, holder, lapsed>>

--------------------------------------------------------------------------------
(* The run *)

TakeRun(h) ==
  /\ HandAt(h, "idle") /\ (stage = "queued" \/ (stage = "running" /\ lapsed))
  /\ stage' = "running" /\ holder' = h /\ lapsed' = FALSE
  /\ MoveHand(h, "turn")
  /\ UNCHANGED <<consequential, plan, effect, review, calls, permitted, stalls>>

EndTurn(h) ==
  /\ HandAt(h, "turn")
  /\ hand' = [hand EXCEPT ![h] = NoHand]
  /\ IF holder = h THEN stage' = "over" /\ holder' = "nobody" /\ lapsed' = FALSE
     ELSE UNCHANGED <<stage, holder, lapsed>>
  /\ UNCHANGED <<consequential, plan, effect, review, calls, permitted, stalls>>

\* The worker stalls past its lease, and goes on later.
LoseLease ==
  /\ holder # "nobody" /\ ~lapsed /\ Stall
  /\ lapsed' = TRUE
  /\ UNCHANGED <<consequential, plan, effect, review, stage, holder, hand, calls, permitted>>

Dies(h) ==
  /\ ~HandAt(h, "idle") /\ Stall
  /\ hand' = [hand EXCEPT ![h] = NoHand]
  /\ lapsed' = (lapsed \/ holder = h)
  /\ UNCHANGED <<consequential, plan, effect, review, stage, holder, calls, permitted>>

\* Mutant: a stopped run keeps its lease.
StopRunMutantLease ==
  /\ stage # "over"
  /\ stage' = "over" /\ UNCHANGED <<holder, lapsed>>
  /\ UNCHANGED <<consequential, plan, effect, review, hand, calls, permitted, stalls>>

StopRun ==
  /\ stage # "over"
  /\ stage' = "over" /\ holder' = "nobody" /\ lapsed' = FALSE
  /\ UNCHANGED <<consequential, plan, effect, review, hand, calls, permitted, stalls>>

\* The answer to the card, accepted only while the effect is still intended.  "Always
\* allow" leaves a rule behind.
AnswerCard(answer) ==
  /\ stage = "waiting" /\ effect = "intended"
  /\ effect' = IF answer = "deny" THEN "denied" ELSE "approved"
  /\ plan' = IF answer = "always" /\ consequential THEN "allow" ELSE plan
  /\ permitted' = (permitted \/ answer # "deny")
  /\ stage' = "queued"
  /\ UNCHANGED <<consequential, review, holder, lapsed, hand, calls, stalls>>

--------------------------------------------------------------------------------
(* The gate in front of the tool *)

\* The policy and the row of the action are read.
Propose(h) ==
  /\ HandAt(h, "turn")
  /\ hand' = [hand EXCEPT ![h] =
       [NoHand EXCEPT !.pc = IF effect = "none" THEN "create"
                             ELSE IF plan = "judge" THEN "judge" ELSE "gate",
                      !.seen = effect, !.review = review,
                      !.plan = plan, !.ask = (plan = "ask")]]
  /\ UNCHANGED <<consequential, plan, effect, review, stage, holder, lapsed, calls, permitted, stalls>>

\* The key is unique: the second of two creators throws.
RecordEffect(h) ==
  /\ HandAt(h, "create")
  /\ IF effect = "none"
     THEN /\ effect' = "intended"
          /\ MoveHand(h, IF hand[h].plan = "judge" THEN "judge" ELSE "gate")
          /\ UNCHANGED <<stage, holder, lapsed>>
     ELSE Throws(h) /\ UNCHANGED effect
  /\ UNCHANGED <<consequential, plan, review, calls, permitted, stalls>>

\* The reviewer is asked once for each row it has not decided about as this hand read it.
Judge(h) ==
  /\ HandAt(h, "judge")
  /\ \E verdict \in IF hand[h].review = "none" THEN Verdicts ELSE {hand[h].review} :
       /\ review' = IF hand[h].review = "none" THEN verdict ELSE review
       /\ permitted' = (permitted \/ verdict = "pass")
       /\ hand' = [hand EXCEPT ![h].pc = "gate", ![h].ask = (verdict = "ask")]
  /\ UNCHANGED <<consequential, plan, effect, stage, holder, lapsed, calls, stalls>>

\* Performed without a claim: new, allowed, and not consequential.
Unclaimed == ~consequential

\* Mutant: an intended action found again is taken for an approved one.
WayOnMutantIntended(h) ==
  CASE hand[h].seen = "none" -> IF hand[h].ask THEN "pause" ELSE "claim"
    [] hand[h].seen \in Settled -> "turn"
    [] hand[h].seen = "executing" -> "settle"
    [] OTHER -> "claim"

\* resolveDuplicateEffectGate, and the way of a new action.
WayOn(h) ==
  CASE hand[h].seen = "none" /\ hand[h].ask -> "pause"
    [] hand[h].seen = "none" /\ ~hand[h].ask -> IF Unclaimed THEN "call" ELSE "claim"
    [] hand[h].seen \in Settled -> "turn"
    [] hand[h].seen = "executing" -> "settle"
    [] hand[h].seen = "approved" -> "claim"
    [] hand[h].seen = "intended" /\ ~hand[h].ask -> "claim"
    [] OTHER -> IF stage = "waiting" THEN "idle" ELSE "pause"

Gate(h) ==
  /\ HandAt(h, "gate")
  /\ hand' = [hand EXCEPT ![h] = IF WayOn(h) \in {"turn", "idle"} THEN [NoHand EXCEPT !.pc = WayOn(h)]
                                 ELSE [@ EXCEPT !.pc = WayOn(h)]]
  /\ UNCHANGED <<consequential, plan, effect, review, stage, holder, lapsed, calls, permitted, stalls>>

\* Mutant: the run is paused by its id alone.
PauseForCardMutantById(h) ==
  /\ HandAt(h, "pause")
  /\ IF stage # "over"
     THEN stage' = "waiting" /\ holder' = "nobody" /\ lapsed' = FALSE
     ELSE UNCHANGED <<stage, holder, lapsed>>
  /\ hand' = [hand EXCEPT ![h] = NoHand]
  /\ UNCHANGED <<consequential, plan, effect, review, calls, permitted, stalls>>

\* requestApproval: a worker that lost the run leaves no card.
PauseForCard(h) ==
  /\ HandAt(h, "pause")
  /\ IF holder = h
     THEN stage' = "waiting" /\ holder' = "nobody" /\ lapsed' = FALSE
     ELSE UNCHANGED <<stage, holder, lapsed>>
  /\ hand' = [hand EXCEPT ![h] = NoHand]
  /\ UNCHANGED <<consequential, plan, effect, review, calls, permitted, stalls>>

\* claimApprovedEffect, claimIntendedEffect: what was read is still there.
Claimable(h) == effect = (IF hand[h].seen = "approved" THEN "approved" ELSE "intended")

ClaimEffect(h) ==
  /\ HandAt(h, "claim")
  /\ IF Claimable(h)
     THEN /\ effect' = "executing"
          /\ hand' = [hand EXCEPT ![h].pc = "call", ![h].claimed = TRUE]
          /\ UNCHANGED <<stage, holder, lapsed>>
     ELSE /\ CASE effect \in Settled -> MoveHand(h, "turn") /\ UNCHANGED <<stage, holder, lapsed>>
               [] effect = "executing" -> MoveHand(h, "settle") /\ UNCHANGED <<stage, holder, lapsed>>
               [] OTHER -> Throws(h)
          /\ UNCHANGED effect
  /\ UNCHANGED <<consequential, plan, review, calls, permitted, stalls>>

\* Mutant: an action found in execution is put back to be tried again.
SettleEffectMutantRetry(h) ==
  /\ HandAt(h, "settle")
  /\ effect' = IF effect = "executing" THEN "intended" ELSE effect
  /\ MoveHand(h, "turn")
  /\ UNCHANGED <<consequential, plan, review, stage, holder, lapsed, calls, permitted, stalls>>

\* settleUncertainEffect: found in execution, it is never performed again.
SettleEffect(h) ==
  /\ HandAt(h, "settle")
  /\ effect' = IF effect = "executing" THEN "uncertain" ELSE effect
  /\ hand' = [hand EXCEPT ![h] = [NoHand EXCEPT !.pc = "turn"]]
  /\ UNCHANGED <<consequential, plan, review, stage, holder, lapsed, calls, permitted, stalls>>

CallTool(h) ==
  /\ HandAt(h, "call") /\ calls < MaxCalls
  /\ calls' = calls + 1
  /\ \/ MoveHand(h, "finish") /\ UNCHANGED stalls
     \* it fails after it has had its effect
     \/ Stall /\ hand' = [hand EXCEPT ![h] = [NoHand EXCEPT !.pc = "turn"]]
  /\ UNCHANGED <<consequential, plan, effect, review, stage, holder, lapsed, permitted>>

\* completeEffect, from the status the call was made under.
CompleteEffect(h) ==
  /\ HandAt(h, "finish")
  /\ effect' = IF effect = (IF hand[h].claimed THEN "executing" ELSE "intended")
               THEN "completed" ELSE effect
  /\ hand' = [hand EXCEPT ![h] = [NoHand EXCEPT !.pc = "turn"]]
  /\ UNCHANGED <<consequential, plan, review, stage, holder, lapsed, calls, permitted, stalls>>

EffectsNext ==
  \/ \E h \in Hands :
       \/ TakeRun(h) \/ EndTurn(h) \/ Dies(h)
       \/ Propose(h) \/ RecordEffect(h) \/ Judge(h) \/ Gate(h) \/ PauseForCard(h)
       \/ ClaimEffect(h) \/ SettleEffect(h) \/ CallTool(h) \/ CompleteEffect(h)
  \/ LoseLease \/ StopRun
  \/ \E answer \in {"allow", "always", "deny"} : AnswerCard(answer)

EffectsSpec == EffectsInit /\ [][EffectsNext]_effectVars

--------------------------------------------------------------------------------
\* A consequential action is performed at most once, whoever proposes it however often.
\* One that is not may be performed twice: its first performer makes no claim.
\* (claimIntendedEffect, claimApprovedEffect, settleUncertainEffect)
EffectOnce == calls <= IF consequential THEN 1 ELSE 2

\* A consequential action is performed only if somebody allowed it, and once denied it
\* never is: no worker that read an earlier status gets past the claim.
\* (resolveDuplicateEffectGate, answerRunInput)
EffectConsented ==
  consequential =>
    /\ calls > 0 => permitted
    /\ effect \in {"none", "intended", "approved", "denied"} => calls = 0

\* A card the run waits for can be answered: the action it asks about is still to be
\* decided.  (requestApproval, pauseRunForInput, answerRunInput; two reviewers that differ
\* about one action break it, so this is about actions a rule or the default asks about)
CardAnswerable == stage = "waiting" /\ plan = "ask" => effect = "intended"
================================================================================
