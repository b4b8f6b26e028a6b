----------------------------- MODULE Outbound_proofs -----------------------------
(***************************************************************************)
(* What reaches the world outside, for any number of invocations, stalls,  *)
(* rows, drains and crashes.                                               *)
(* Effects: an action is performed as often as its claims allow and never  *)
(* without consent, and a card can be answered.                            *)
(* Outbox, from "Messages" on: a message is delivered twice only after an  *)
(* error on an accepted send, and an invite is sent under the lock of a    *)
(* connection that still wants it.                                         *)
(***************************************************************************)
EXTENDS Effects, Outbox, FiniteSetTheorems, TLAPS

Pcs == {"idle", "turn", "create", "judge", "gate", "claim", "pause", "settle", "call", "finish"}
Hand == [pc : Pcs, seen : Effect, review : Verdicts \cup {"none"},
         plan : {"ask", "judge", "allow"}, ask : BOOLEAN, claimed : BOOLEAN]

\* About to perform the action: under a claim, or as its only creator without one.
Held(l) == l.pc = "call" /\ l.claimed
Free(l) == ~consequential /\ l.pc \in {"judge", "gate", "call"} /\ l.seen = "none" /\ ~l.claimed

\* What the invocation has read or decided lets it perform the action.
Leave(l) ==
  \/ l.seen = "approved" \/ l.plan = "allow" \/ l.review = "pass" \/ l.pc \in {"claim", "call"}
  \/ l.pc = "gate" /\ ~l.ask
  \/ l.pc = "create" /\ ~l.ask /\ l.plan # "judge"

\* Under rules that ask, only an approved action is claimed.
Asking(l) ==
  /\ l.plan = "ask" /\ l.pc # "judge"
  /\ l.pc \in {"create", "gate"} => l.ask
  /\ l.pc = "claim" => l.seen = "approved"
  /\ l.pc \in {"call", "finish"} => l.claimed
  /\ l.pc = "pause" => l.seen \in {"none", "intended"}

Steps(l) ==
  /\ l.claimed => l.pc \in {"call", "finish"}
  /\ l.pc = "call" => l.claimed \/ (~consequential /\ l.seen = "none")

Local(l, allowed, rules) ==
  /\ l \in Hand /\ Steps(l)
  /\ consequential /\ Leave(l) => allowed
  /\ rules = "ask" => Asking(l)

LocalInv(l) == Local(l, permitted, plan)

Early == {"intended", "approved", "denied"}
Limit == IF consequential THEN 1 ELSE 2

\* The claims and the creator's leave are what is left of the limit.
CountInv ==
  /\ \A h, k \in Hands : Held(hand[h]) /\ Held(hand[k]) => h = k
  /\ \A h, k \in Hands : Free(hand[h]) /\ Free(hand[k]) => h = k
  /\ effect \in Early \cup {"none"} => \A h \in Hands : ~Held(hand[h])
  /\ effect = "none" => calls = 0 /\ \A h \in Hands : ~Free(hand[h])
  /\ effect \in Early => calls < Limit /\ \A h \in Hands : Free(hand[h]) => calls + 1 < Limit
  /\ calls <= Limit
  /\ \A h \in Hands : Free(hand[h]) \/ Held(hand[h]) => calls < Limit
  /\ \A h, k \in Hands : Free(hand[h]) /\ Held(hand[k]) => calls + 1 < Limit

Permits ==
  consequential =>
    ((calls > 0 \/ plan = "allow" \/ review = "pass" \/ effect = "approved") => permitted)

\* Who holds the run and is about to ask finds the action still undecided.
CardInv ==
  plan = "ask" =>
    /\ stage = "waiting" => effect = "intended"
    /\ holder # "nobody" /\ hand[holder].pc \in {"gate", "pause"} /\ hand[holder].seen \in {"none", "intended"}
         => effect = "intended"

EInv == EffectsTypeOK /\ (\A h \in Hands : LocalInv(hand[h])) /\ CountInv /\ Permits /\ CardInv

LEMMA NoHandType == NoHand \in Hand
BY Zenon DEF NoHand, Hand, Pcs, Effect, Settled, Verdicts

LEMMA NoHandAt ==
  ASSUME NEW pc \in {"idle", "turn"}
  PROVE  LET l == [NoHand EXCEPT !.pc = pc] IN LocalInv(l) /\ ~Held(l) /\ ~Free(l) /\ l.pc = pc
<1> DEFINE l == [NoHand EXCEPT !.pc = pc]
<1>1. l \in Hand
  BY NoHandType, Zenon DEF Hand, Pcs
<1>2. l.pc = pc /\ l.seen = "none" /\ l.plan = "ask" /\ l.review = "none"
  BY DEF NoHand
<1>3. l.claimed = FALSE
  BY Zenon DEF NoHand
<1> HIDE DEF l
<1>4. Steps(l) /\ ~Leave(l) /\ Asking(l) /\ ~Held(l) /\ ~Free(l)
  BY <1>2, <1>3, Zenon DEF Steps, Leave, Asking, Held, Free
<1>5. LocalInv(l)
  BY <1>1, <1>4, Zenon DEF LocalInv, Local
<1> QED
  BY <1>2, <1>4, <1>5, Zenon DEF l

LEMMA NoHandIdle == NoHand = [NoHand EXCEPT !.pc = "idle"]
BY DEF NoHand

LEMMA EffectsStart == EffectsInit => EInv
<1> SUFFICES ASSUME EffectsInit PROVE EInv
  OBVIOUS
<1>1. hand = [h \in Hands |-> NoHand]
  BY Zenon DEF EffectsInit
<1>2. /\ effect = "none" /\ review = "none" /\ stage = "queued" /\ holder = "nobody"
      /\ calls = 0 /\ stalls = 0
  BY Zenon DEF EffectsInit
<1>3. consequential \in BOOLEAN /\ lapsed \in BOOLEAN /\ permitted \in BOOLEAN
      /\ plan \in {"ask", "judge", "allow"} /\ (plan = "allow" => permitted)
  BY Zenon DEF EffectsInit
<1>4. \A h \in Hands : LocalInv(hand[h]) /\ ~Held(hand[h]) /\ ~Free(hand[h])
  BY <1>1, NoHandAt, NoHandIdle, Zenon
<1>5. hand \in [Hands -> Hand]
  BY <1>1, NoHandType, Zenon
<1>6. EffectsTypeOK
  BY <1>2, <1>3, <1>5, EffectsAssumption DEF EffectsTypeOK, Effect, Settled, Verdicts, Hand, Pcs, MaxCalls
<1>7. CountInv
  BY <1>2, <1>4 DEF CountInv, Early, Limit
<1>8. Permits
  BY <1>2, <1>3 DEF Permits
<1>9. CardInv
  BY <1>2 DEF CardInv
<1> QED
  BY <1>4, <1>6, <1>7, <1>8, <1>9 DEF EInv

-----------------------------------------------------------------------------
(* An invocation moves. *)

RunOK ==
  /\ stage \in {"queued", "running", "waiting", "over"} /\ holder \in Hands \cup {"nobody"}
  /\ lapsed \in BOOLEAN
  /\ holder # "nobody" <=> stage = "running"

LEMMA RunTyped == EInv => RunOK
BY Zenon DEF EInv, EffectsTypeOK, RunOK

LEMMA HandTyped ==
  ASSUME EInv, NEW h \in Hands
  PROVE  /\ hand \in [Hands -> Hand] /\ hand[h] \in Hand /\ LocalInv(hand[h])
         /\ h # "nobody"
<1>1. hand \in [Hands -> Hand]
  BY DEF EInv, EffectsTypeOK, Hand, Pcs
<1> QED
  BY <1>1, EffectsAssumption, Zenon DEF EInv

LEMMA HandsKeep ==
  ASSUME EInv, NEW h \in Hands, NEW l, hand' = [hand EXCEPT ![h] = l],
         consequential' = consequential, permitted => permitted',
         plan' = "ask" => plan = "ask", Local(l, permitted', plan')
  PROVE  /\ hand' \in [Hands -> Hand] /\ \A k \in Hands : LocalInv(hand[k])'
         /\ hand'[h] = l /\ \A k \in Hands : k # h => hand'[k] = hand[k]
<1>1. hand \in [Hands -> Hand]
  BY HandTyped
<1>2. hand'[h] = l /\ \A k \in Hands : k # h => hand'[k] = hand[k]
  BY <1>1
<1>3. hand' \in [Hands -> Hand]
  BY <1>1, Zenon DEF Local
<1>4. ASSUME NEW k \in Hands PROVE LocalInv(hand[k])'
  <2>1. Local(hand'[k], permitted', plan')
    <3>1. CASE k = h
      BY <1>2, <3>1
    <3>2. CASE k # h
      <4>1. Local(hand[k], permitted, plan)
        BY HandTyped, Zenon DEF LocalInv
      <4> QED
        BY <1>2, <3>2, <4>1, Zenon DEF Local
    <3> QED
      BY <3>1, <3>2
  <2> QED
    BY <2>1, Zenon DEF LocalInv, Local, Steps, Leave, Asking
<1> QED
  BY <1>2, <1>3, <1>4

LEMMA CountKeeps ==
  ASSUME CountInv, hand \in [Hands -> Hand], NEW h \in Hands, NEW l, hand' = [hand EXCEPT ![h] = l],
         UNCHANGED <<consequential, effect, calls>>,
         Held(l) => Held(hand[h]), Free(l) => Free(hand[h])
  PROVE  CountInv'
<1>1. hand'[h] = l /\ \A k \in Hands : k # h => hand'[k] = hand[k]
  OBVIOUS
<1>2. \A k \in Hands : (Held(hand[k])' => Held(hand[k])) /\ (Free(hand[k])' => Free(hand[k]))
  BY <1>1, Zenon DEF Held, Free
<1> QED
  BY <1>2 DEF CountInv, Limit

LEMMA CardKeeps ==
  ASSUME CardInv, RunOK, hand \in [Hands -> Hand], NEW h \in Hands, NEW l, h # "nobody",
         hand' = [hand EXCEPT ![h] = l],
         UNCHANGED <<plan, effect>>, stage' # "waiting" \/ stage' = stage,
         holder' \in {holder, "nobody", h},
         plan = "ask" /\ holder' = h /\ l.pc \in {"gate", "pause"} /\ l.seen \in {"none", "intended"}
           => effect = "intended"
  PROVE  CardInv'
<1>1. hand'[h] = l /\ \A k \in Hands : k # h => hand'[k] = hand[k]
  OBVIOUS
<1>2. holder # "nobody" => holder \in Hands
  BY DEF RunOK
<1> QED
  BY <1>1, <1>2 DEF CardInv

LEMMA StepKeeps ==
  ASSUME EInv, NEW h \in Hands, NEW l, hand' = [hand EXCEPT ![h] = l],
         UNCHANGED <<consequential, plan, effect, calls>>,
         review' \in Verdicts \cup {"none"}, permitted' \in BOOLEAN, permitted => permitted', Permits',
         Local(l, permitted', plan), Held(l) => Held(hand[h]), Free(l) => Free(hand[h]),
         RunOK', stalls' \in 0 .. MaxStalls,
         stage' # "waiting" \/ stage' = stage, holder' \in {holder, "nobody", h},
         plan = "ask" /\ holder' = h /\ l.pc \in {"gate", "pause"} /\ l.seen \in {"none", "intended"}
           => effect = "intended"
  PROVE  EInv'
<1>1. hand' \in [Hands -> Hand] /\ \A k \in Hands : LocalInv(hand[k])'
  BY HandsKeep
<1>2. CountInv'
  BY CountKeeps, HandTyped DEF EInv
<1>3. CardInv'
  BY CardKeeps, HandTyped, RunTyped DEF EInv
<1>4. EffectsTypeOK'
  <2>1. consequential' \in BOOLEAN /\ plan' \in {"ask", "judge", "allow"} /\ effect' \in Effect /\ calls' \in 0 .. MaxCalls
    BY DEF EInv, EffectsTypeOK
  <2> QED
    BY <1>1, <2>1, Zenon DEF EffectsTypeOK, RunOK, Hand, Pcs
<1> QED
  BY <1>1, <1>2, <1>3, <1>4 DEF EInv

\* The invocation gives the run back.
LEMMA LetGo ==
  ASSUME EInv, NEW h \in Hands, NEW to \in {"queued", "over", "waiting"},
         IF holder = h THEN stage' = to /\ holder' = "nobody" /\ lapsed' = FALSE
         ELSE UNCHANGED <<stage, holder, lapsed>>
  PROVE  RunOK' /\ holder' \in {holder, "nobody", h} /\ (stage' = to \/ stage' = stage)
<1>1. CASE holder = h
  BY <1>1, Zenon DEF RunOK
<1>2. CASE holder # h
  BY <1>2, RunTyped, Zenon DEF RunOK
<1> QED
  BY <1>1, <1>2

\* The invocation starts over, with nothing read.
LEMMA Leaves ==
  ASSUME EInv, NEW h \in Hands, NEW pc \in {"idle", "turn"},
         hand' = [hand EXCEPT ![h] = [NoHand EXCEPT !.pc = pc]],
         UNCHANGED <<consequential, plan, effect, review, calls, permitted>>,
         RunOK', stalls' \in 0 .. MaxStalls,
         stage' # "waiting" \/ stage' = stage, holder' \in {holder, "nobody", h}
  PROVE  EInv'
<1> DEFINE l == [NoHand EXCEPT !.pc = pc]
<1>1. LocalInv(l) /\ ~Held(l) /\ ~Free(l) /\ l.pc = pc
  BY NoHandAt
<1>2. review \in Verdicts \cup {"none"} /\ permitted \in BOOLEAN /\ Permits
  BY DEF EInv, EffectsTypeOK
<1>3. Permits'
  BY <1>2 DEF Permits
<1>4. Local(l, permitted', plan)
  BY <1>1, Zenon DEF LocalInv
<1>5. l.pc \notin {"gate", "pause"}
  BY <1>1
<1>6. permitted' \in BOOLEAN /\ review' \in Verdicts \cup {"none"} /\ (permitted => permitted')
  BY <1>2, Zenon
<1> HIDE DEF l
<1>7. hand' = [hand EXCEPT ![h] = l]
  BY DEF l
<1> QED
  BY <1>1, <1>3, <1>4, <1>5, <1>6, <1>7, StepKeeps

LEMMA StallType ==
  ASSUME EInv, Stall
  PROVE  stalls' \in 0 .. MaxStalls
BY EffectsAssumption DEF EInv, EffectsTypeOK, Stall

LEMMA StallsTyped == EInv => stalls \in 0 .. MaxStalls
BY DEF EInv, EffectsTypeOK

LEMMA ThrowsKeeps ==
  ASSUME EInv, NEW h \in Hands, Throws(h),
         UNCHANGED <<consequential, plan, effect, review, calls, permitted, stalls>>
  PROVE  EInv'
<1>1. hand' = [hand EXCEPT ![h] = [NoHand EXCEPT !.pc = "idle"]]
  BY NoHandIdle, Zenon DEF Throws
<1>2. RunOK' /\ holder' \in {holder, "nobody", h} /\ (stage' = "queued" \/ stage' = stage)
  <2>1. IF holder = h THEN stage' = "queued" /\ holder' = "nobody" /\ lapsed' = FALSE
        ELSE UNCHANGED <<stage, holder, lapsed>>
    BY Zenon DEF Throws
  <2> QED
    BY <2>1, LetGo
<1> QED
  BY <1>1, <1>2, StallsTyped, Leaves

-----------------------------------------------------------------------------
(* The run *)

LEMMA TakeRunKeeps ==
  ASSUME EInv, NEW h \in Hands, TakeRun(h)
  PROVE  EInv'
<1>1. /\ stage' = "running" /\ holder' = h /\ lapsed' = FALSE /\ HandAt(h, "idle")
      /\ hand' = [hand EXCEPT ![h].pc = "turn"]
      /\ UNCHANGED <<consequential, plan, effect, review, calls, permitted, stalls>>
  BY Zenon DEF TakeRun, MoveHand
<1> DEFINE l == [hand[h] EXCEPT !.pc = "turn"]
<1>2. hand[h] \in Hand /\ LocalInv(hand[h]) /\ h # "nobody" /\ hand \in [Hands -> Hand]
  BY HandTyped
<1>3. hand' = [hand EXCEPT ![h] = l]
  BY <1>1, <1>2
<1>4. /\ l.pc = "turn" /\ l.seen = hand[h].seen /\ l.review = hand[h].review
      /\ l.plan = hand[h].plan
  BY <1>2 DEF Hand
<1>5. l.claimed = hand[h].claimed /\ l \in Hand
  BY <1>2, Zenon DEF Hand, Pcs
<1>6. hand[h].pc = "idle"
  BY <1>1 DEF HandAt
<1> HIDE DEF l
<1>7. ~hand[h].claimed
  BY <1>2, <1>6, Zenon DEF LocalInv, Local, Steps
<1>8. Steps(l) /\ (Leave(l) => Leave(hand[h])) /\ (Asking(hand[h]) => Asking(l)) /\ ~Held(l) /\ ~Free(l)
  BY <1>4, <1>5, <1>7, Zenon DEF Steps, Leave, Asking, Held, Free
<1>9. Local(l, permitted', plan) /\ l.pc \notin {"gate", "pause"}
  BY <1>1, <1>2, <1>4, <1>5, <1>8, Zenon DEF LocalInv, Local
<1>10. RunOK'
  BY <1>1, <1>2, Zenon DEF RunOK
<1>11. Permits' /\ review' \in Verdicts \cup {"none"} /\ permitted' \in BOOLEAN /\ (permitted => permitted')
  BY <1>1, Zenon DEF EInv, EffectsTypeOK, Permits
<1> QED
  BY <1>1, <1>3, <1>8, <1>9, <1>10, <1>11, StallsTyped, StepKeeps

LEMMA EndTurnKeeps ==
  ASSUME EInv, NEW h \in Hands, EndTurn(h)
  PROVE  EInv'
<1>1. /\ hand' = [hand EXCEPT ![h] = [NoHand EXCEPT !.pc = "idle"]]
      /\ UNCHANGED <<consequential, plan, effect, review, calls, permitted, stalls>>
  BY NoHandIdle, Zenon DEF EndTurn
<1>2. RunOK' /\ holder' \in {holder, "nobody", h} /\ (stage' = "over" \/ stage' = stage)
  <2>1. IF holder = h THEN stage' = "over" /\ holder' = "nobody" /\ lapsed' = FALSE
        ELSE UNCHANGED <<stage, holder, lapsed>>
    BY Zenon DEF EndTurn
  <2> QED
    BY <2>1, LetGo
<1> QED
  BY <1>1, <1>2, StallsTyped, Leaves

LEMMA DiesKeeps ==
  ASSUME EInv, NEW h \in Hands, Dies(h)
  PROVE  EInv'
<1>1. /\ hand' = [hand EXCEPT ![h] = [NoHand EXCEPT !.pc = "idle"]] /\ Stall
      /\ UNCHANGED <<consequential, plan, effect, review, stage, holder, calls, permitted>>
  BY NoHandIdle, Zenon DEF Dies
<1>2. lapsed' \in BOOLEAN
  BY Zenon DEF Dies
<1>3. RunOK'
  BY <1>1, <1>2, RunTyped, Zenon DEF RunOK
<1> QED
  BY <1>1, <1>3, StallType, Leaves

\* Nothing of the action moves, and nobody is given the run.
LEMMA StageKeeps ==
  ASSUME EInv, UNCHANGED <<consequential, plan, effect, review, hand, calls, permitted>>,
         RunOK', stalls' \in 0 .. MaxStalls,
         stage' # "waiting" \/ stage' = stage, holder' \in {holder, "nobody"}
  PROVE  EInv'
<1>1. EffectsTypeOK'
  BY Zenon DEF EInv, EffectsTypeOK, RunOK
<1>2. \A h \in Hands : LocalInv(hand[h])'
  BY Zenon DEF EInv, LocalInv, Local, Steps, Leave, Asking
<1>3. CountInv' /\ Permits'
  BY DEF EInv, CountInv, Permits, Held, Free, Limit
<1>4. CardInv'
  BY DEF EInv, CardInv
<1> QED
  BY <1>1, <1>2, <1>3, <1>4 DEF EInv

LEMMA LoseLeaseKeeps == EInv /\ LoseLease => EInv'
<1> SUFFICES ASSUME EInv, LoseLease PROVE EInv'
  OBVIOUS
<1>1. UNCHANGED <<consequential, plan, effect, review, stage, holder, hand, calls, permitted>> /\ Stall
      /\ lapsed' = TRUE
  BY Zenon DEF LoseLease
<1>2. RunOK'
  BY <1>1, RunTyped, Zenon DEF RunOK
<1> QED
  BY <1>1, <1>2, StallType, StageKeeps

LEMMA StopRunKeeps == EInv /\ StopRun => EInv'
<1> SUFFICES ASSUME EInv, StopRun PROVE EInv'
  OBVIOUS
<1>1. UNCHANGED <<consequential, plan, effect, review, hand, calls, permitted, stalls>>
      /\ stage' = "over" /\ holder' = "nobody" /\ lapsed' = FALSE
  BY Zenon DEF StopRun
<1>2. RunOK'
  BY <1>1, Zenon DEF RunOK
<1> QED
  BY <1>1, <1>2, StallsTyped, StageKeeps

LEMMA AnswerCardKeeps ==
  ASSUME EInv, NEW answer, AnswerCard(answer)
  PROVE  EInv'
<1>1. /\ stage = "waiting" /\ effect = "intended" /\ stage' = "queued"
      /\ effect' = IF answer = "deny" THEN "denied" ELSE "approved"
      /\ plan' = IF answer = "always" /\ consequential THEN "allow" ELSE plan
      /\ UNCHANGED <<consequential, review, holder, lapsed, hand, calls, stalls>>
  BY DEF AnswerCard
<1>2. permitted' = (permitted \/ answer # "deny")
  BY Zenon DEF AnswerCard
<1>3. permitted' \in BOOLEAN /\ (permitted => permitted') /\ (answer # "deny" => permitted')
  BY <1>2, Zenon DEF EInv, EffectsTypeOK
<1>4. holder = "nobody" /\ RunOK
  BY <1>1, RunTyped DEF RunOK
<1>5. RunOK'
  BY <1>1, <1>4, Zenon DEF RunOK
<1>6. effect' \in Early /\ plan' \in {"ask", "judge", "allow"} /\ (plan' = "ask" => plan = "ask")
  BY <1>1 DEF Early, EInv, EffectsTypeOK
<1>7. EffectsTypeOK'
  <2>1. effect' \in Effect
    BY <1>6 DEF Early, Effect, Settled
  <2>2. /\ consequential' \in BOOLEAN /\ review' \in Verdicts \cup {"none"}
        /\ hand' \in [Hands -> Hand] /\ calls' \in 0 .. MaxCalls /\ stalls' \in 0 .. MaxStalls
    BY <1>1, Zenon DEF EInv, EffectsTypeOK, Hand, Pcs
  <2> QED
    BY <1>3, <1>5, <1>6, <2>1, <2>2, Zenon DEF EffectsTypeOK, RunOK, Hand, Pcs
<1>8. ASSUME NEW h \in Hands PROVE LocalInv(hand[h])'
  BY <1>1, <1>3, <1>6, HandTyped, Zenon DEF LocalInv, Local, Steps, Leave, Asking
<1>9. CountInv'
  BY <1>1, <1>6 DEF EInv, CountInv, Early, Held, Free, Limit
<1>10. Permits'
  <2>1. calls > 0 \/ plan = "allow" \/ review = "pass" => (consequential => permitted)
    BY DEF EInv, Permits
  <2>2. plan' = "allow" => plan = "allow" \/ answer # "deny"
    BY <1>1
  <2>3. effect' = "approved" => answer # "deny"
    BY <1>1
  <2> QED
    BY <1>1, <1>3, <2>1, <2>2, <2>3 DEF Permits
<1>11. CardInv'
  BY <1>1, <1>4 DEF CardInv
<1> QED
  BY <1>7, <1>8, <1>9, <1>10, <1>11 DEF EInv

-----------------------------------------------------------------------------
(* The gate in front of the tool *)

LEMMA ProposeKeeps ==
  ASSUME EInv, NEW h \in Hands, Propose(h)
  PROVE  EInv'
<1> DEFINE pc == IF effect = "none" THEN "create" ELSE IF plan = "judge" THEN "judge" ELSE "gate"
           l == [NoHand EXCEPT !.pc = pc, !.seen = effect, !.review = review,
                               !.plan = plan, !.ask = (plan = "ask")]
<1>1. /\ hand' = [hand EXCEPT ![h] = l]
      /\ UNCHANGED <<consequential, plan, effect, review, stage, holder, lapsed, calls, permitted, stalls>>
  BY Zenon DEF Propose
<1>2. l.pc = pc /\ l.seen = effect /\ l.review = review /\ l.plan = plan
  BY DEF NoHand
<1>3. l.ask = (plan = "ask") /\ l.claimed = FALSE
  BY Zenon DEF NoHand
<1>4. l \in Hand
  <2>1. effect \in Effect /\ review \in Verdicts \cup {"none"} /\ plan \in {"ask", "judge", "allow"}
    BY Zenon DEF EInv, EffectsTypeOK
  <2>2. pc \in Pcs /\ (plan = "ask") \in BOOLEAN
    BY Zenon DEF Pcs
  <2> HIDE DEF pc
  <2> QED
    BY <2>1, <2>2, NoHandType, Zenon DEF Hand
<1>5. pc \in {"create", "judge", "gate"} /\ (pc = "gate" => effect # "none" /\ plan # "judge")
      /\ (pc = "judge" => effect # "none" /\ plan = "judge")
  OBVIOUS
<1> HIDE DEF pc, l
<1>6. consequential /\ Leave(l) => permitted
  <2>1. plan = "allow" \/ review = "pass" \/ effect = "approved" => (consequential => permitted)
    BY DEF EInv, Permits
  <2>2. plan \in {"ask", "judge", "allow"}
    BY DEF EInv, EffectsTypeOK
  <2>3. l.ask \/ plan # "ask"
    BY <1>3, Zenon
  <2>4. Leave(l) => plan = "allow" \/ review = "pass" \/ effect = "approved"
    <3>1. Leave(l) => \/ effect = "approved" \/ plan = "allow" \/ review = "pass"
                      \/ plan # "judge" /\ ~l.ask
      BY <1>2, <1>5 DEF Leave
    <3> QED
      BY <2>2, <2>3, <3>1, <1>3
  <2> QED
    BY <2>1, <2>4
<1>7. plan = "ask" => Asking(l)
  <2>1. plan = "ask" => l.ask /\ pc # "judge"
    BY <1>3, <1>5
  <2> QED
    BY <1>2, <1>5, <2>1 DEF Asking
<1>8. Steps(l) /\ ~Held(l) /\ ~Free(l)
  BY <1>2, <1>3, <1>5 DEF Steps, Held, Free
<1>9. Local(l, permitted', plan)
  BY <1>1, <1>4, <1>6, <1>7, <1>8, Zenon DEF Local
<1>10. plan = "ask" /\ holder' = h /\ l.pc \in {"gate", "pause"} /\ l.seen \in {"none", "intended"}
         => effect = "intended"
  BY <1>2, <1>5
<1>11. Permits' /\ RunOK' /\ review' \in Verdicts \cup {"none"} /\ permitted' \in BOOLEAN
  BY <1>1, RunTyped, Zenon DEF EInv, EffectsTypeOK, Permits, RunOK
<1> QED
  BY <1>1, <1>8, <1>9, <1>10, <1>11, StallsTyped, StepKeeps

LEMMA RecordEffectKeeps ==
  ASSUME EInv, NEW h \in Hands, RecordEffect(h)
  PROVE  EInv'
<1> DEFINE pc == IF hand[h].plan = "judge" THEN "judge" ELSE "gate"
           l == [hand[h] EXCEPT !.pc = pc]
<1>1. hand[h].pc = "create" /\ UNCHANGED <<consequential, plan, review, calls, permitted, stalls>>
  BY Zenon DEF RecordEffect, HandAt
<1>2. hand[h] \in Hand /\ LocalInv(hand[h]) /\ h # "nobody" /\ hand \in [Hands -> Hand]
  BY HandTyped
<1>3. CASE effect = "none"
  <2>1. effect' = "intended" /\ hand' = [hand EXCEPT ![h].pc = pc] /\ UNCHANGED <<stage, holder, lapsed>>
    BY <1>3, Zenon DEF RecordEffect, MoveHand
  <2>2. hand' = [hand EXCEPT ![h] = l]
    BY <1>2, <2>1
  <2>3. l.pc = pc /\ l.seen = hand[h].seen /\ l.review = hand[h].review /\ l.plan = hand[h].plan
    BY <1>2 DEF Hand
  <2>4. l.claimed = hand[h].claimed /\ l.ask = hand[h].ask /\ l \in Hand
    BY <1>2, Zenon DEF Hand, Pcs
  <2>5. pc \in {"judge", "gate"} /\ (pc = "judge" <=> hand[h].plan = "judge")
    OBVIOUS
  <2> HIDE DEF pc, l
  <2>6. ~hand[h].claimed
    BY <1>1, <1>2, Zenon DEF LocalInv, Local, Steps
  <2>7. Steps(l) /\ ~Held(l)
    BY <2>3, <2>4, <2>5, <2>6 DEF Steps, Held
  <2>8. (Leave(l) => Leave(hand[h])) /\ (Asking(hand[h]) => Asking(l))
    BY <1>1, <2>3, <2>4, <2>5 DEF Leave, Asking
  <2>9. Local(l, permitted', plan')
    BY <1>1, <1>2, <2>4, <2>7, <2>8, Zenon DEF LocalInv, Local
  <2>10. hand' \in [Hands -> Hand] /\ \A k \in Hands : LocalInv(hand[k])'
    BY <1>1, <2>2, <2>9, HandsKeep
  <2>11. hand'[h] = l /\ \A k \in Hands : k # h => hand'[k] = hand[k]
    BY <1>2, <2>2
  <2>12. CountInv'
    <3>1. calls = 0 /\ \A k \in Hands : ~Held(hand[k]) /\ ~Free(hand[k])
      BY <1>3 DEF EInv, CountInv
    <3>2. \A k \in Hands : ~Held(hand[k])' /\ (Free(hand[k])' => k = h /\ ~consequential)
      BY <1>1, <2>7, <2>11, <3>1, Zenon DEF Held, Free
    <3> QED
      BY <1>1, <2>1, <3>1, <3>2 DEF CountInv, Early, Limit
  <2>13. EffectsTypeOK'
    <3>1. consequential' \in BOOLEAN /\ plan' \in {"ask", "judge", "allow"} /\ effect' \in Effect
          /\ calls' \in 0 .. MaxCalls /\ review' \in Verdicts \cup {"none"}
      BY <1>1, <2>1 DEF EInv, EffectsTypeOK, Effect
    <3>2. RunOK' /\ permitted' \in BOOLEAN
      BY <1>1, <2>1, RunTyped, Zenon DEF EInv, EffectsTypeOK, RunOK
    <3> QED
      BY <1>1, <2>10, <3>1, <3>2, StallsTyped, Zenon DEF EffectsTypeOK, RunOK, Hand, Pcs
  <2>14. Permits'
    BY <1>1, <2>1 DEF EInv, Permits
  <2>15. CardInv'
    BY <2>1 DEF CardInv
  <2> QED
    BY <2>10, <2>12, <2>13, <2>14, <2>15 DEF EInv
<1>4. CASE effect # "none"
  <2>1. Throws(h) /\ UNCHANGED effect
    BY <1>4, Zenon DEF RecordEffect
  <2> QED
    BY <1>1, <2>1, ThrowsKeeps
<1> QED
  BY <1>3, <1>4

LEMMA JudgeKeeps ==
  ASSUME EInv, NEW h \in Hands, Judge(h)
  PROVE  EInv'
<1>1. PICK verdict \in IF hand[h].review = "none" THEN Verdicts ELSE {hand[h].review} :
        /\ review' = IF hand[h].review = "none" THEN verdict ELSE review
        /\ permitted' = (permitted \/ verdict = "pass")
        /\ hand' = [hand EXCEPT ![h].pc = "gate", ![h].ask = (verdict = "ask")]
  BY Zenon DEF Judge
<1>2. hand[h].pc = "judge"
      /\ UNCHANGED <<consequential, plan, effect, stage, holder, lapsed, calls, stalls>>
  BY Zenon DEF Judge, HandAt
<1> DEFINE l == [hand[h] EXCEPT !.pc = "gate", !.ask = (verdict = "ask")]
<1>3. hand[h] \in Hand /\ LocalInv(hand[h]) /\ h # "nobody" /\ hand \in [Hands -> Hand]
  BY HandTyped
<1>4. hand' = [hand EXCEPT ![h] = l]
  BY <1>1, <1>3, Zenon
<1>5. l.pc = "gate" /\ l.seen = hand[h].seen /\ l.review = hand[h].review /\ l.plan = hand[h].plan
  BY <1>3 DEF Hand
<1>6. l.claimed = hand[h].claimed /\ l.ask = (verdict = "ask") /\ l \in Hand
  BY <1>3, Zenon DEF Hand, Pcs
<1>7. verdict \in Verdicts
  <2>1. hand[h].review \in Verdicts \cup {"none"}
    BY <1>3, Zenon DEF Hand
  <2> QED
    BY <1>1, <2>1
<1> HIDE DEF l
<1>8. permitted' \in BOOLEAN /\ (permitted => permitted') /\ (verdict = "pass" => permitted')
  BY <1>1, Zenon DEF EInv, EffectsTypeOK
<1>9. ~hand[h].claimed /\ plan # "ask"
  BY <1>2, <1>3, Zenon DEF LocalInv, Local, Steps, Asking
<1>10. Steps(l) /\ ~Held(l) /\ (Free(l) => Free(hand[h]))
  BY <1>2, <1>5, <1>6, <1>9 DEF Steps, Held, Free
<1>11. consequential /\ Leave(l) => permitted'
  <2>1. l.ask \/ permitted'
    <3>1. verdict = "ask" \/ verdict = "pass"
      BY <1>7 DEF Verdicts
    <3> QED
      BY <1>6, <1>8, <3>1, Zenon
  <2>2. Leave(l) => Leave(hand[h]) \/ ~l.ask
    BY <1>5, Zenon DEF Leave
  <2> QED
    BY <1>3, <1>8, <2>1, <2>2, Zenon DEF LocalInv, Local
<1>12. Local(l, permitted', plan)
  BY <1>6, <1>9, <1>10, <1>11, Zenon DEF Local
<1>13. review' \in Verdicts \cup {"none"} /\ (review' = review \/ review' = verdict)
  BY <1>1, <1>7 DEF EInv, EffectsTypeOK
<1>14. Permits'
  BY <1>2, <1>8, <1>13 DEF EInv, Permits
<1>15. RunOK'
  BY <1>2, RunTyped, Zenon DEF RunOK
<1> QED
  BY <1>2, <1>4, <1>8, <1>9, <1>10, <1>12, <1>13, <1>14, <1>15, StallsTyped, StepKeeps

LEMMA GateKeeps ==
  ASSUME EInv, NEW h \in Hands, Gate(h)
  PROVE  EInv'
<1> DEFINE pc == WayOn(h)
           l == [hand[h] EXCEPT !.pc = pc]
<1>1. /\ hand[h].pc = "gate"
      /\ UNCHANGED <<consequential, plan, effect, review, stage, holder, lapsed, calls, permitted, stalls>>
  BY Zenon DEF Gate, HandAt
<1>2. hand[h] \in Hand /\ LocalInv(hand[h]) /\ h # "nobody" /\ hand \in [Hands -> Hand]
  BY HandTyped
<1>3. /\ pc \in {"turn", "idle", "pause", "call", "claim", "settle"}
      /\ pc = "call" => hand[h].seen = "none" /\ ~hand[h].ask /\ ~consequential
      /\ pc = "claim" => hand[h].seen = "approved" \/ ~hand[h].ask
      /\ pc = "pause" => hand[h].seen \in {"none", "intended"}
  <2>1. hand[h].seen \in Effect
    BY <1>2, Zenon DEF Hand
  <2> QED
    BY <2>1 DEF WayOn, Unclaimed, Effect
<1> HIDE DEF pc
<1>4. RunOK' /\ Permits' /\ review' \in Verdicts \cup {"none"} /\ permitted' \in BOOLEAN
  BY <1>1, RunTyped, Zenon DEF EInv, EffectsTypeOK, Permits, RunOK
<1>5. CASE pc \in {"turn", "idle"}
  <2>1. hand' = [hand EXCEPT ![h] = [NoHand EXCEPT !.pc = pc]]
    BY <1>5, Zenon DEF Gate, pc
  <2> QED
    BY <1>1, <1>4, <1>5, <2>1, StallsTyped, Leaves
<1>6. CASE pc \notin {"turn", "idle"}
  <2>1. hand' = [hand EXCEPT ![h] = l]
    <3>1. hand' = [hand EXCEPT ![h] = [@ EXCEPT !.pc = pc]]
      BY <1>6, Zenon DEF Gate, pc
    <3> QED
      BY <1>2, <3>1
  <2>2. l.pc = pc /\ l.seen = hand[h].seen /\ l.review = hand[h].review /\ l.plan = hand[h].plan
    BY <1>2 DEF Hand
  <2>3. l.claimed = hand[h].claimed /\ l.ask = hand[h].ask /\ l \in Hand
    <3>1. pc \in Pcs
      BY <1>3 DEF Pcs
    <3> QED
      BY <1>2, <3>1, Zenon DEF Hand
  <2> HIDE DEF l
  <2>4. ~hand[h].claimed
    BY <1>1, <1>2, Zenon DEF LocalInv, Local, Steps
  <2>5. Steps(l) /\ ~Held(l)
    BY <1>3, <2>2, <2>3, <2>4 DEF Steps, Held
  <2>6. Free(l) => Free(hand[h])
    BY <1>1, <2>2, <2>3 DEF Free
  <2>7. Leave(l) => Leave(hand[h])
    BY <1>1, <1>3, <1>6, <2>2, <2>3 DEF Leave
  <2>8. Asking(hand[h]) => Asking(l)
    BY <1>1, <1>3, <1>6, <2>2, <2>3 DEF Asking
  <2>9. Local(l, permitted', plan)
    BY <1>1, <1>2, <2>3, <2>5, <2>7, <2>8, Zenon DEF LocalInv, Local
  <2>10. plan = "ask" /\ holder' = h /\ l.pc \in {"gate", "pause"} /\ l.seen \in {"none", "intended"}
           => effect = "intended"
    BY <1>1, <1>2, <2>2 DEF EInv, CardInv
  <2> QED
    BY <1>1, <1>4, <2>1, <2>5, <2>6, <2>9, <2>10, StallsTyped, StepKeeps
<1> QED
  BY <1>5, <1>6

LEMMA PauseForCardKeeps ==
  ASSUME EInv, NEW h \in Hands, PauseForCard(h)
  PROVE  EInv'
<1> DEFINE l == [NoHand EXCEPT !.pc = "idle"]
<1>1. /\ hand[h].pc = "pause" /\ hand' = [hand EXCEPT ![h] = l]
      /\ UNCHANGED <<consequential, plan, effect, review, calls, permitted, stalls>>
  BY NoHandIdle, Zenon DEF PauseForCard, HandAt
<1>2. RunOK' /\ holder' \in {holder, "nobody", h}
  <2>1. IF holder = h THEN stage' = "waiting" /\ holder' = "nobody" /\ lapsed' = FALSE
        ELSE UNCHANGED <<stage, holder, lapsed>>
    BY Zenon DEF PauseForCard
  <2> QED
    BY <2>1, LetGo
<1>3. CASE holder = h
  <2>1. LocalInv(hand[h]) /\ h # "nobody" /\ hand \in [Hands -> Hand]
    BY HandTyped
  <2>2. LocalInv(l) /\ ~Held(l) /\ ~Free(l)
    BY NoHandAt
  <2> HIDE DEF l
  <2>3. Local(l, permitted', plan')
    BY <1>1, <2>2, Zenon DEF LocalInv
  <2>4. hand' \in [Hands -> Hand] /\ \A k \in Hands : LocalInv(hand[k])'
    BY <1>1, <2>3, HandsKeep
  <2>5. CountInv'
    BY <1>1, <2>1, <2>2, CountKeeps DEF EInv
  <2>6. Permits'
    BY <1>1, Zenon DEF EInv, Permits
  <2>7. CardInv'
    <3>1. stage' = "waiting" /\ holder' = "nobody"
      BY <1>3, Zenon DEF PauseForCard
    <3>2. plan = "ask" => hand[h].seen \in {"none", "intended"}
      BY <1>1, <2>1, Zenon DEF LocalInv, Local, Asking
    <3>3. plan = "ask" => effect = "intended"
      BY <1>1, <1>3, <2>1, <3>2 DEF EInv, CardInv
    <3> QED
      BY <1>1, <3>1, <3>3 DEF CardInv
  <2>8. EffectsTypeOK'
    BY <1>1, <1>2, <2>4, Zenon DEF EInv, EffectsTypeOK, RunOK, Hand, Pcs
  <2> QED
    BY <2>4, <2>5, <2>6, <2>7, <2>8 DEF EInv
<1>4. CASE holder # h
  <2>1. UNCHANGED <<stage, holder, lapsed>>
    BY <1>4, Zenon DEF PauseForCard
  <2> QED
    BY <1>1, <1>2, <2>1, StallsTyped, Leaves
<1> QED
  BY <1>3, <1>4

\* A claim given up: the invocation goes on without it.
LEMMA GivesUpKeeps ==
  ASSUME EInv, NEW h \in Hands, NEW pc \in {"turn", "settle"}, hand[h].pc = "claim",
         hand' = [hand EXCEPT ![h].pc = pc],
         UNCHANGED <<consequential, plan, effect, review, stage, holder, lapsed, calls, permitted, stalls>>
  PROVE  EInv'
<1> DEFINE l == [hand[h] EXCEPT !.pc = pc]
<1>1. hand[h] \in Hand /\ LocalInv(hand[h]) /\ hand \in [Hands -> Hand]
  BY HandTyped
<1>2. hand' = [hand EXCEPT ![h] = l]
  BY <1>1
<1>3. l.pc = pc /\ l.seen = hand[h].seen /\ l.review = hand[h].review /\ l.plan = hand[h].plan
  BY <1>1 DEF Hand
<1>4. l.claimed = hand[h].claimed /\ l \in Hand
  BY <1>1, Zenon DEF Hand, Pcs
<1> HIDE DEF l
<1>5. ~hand[h].claimed
  BY <1>1, Zenon DEF LocalInv, Local, Steps
<1>6. Steps(l) /\ (Leave(l) => Leave(hand[h])) /\ (Asking(hand[h]) => Asking(l)) /\ ~Held(l) /\ ~Free(l)
  BY <1>3, <1>4, <1>5 DEF Steps, Leave, Asking, Held, Free
<1>7. Local(l, permitted', plan)
  BY <1>1, <1>4, <1>6, Zenon DEF LocalInv, Local
<1>8. RunOK' /\ Permits' /\ review' \in Verdicts \cup {"none"} /\ permitted' \in BOOLEAN
  BY RunTyped, Zenon DEF EInv, EffectsTypeOK, Permits, RunOK
<1>9. l.pc \notin {"gate", "pause"}
  BY <1>3
<1> QED
  BY <1>2, <1>6, <1>7, <1>8, <1>9, StallsTyped, StepKeeps

LEMMA ClaimEffectKeeps ==
  ASSUME EInv, NEW h \in Hands, ClaimEffect(h)
  PROVE  EInv'
<1>1. hand[h].pc = "claim" /\ UNCHANGED <<consequential, plan, review, calls, permitted, stalls>>
  BY Zenon DEF ClaimEffect, HandAt
<1>2. hand[h] \in Hand /\ LocalInv(hand[h]) /\ h # "nobody" /\ hand \in [Hands -> Hand]
  BY HandTyped
<1>3. CASE Claimable(h)
  <2> DEFINE l == [hand[h] EXCEPT !.pc = "call", !.claimed = TRUE]
  <2>1. /\ effect' = "executing" /\ UNCHANGED <<stage, holder, lapsed>>
        /\ hand' = [hand EXCEPT ![h].pc = "call", ![h].claimed = TRUE]
    BY <1>3, Zenon DEF ClaimEffect
  <2>2. hand' = [hand EXCEPT ![h] = l]
    BY <1>2, <2>1, Zenon
  <2>3. l.pc = "call" /\ l.seen = hand[h].seen /\ l.review = hand[h].review /\ l.plan = hand[h].plan
    BY <1>2 DEF Hand
  <2>4. l.claimed = TRUE /\ l \in Hand
    BY <1>2, Zenon DEF Hand, Pcs
  <2> HIDE DEF l
  <2>5. effect \in {"approved", "intended"} /\ (hand[h].seen = "approved" => effect = "approved")
    BY <1>3 DEF Claimable
  <2>6. Leave(hand[h])
    BY <1>1 DEF Leave
  <2>7. (Asking(hand[h]) => Asking(l)) /\ Steps(l) /\ ~Free(l)
    BY <2>3, <2>4 DEF Asking, Steps, Free
  <2>8. Local(l, permitted', plan')
    BY <1>1, <1>2, <2>4, <2>6, <2>7, Zenon DEF LocalInv, Local
  <2>9. hand' \in [Hands -> Hand] /\ \A k \in Hands : LocalInv(hand[k])'
    BY <1>1, <2>2, <2>8, HandsKeep
  <2>10. hand'[h] = l /\ \A k \in Hands : k # h => hand'[k] = hand[k]
    BY <1>2, <2>2
  <2>11. CountInv'
    <3>1. \A k \in Hands : (Held(hand[k])' => Held(hand[k]) \/ k = h) /\ (Free(hand[k])' => Free(hand[k]))
      BY <1>1, <2>7, <2>10, Zenon DEF Held, Free
    <3>2. calls < Limit /\ \A k \in Hands : ~Held(hand[k]) /\ (Free(hand[k]) => calls + 1 < Limit)
      BY <2>5 DEF EInv, CountInv, Early
    <3>3. calls' = calls /\ Limit' = Limit /\ effect' \notin Early \cup {"none"}
      BY <1>1, <2>1 DEF Limit, Early
    <3>4. \A j, k \in Hands : Free(hand[j]) /\ Free(hand[k]) => j = k
      BY DEF EInv, CountInv
    <3>5. calls' <= Limit'
      BY <3>3 DEF EInv, CountInv
    <3>6. \A k \in Hands : Held(hand[k])' => k = h
      BY <3>1, <3>2
    <3>7. (effect \in Early)' = FALSE /\ effect' # "none"
      BY <3>3 DEF Early
    <3> QED
      BY <3>1, <3>2, <3>3, <3>4, <3>5, <3>6, <3>7 DEF CountInv
  <2>12. EffectsTypeOK'
    <3>1. consequential' \in BOOLEAN /\ plan' \in {"ask", "judge", "allow"} /\ effect' \in Effect
          /\ calls' \in 0 .. MaxCalls /\ review' \in Verdicts \cup {"none"}
      BY <1>1, <2>1 DEF EInv, EffectsTypeOK, Effect
    <3>2. RunOK' /\ permitted' \in BOOLEAN
      BY <1>1, <2>1, RunTyped, Zenon DEF EInv, EffectsTypeOK, RunOK
    <3> QED
      BY <1>1, <2>9, <3>1, <3>2, StallsTyped, Zenon DEF EffectsTypeOK, RunOK, Hand, Pcs
  <2>13. Permits'
    BY <1>1, <2>1 DEF EInv, Permits
  <2>14. CardInv'
    <3>1. plan = "ask" => effect = "approved"
      <4>1. plan = "ask" => hand[h].seen = "approved"
        BY <1>1, <1>2, Zenon DEF LocalInv, Local, Asking
      <4> QED
        BY <2>5, <4>1
    <3>2. holder # "nobody" => holder \in Hands
      BY RunTyped DEF RunOK
    <3> QED
      BY <1>1, <1>2, <2>1, <2>3, <2>10, <3>1, <3>2 DEF EInv, CardInv
  <2> QED
    BY <2>9, <2>11, <2>12, <2>13, <2>14 DEF EInv
<1>4. CASE ~Claimable(h)
  <2>1. /\ UNCHANGED effect
        /\ \/ MoveHand(h, "turn") /\ UNCHANGED <<stage, holder, lapsed>>
           \/ MoveHand(h, "settle") /\ UNCHANGED <<stage, holder, lapsed>>
           \/ Throws(h)
    BY <1>4 DEF ClaimEffect
  <2>2. CASE MoveHand(h, "turn") /\ UNCHANGED <<stage, holder, lapsed>>
    BY <1>1, <2>1, <2>2, GivesUpKeeps DEF MoveHand
  <2>3. CASE MoveHand(h, "settle") /\ UNCHANGED <<stage, holder, lapsed>>
    BY <1>1, <2>1, <2>3, GivesUpKeeps DEF MoveHand
  <2>4. CASE Throws(h)
    BY <1>1, <2>1, <2>4, ThrowsKeeps
  <2> QED
    BY <2>1, <2>2, <2>3, <2>4
<1> QED
  BY <1>3, <1>4

\* The action gets its outcome, from its claim or from its only creator.
LEMMA SettlesKeeps ==
  ASSUME EInv, NEW h \in Hands, hand' = [hand EXCEPT ![h] = [NoHand EXCEPT !.pc = "turn"]],
         effect' \in {"completed", "uncertain"}, effect = "executing" \/ plan # "ask",
         UNCHANGED <<consequential, plan, review, stage, holder, lapsed, calls, permitted, stalls>>
  PROVE  EInv'
<1> DEFINE l == [NoHand EXCEPT !.pc = "turn"]
<1>1. LocalInv(l) /\ ~Held(l) /\ ~Free(l) /\ l.pc = "turn"
  BY NoHandAt
<1>2. hand \in [Hands -> Hand]
  BY HandTyped
<1> HIDE DEF l
<1>3. hand' = [hand EXCEPT ![h] = l]
  BY DEF l
<1>4. Local(l, permitted', plan')
  BY <1>1, Zenon DEF LocalInv
<1>5. hand' \in [Hands -> Hand] /\ \A k \in Hands : LocalInv(hand[k])'
  BY <1>3, <1>4, HandsKeep
<1>6. hand'[h] = l /\ \A k \in Hands : k # h => hand'[k] = hand[k]
  BY <1>2, <1>3
<1>7. CountInv'
  <2>1. \A k \in Hands : (Held(hand[k])' => Held(hand[k])) /\ (Free(hand[k])' => Free(hand[k]))
    BY <1>1, <1>6, Zenon DEF Held, Free
  <2> QED
    BY <2>1 DEF EInv, CountInv, Limit, Early
<1>8. EffectsTypeOK'
  <2>1. effect' \in Effect
    BY DEF Effect, Settled
  <2> QED
    BY <1>5, <2>1, Zenon DEF EInv, EffectsTypeOK, Hand, Pcs
<1>9. Permits'
  BY DEF EInv, Permits
<1>10. CardInv'
  <2>1. holder # "nobody" => holder \in Hands
    BY RunTyped DEF RunOK
  <2> QED
    BY <1>1, <1>6, <2>1 DEF EInv, CardInv
<1> QED
  BY <1>5, <1>7, <1>8, <1>9, <1>10 DEF EInv

LEMMA SettleEffectKeeps ==
  ASSUME EInv, NEW h \in Hands, SettleEffect(h)
  PROVE  EInv'
<1>1. /\ hand' = [hand EXCEPT ![h] = [NoHand EXCEPT !.pc = "turn"]]
      /\ UNCHANGED <<consequential, plan, review, stage, holder, lapsed, calls, permitted, stalls>>
      /\ effect' = IF effect = "executing" THEN "uncertain" ELSE effect
  BY Zenon DEF SettleEffect
<1>2. CASE effect = "executing"
  BY <1>1, <1>2, SettlesKeeps
<1>3. CASE effect # "executing"
  <2>1. RunOK'
    BY <1>1, RunTyped, Zenon DEF RunOK
  <2> QED
    BY <1>1, <1>3, <2>1, StallsTyped, Leaves
<1> QED
  BY <1>2, <1>3

LEMMA CompleteEffectKeeps ==
  ASSUME EInv, NEW h \in Hands, CompleteEffect(h)
  PROVE  EInv'
<1>1. /\ hand' = [hand EXCEPT ![h] = [NoHand EXCEPT !.pc = "turn"]] /\ hand[h].pc = "finish"
      /\ UNCHANGED <<consequential, plan, review, stage, holder, lapsed, calls, permitted, stalls>>
      /\ effect' = IF effect = (IF hand[h].claimed THEN "executing" ELSE "intended")
                   THEN "completed" ELSE effect
  BY Zenon DEF CompleteEffect, HandAt
<1>2. plan # "ask" \/ hand[h].claimed
  BY <1>1, HandTyped, Zenon DEF LocalInv, Local, Asking
<1>3. CASE effect = (IF hand[h].claimed THEN "executing" ELSE "intended")
  <2>1. effect = "executing" \/ plan # "ask"
    BY <1>2, <1>3, Zenon
  <2> QED
    BY <1>1, <1>3, <2>1, SettlesKeeps
<1>4. CASE effect # (IF hand[h].claimed THEN "executing" ELSE "intended")
  <2>1. RunOK'
    BY <1>1, RunTyped, Zenon DEF RunOK
  <2> QED
    BY <1>1, <1>4, <2>1, StallsTyped, Leaves
<1> QED
  BY <1>3, <1>4

\* The performer uses up its claim or its leave.
LEMMA PerformsCount ==
  ASSUME EInv, NEW h \in Hands, NEW l, hand[h].pc = "call", hand' = [hand EXCEPT ![h] = l],
         l.pc \in {"turn", "finish"}, calls' = calls + 1, UNCHANGED <<consequential, effect>>
  PROVE  CountInv'
<1>1. hand \in [Hands -> Hand] /\ LocalInv(hand[h])
  BY HandTyped
<1>2. hand'[h] = l /\ \A k \in Hands : k # h => hand'[k] = hand[k]
  BY <1>1
<1>3. Held(hand[h]) \/ Free(hand[h])
  BY <1>1, Zenon DEF LocalInv, Local, Steps, Held, Free
<1>4. \A k \in Hands : /\ Held(hand[k])' => Held(hand[k]) /\ k # h
                       /\ Free(hand[k])' => Free(hand[k]) /\ k # h
  <2>1. ~Held(l) /\ ~Free(l)
    BY DEF Held, Free
  <2> QED
    BY <1>2, <2>1, Zenon DEF Held, Free
<1>5. Limit' = Limit /\ calls \in Nat /\ Limit \in Nat /\ Early' = Early
  BY DEF Limit, EInv, EffectsTypeOK, Early
<1>6. CountInv
  BY DEF EInv
<1>7. calls < Limit
  BY <1>3, <1>6 DEF CountInv
<1>8. \A k \in Hands : Held(hand[k])' => calls + 1 < Limit
  <2> SUFFICES ASSUME NEW k \in Hands, Held(hand[k])' PROVE calls + 1 < Limit
    OBVIOUS
  <2>1. Held(hand[k]) /\ k # h
    BY <1>4
  <2>2. Free(hand[h])
    BY <1>3, <1>6, <2>1 DEF CountInv
  <2> QED
    BY <1>6, <2>1, <2>2 DEF CountInv
<1>9. \A k \in Hands : Free(hand[k])' => calls + 1 < Limit
  <2> SUFFICES ASSUME NEW k \in Hands, Free(hand[k])' PROVE calls + 1 < Limit
    OBVIOUS
  <2>1. Free(hand[k]) /\ k # h
    BY <1>4
  <2>2. Held(hand[h])
    BY <1>3, <1>6, <2>1 DEF CountInv
  <2> QED
    BY <1>6, <2>1, <2>2 DEF CountInv
<1>10. \A j, k \in Hands : ~(Free(hand[j])' /\ Held(hand[k])')
  BY <1>3, <1>4, <1>6 DEF CountInv
<1>11. effect # "none"
  BY <1>3, <1>6 DEF CountInv
<1>12. effect \in Early => /\ calls + 1 < Limit
                           /\ \A k \in Hands : ~Held(hand[k])' /\ ~Free(hand[k])'
  BY <1>3, <1>4, <1>6 DEF CountInv
<1>13. \A j, k \in Hands : /\ Held(hand[j])' /\ Held(hand[k])' => j = k
                           /\ Free(hand[j])' /\ Free(hand[k])' => j = k
  BY <1>4, <1>6 DEF CountInv
<1> QED
  BY <1>5, <1>7, <1>8, <1>9, <1>10, <1>11, <1>12, <1>13 DEF CountInv

LEMMA CallToolKeeps ==
  ASSUME EInv, NEW h \in Hands, CallTool(h)
  PROVE  EInv'
<1>1. /\ hand[h].pc = "call" /\ calls < MaxCalls /\ calls' = calls + 1
      /\ UNCHANGED <<consequential, plan, effect, review, stage, holder, lapsed, permitted>>
  BY Zenon DEF CallTool, HandAt
<1>2. hand[h] \in Hand /\ LocalInv(hand[h]) /\ h # "nobody" /\ hand \in [Hands -> Hand]
  BY HandTyped
<1>3. PICK l : /\ hand' = [hand EXCEPT ![h] = l] /\ l.pc \in {"turn", "finish"}
               /\ Local(l, permitted', plan') /\ stalls' \in 0 .. MaxStalls
  <2>1. CASE MoveHand(h, "finish") /\ UNCHANGED stalls
    <3> DEFINE l == [hand[h] EXCEPT !.pc = "finish"]
    <3>1. hand' = [hand EXCEPT ![h] = l]
      BY <1>2, <2>1 DEF MoveHand
    <3>2. l.pc = "finish" /\ l.seen = hand[h].seen /\ l.review = hand[h].review /\ l.plan = hand[h].plan
      BY <1>2 DEF Hand
    <3>3. l.claimed = hand[h].claimed /\ l \in Hand
      BY <1>2, Zenon DEF Hand, Pcs
    <3> HIDE DEF l
    <3>4. Steps(l) /\ (Leave(l) => Leave(hand[h])) /\ (Asking(hand[h]) => Asking(l))
      BY <1>1, <3>2, <3>3 DEF Steps, Leave, Asking
    <3>5. Local(l, permitted', plan')
      BY <1>1, <1>2, <3>3, <3>4, Zenon DEF LocalInv, Local
    <3> QED
      BY <2>1, <3>1, <3>2, <3>5, StallsTyped
  <2>2. CASE Stall /\ hand' = [hand EXCEPT ![h] = [NoHand EXCEPT !.pc = "turn"]]
    <3> DEFINE l == [NoHand EXCEPT !.pc = "turn"]
    <3>1. LocalInv(l) /\ l.pc = "turn"
      BY NoHandAt
    <3> HIDE DEF l
    <3>2. Local(l, permitted', plan') /\ hand' = [hand EXCEPT ![h] = l]
      BY <1>1, <2>2, <3>1, Zenon DEF LocalInv, l
    <3> QED
      BY <2>2, <3>1, <3>2, StallType
  <2> QED
    BY <2>1, <2>2, Zenon DEF CallTool
<1>4. hand' \in [Hands -> Hand] /\ \A k \in Hands : LocalInv(hand[k])'
  BY <1>1, <1>3, HandsKeep
<1>5. CountInv'
  BY <1>1, <1>3, PerformsCount
<1>6. EffectsTypeOK'
  <2>1. calls' \in 0 .. MaxCalls
    BY <1>1 DEF EInv, EffectsTypeOK, MaxCalls
  <2> QED
    BY <1>1, <1>3, <1>4, <2>1, Zenon DEF EInv, EffectsTypeOK, Hand, Pcs
<1>7. Permits'
  <2>1. Leave(hand[h])
    BY <1>1 DEF Leave
  <2>2. consequential => permitted
    BY <1>2, <2>1, Zenon DEF LocalInv, Local
  <2> QED
    BY <1>1, <2>2, Zenon DEF Permits
<1>8. CardInv'
  BY <1>1, <1>2, <1>3, RunTyped, CardKeeps DEF EInv
<1> QED
  BY <1>4, <1>5, <1>6, <1>7, <1>8 DEF EInv

-----------------------------------------------------------------------------

LEMMA EffectsPreserves == EInv /\ [EffectsNext]_effectVars => EInv'
<1> SUFFICES ASSUME EInv, [EffectsNext]_effectVars PROVE EInv'
  OBVIOUS
<1>1. ASSUME NEW h \in Hands,
             TakeRun(h) \/ EndTurn(h) \/ Dies(h) \/ Propose(h) \/ RecordEffect(h) \/ Judge(h)
               \/ Gate(h) \/ PauseForCard(h) \/ ClaimEffect(h) \/ SettleEffect(h) \/ CallTool(h)
               \/ CompleteEffect(h)
      PROVE  EInv'
  BY <1>1, TakeRunKeeps, EndTurnKeeps, DiesKeeps, ProposeKeeps, RecordEffectKeeps, JudgeKeeps,
     GateKeeps, PauseForCardKeeps, ClaimEffectKeeps, SettleEffectKeeps, CallToolKeeps,
     CompleteEffectKeeps, Zenon
<1>2. CASE LoseLease \/ StopRun
  BY <1>2, LoseLeaseKeeps, StopRunKeeps
<1>3. ASSUME NEW answer \in {"allow", "always", "deny"}, AnswerCard(answer)
      PROVE  EInv'
  BY <1>3, AnswerCardKeeps
<1>4. CASE UNCHANGED effectVars
  <2>1. UNCHANGED <<consequential, plan, effect, review, stage, holder, lapsed, hand, calls, permitted, stalls>>
    BY <1>4 DEF effectVars
  <2>2. RunOK'
    BY <2>1, RunTyped, Zenon DEF RunOK
  <2> QED
    BY <2>1, <2>2, StallsTyped, StageKeeps
<1> QED
  BY <1>1, <1>2, <1>3, <1>4, Zenon DEF EffectsNext

LEMMA EffectsInductive == EffectsSpec => []EInv
BY EffectsStart, EffectsPreserves, PTL DEF EffectsSpec

\* Every state of the action, its card and the invocations that work on it is well formed.
THEOREM EffectsTypeCorrect == EffectsSpec => []EffectsTypeOK
<1>1. EInv => EffectsTypeOK
  BY Zenon DEF EInv
<1> QED
  BY <1>1, EffectsInductive, PTL

\* However many invocations propose a consequential action, after crashes or beside stalled
\* workers, it is performed at most once; another one at most twice.
THEOREM PerformedOnce == EffectsSpec => []EffectOnce
<1>1. EInv => EffectOnce
  BY DEF EInv, CountInv, Limit, EffectOnce
<1> QED
  BY <1>1, EffectsInductive, PTL

\* A consequential action is only performed after somebody allowed it, and one that was
\* denied or is undecided has not been.
THEOREM PerformedWithConsent == EffectsSpec => []EffectConsented
<1>1. EInv => EffectConsented
  <2> SUFFICES ASSUME EInv, consequential
               PROVE  /\ calls > 0 => permitted
                      /\ effect \in {"none", "intended", "approved", "denied"} => calls = 0
    BY DEF EffectConsented
  <2>1. calls > 0 => permitted
    BY DEF EInv, Permits
  <2>2. effect \in {"none", "intended", "approved", "denied"} => calls = 0
    <3>1. calls \in Nat
      BY DEF EInv, EffectsTypeOK
    <3> QED
      BY <3>1 DEF EInv, CountInv, Early, Limit
  <2> QED
    BY <2>1, <2>2
<1> QED
  BY <1>1, EffectsInductive, PTL

\* Where rules or the default ask the user, a run that waits for its card waits for an
\* action that can still be answered.
THEOREM CardsAnswerable == EffectsSpec => []CardAnswerable
<1>1. EInv => CardAnswerable
  BY DEF EInv, CardInv, CardAnswerable
<1> QED
  BY <1>1, EffectsInductive, PTL

-----------------------------------------------------------------------------
(* Messages *)

-----------------------------------------------------------------------------
(* The building blocks of the actions keep the types. *)

LEMMA NewRowType ==
  ASSUME NEW kind \in Kinds
  PROVE  NewRow(kind) \in Row /\ Deleted(kind) \in Row
BY DEF NewRow, Deleted, Row

LEMMA IdleType == Idle \in Drain
BY DEF Idle, Drain, Phases

LEMMA InitType == Init => TypeOK
<1> SUFFICES ASSUME Init PROVE TypeOK
  OBVIOUS
<1>1. NoRow \in Row
  BY DEF NoRow, NewRow, Row, Kinds
<1>2. \A d \in Drains : drain[d].pc = "idle"
  BY DEF Init, Idle
<1>3. job \in BOOLEAN /\ linked \in BOOLEAN
  BY Zenon DEF Init
<1>4. drain \in [Drains -> Drain]
  BY IdleType DEF Init
<1>5. out \in [Rows -> Row] /\ accepted \in [Rows -> Nat] /\ doubt \in [Rows -> Nat]
  BY <1>1 DEF Init
<1>6. created \in 0..NRows /\ since \in Nat /\ inbound \in Nat /\ faults \in Nat /\ unanswered \in Nat
  BY OutboxBounds DEF Init
<1> QED
  BY <1>2, <1>3, <1>4, <1>5, <1>6, Zenon DEF Init, TypeOK

LEMMA WithoutType ==
  ASSUME TypeOK, NEW rows
  PROVE  Without(rows) \in [Rows -> Row]
<1>1. ASSUME NEW k \in Rows PROVE Without(rows)[k] \in Row
  BY <1>1, NewRowType DEF Without, TypeOK, Row
<1> QED
  BY <1>1 DEF Without

LEMMA InsertType ==
  ASSUME TypeOK, NEW rows \in [Rows -> Row], NEW kind \in Kinds, Insert(rows, kind)
  PROVE  out' \in [Rows -> Row] /\ created' \in 0..NRows
BY NewRowType, OutboxBounds DEF Insert, TypeOK, Rows

LEMMA EnqueueType ==
  ASSUME TypeOK, Enqueue
  PROVE  job' \in BOOLEAN /\ faults' \in Nat
<1>1. job' \in BOOLEAN
  BY Zenon DEF TypeOK, Enqueue
<1>2. faults' \in Nat
  BY DEF TypeOK, Enqueue, Fault, NoFault
<1> QED
  BY <1>1, <1>2

LEMMA UpdateType ==
  ASSUME TypeOK, NEW k \in Rows, NEW row \in Row, Update(k, row)
  PROVE  out' \in [Rows -> Row]
BY DEF TypeOK, Update

\* A drain that moves to another place with its row, goes on to its next row, or
\* gives the job up is a drain.
LEMMA DrainType ==
  ASSUME TypeOK, NEW d \in Drains, NEW pc \in Phases,
         \/ Goto(d, pc) /\ drain[d].row \in Rows
         \/ Continue(d)
         \/ GiveUp(d)
  PROVE  /\ drain' \in [Drains -> Drain]
         /\ \A e \in Drains : drain'[e].pc \notin {"idle", "loop"} => drain'[e].row \in Rows
<1> USE DEF TypeOK, Drain
<1>1. CASE Goto(d, pc) /\ drain[d].row \in Rows
  BY <1>1 DEF Goto
<1>2. CASE Continue(d)
  BY <1>2 DEF Continue, Phases
<1>3. CASE GiveUp(d)
  BY <1>3, IdleType DEF GiveUp, Idle
<1> QED
  BY <1>1, <1>2, <1>3

LEMMA UnlockType ==
  ASSUME TypeOK, NEW d \in Drains, Unlock(d)
  PROVE  lock' \in Drains \cup {NoDrain}
BY DEF TypeOK, Unlock

LEMMA AcceptType ==
  ASSUME TypeOK, NEW k \in Rows, Accept(k)
  PROVE  accepted' \in [Rows -> Nat] /\ unanswered' \in Nat
BY DEF TypeOK, Accept

LEMMA DoubtType ==
  ASSUME TypeOK, NEW k \in Rows, Doubt(k)
  PROVE  doubt' \in [Rows -> Nat]
BY DEF TypeOK, Doubt

-----------------------------------------------------------------------------
(* Every action keeps the types. *)

LEMMA WriteType ==
  ASSUME TypeOK, Write
  PROVE  TypeOK'
<1>1. ASSUME NEW kind \in {"dm", "group"}, Post(kind) PROVE TypeOK'
  <2>1. out \in [Rows -> Row]
    BY DEF TypeOK
  <2> QED
    BY <1>1, <2>1, InsertType, EnqueueType DEF Post, TypeOK, provider, Kinds
<1>2. ASSUME NEW k \in Rows, Rewrite(k) PROVE TypeOK'
  BY <1>2, WithoutType, InsertType, EnqueueType DEF Rewrite, TypeOK, provider, Kinds
<1>3. ASSUME NEW k \in Rows, NEW s \in {"sent", "failed"}, Webhook(k, s) PROVE TypeOK'
  BY <1>3 DEF Webhook, TypeOK, Row, provider
<1>4. ASSUME Connect PROVE TypeOK'
  BY <1>4, WithoutType, InsertType, EnqueueType DEF Connect, TypeOK, provider, Kinds
<1>5. ASSUME Revoke PROVE TypeOK'
  BY <1>5, WithoutType DEF Revoke, TypeOK, provider
<1>6. ASSUME NEW answer \in {"approved", "declined"}, Respond(answer) PROVE TypeOK'
  BY <1>6 DEF Respond, TypeOK, provider
<1>7. ASSUME Inbound PROVE TypeOK'
  BY <1>7 DEF Inbound, TypeOK
<1>8. ASSUME Unlink PROVE TypeOK'
  BY <1>8 DEF Unlink, TypeOK, provider
<1> QED
  BY <1>1, <1>2, <1>3, <1>4, <1>5, <1>6, <1>7, <1>8 DEF Write

LEMMA StartType ==
  ASSUME TypeOK, NEW d \in Drains, Start(d)
  PROVE  TypeOK'
<1> DEFINE found == {<<k, out[k].attempts>> : k \in {r \in Rows : out[r].status = "pending" /\ out[r].due}}
<1>1. found \in SUBSET (Rows \X Nat)
  BY DEF TypeOK, Row
<1>2. [Idle EXCEPT !.pc = "loop", !.todo = found] \in Drain
  BY <1>1 DEF Idle, Drain, Phases
<1> HIDE DEF found
<1>3. drain' = [drain EXCEPT ![d] = [Idle EXCEPT !.pc = "loop", !.todo = found]]
  BY DEF Start, found
<1>4. drain' \in [Drains -> Drain]
  BY <1>2, <1>3 DEF TypeOK
<1>5. ASSUME NEW e \in Drains, drain'[e].pc \notin {"idle", "loop"} PROVE drain'[e].row \in Rows
  BY <1>3, <1>5 DEF TypeOK, Idle
<1> QED
  BY <1>4, <1>5 DEF Start, TypeOK, provider

LEMMA ClaimType ==
  ASSUME TypeOK, NEW d \in Drains, Claim(d)
  PROVE  TypeOK'
<1> PICK next \in drain[d].todo :
      LET k == next[1]  rest == drain[d].todo \ {next} IN
        IF claimable(k)
        THEN /\ out' = [out EXCEPT ![k] = [@ EXCEPT !.status = "sent", !.due = TRUE]]
             /\ drain' = [drain EXCEPT ![d] =
                  [pc |-> "claimed", todo |-> rest, row |-> k, tries |-> next[2]]]
        ELSE drain' = [drain EXCEPT ![d] = [@ EXCEPT !.todo = rest]] /\ UNCHANGED out
  BY DEF Claim
<1> DEFINE k == next[1]
           rest == drain[d].todo \ {next}
<1>1. k \in Rows /\ next[2] \in Nat /\ rest \in SUBSET (Rows \X Nat)
  BY DEF TypeOK, Drain
<1> HIDE DEF k, rest
<1>2. CASE claimable(k)
  <2>1. out' = [out EXCEPT ![k] = [@ EXCEPT !.status = "sent", !.due = TRUE]]
    BY <1>2 DEF k
  <2>2. drain' = [drain EXCEPT ![d] = [pc |-> "claimed", todo |-> rest, row |-> k, tries |-> next[2]]]
    BY <1>2 DEF k, rest
  <2>3. [pc |-> "claimed", todo |-> rest, row |-> k, tries |-> next[2]] \in Drain
    BY <1>1 DEF Drain, Phases
  <2>4. out' \in [Rows -> Row]
    <3>1. [out[k] EXCEPT !.status = "sent", !.due = TRUE] \in Row
      <4>1. out[k] \in Row
        BY <1>1 DEF TypeOK
      <4> QED
        BY <4>1, Zenon DEF Row
    <3> QED
      BY <1>1, <2>1, <3>1 DEF TypeOK
  <2>5. drain' \in [Drains -> Drain]
    BY <2>2, <2>3 DEF TypeOK
  <2>6. ASSUME NEW e \in Drains, drain'[e].pc \notin {"idle", "loop"} PROVE drain'[e].row \in Rows
    BY <1>1, <2>2, <2>6 DEF TypeOK
  <2> QED
    BY <2>4, <2>5, <2>6 DEF Claim, TypeOK, provider
<1>3. CASE ~claimable(k)
  <2>1. drain' = [drain EXCEPT ![d] = [@ EXCEPT !.todo = rest]] /\ UNCHANGED out
    BY <1>3 DEF k, rest
  <2> QED
    BY <1>1, <2>1 DEF Claim, TypeOK, Drain, provider
<1> QED
  BY <1>2, <1>3

LEMMA DrainStepType ==
  ASSUME TypeOK, NEW d \in Drains, Advance(d) \/ Disturb(d)
  PROVE  TypeOK'
<1> DEFINE k == drain[d].row
<1>0. ASSUME drain[d].pc \notin {"idle", "loop"} PROVE k \in Rows /\ out[k] \in Row
  BY <1>0 DEF TypeOK
<1>1. CASE Finish(d)
  BY <1>1, DrainType DEF Finish, TypeOK, provider, Phases
<1>2. CASE Claim(d)
  BY <1>2, ClaimType
<1>3. CASE Check(d)
  <2>1. k \in Rows /\ out[k] \in Row
    BY <1>0, <1>3 DEF Check
  <2>2. out' \in [Rows -> Row]
    <3>1. [out[k] EXCEPT !.status = "pending"] \in Row /\ [out[k] EXCEPT !.status = "failed"] \in Row
      BY <2>1 DEF Row
    <3>2. \/ UNCHANGED out
          \/ \E s \in {"pending", "failed"} : out' = [out EXCEPT ![k] = [@ EXCEPT !.status = s]]
      <4>1. (IF linked THEN "pending" ELSE "failed") \in {"pending", "failed"}
        OBVIOUS
      <4> QED
        BY <1>3, <4>1, Zenon DEF Check
    <3> QED
      BY <2>1, <3>1, <3>2 DEF TypeOK
  <2> QED
    BY <1>3, <2>1, <2>2, DrainType DEF Check, TypeOK, provider, Phases
<1>4. CASE Send(d)
  BY <1>0, <1>4, DrainType, AcceptType DEF Send, TypeOK, Phases
<1>5. CASE Record(d)
  <2>1. k \in Rows /\ [out[k] EXCEPT !.handle = TRUE] \in Row
    BY <1>0, <1>5 DEF Record, Row
  <2> QED
    BY <1>5, <2>1, DrainType, UpdateType DEF Record, TypeOK, provider, Phases
<1>6. CASE Count(d)
  BY <1>6, DrainType DEF Count, TypeOK, provider, Phases
<1>7. CASE WriteFails(d)
  BY <1>0, <1>7, DrainType, DoubtType DEF WriteFails, TypeOK, Phases, Fault, NoFault
<1>8. CASE Caught(d)
  <2> DEFINE attempts == drain[d].tries + 1
             exhausted == attempts >= MaxAttempts
             row == [out[k] EXCEPT !.attempts = attempts, !.due = exhausted,
                                   !.status = IF exhausted THEN "failed" ELSE "pending"]
  <2>1. k \in Rows
    BY <1>0, <1>8 DEF Caught
  <2>2. row \in Row
    <3>1. attempts \in Nat /\ exhausted \in BOOLEAN /\ out[k] \in Row
      BY <2>1 DEF TypeOK, Drain
    <3> HIDE DEF attempts, exhausted
    <3> QED
      BY <3>1, Zenon DEF Row
  <2>3. Update(k, row)
    BY <1>8 DEF Caught
  <2>4. job' \in BOOLEAN /\ faults' \in Nat
    <3>1. job' = (job \/ ~exhausted) \/ job' = TRUE
      BY <1>8 DEF Caught
    <3>2. job' \in BOOLEAN
      <4> HIDE DEF exhausted
      <4> QED
        BY <3>1, Zenon
    <3>3. faults' \in Nat
      BY <1>8 DEF Caught, TypeOK, Fault, NoFault
    <3> QED
      BY <3>2, <3>3
  <2>5. out' \in [Rows -> Row]
    BY <2>1, <2>2, <2>3, UpdateType
  <2>6. Continue(d) \/ GiveUp(d)
    BY <1>8 DEF Caught
  <2> QED
    BY <1>8, <2>4, <2>5, <2>6, DrainType DEF Caught, TypeOK, provider, Phases
<1>9. CASE LockInvite(d)
  <2>1. k \in Rows /\ [out[k] EXCEPT !.status = "failed"] \in Row
    BY <1>0, <1>9 DEF LockInvite, Row
  <2>2. out' \in [Rows -> Row]
    BY <1>9, <2>1, UpdateType DEF LockInvite, TypeOK
  <2> QED
    BY <1>9, <2>1, <2>2, DrainType DEF LockInvite, TypeOK, provider, Phases
<1>10. CASE SendInvite(d)
  BY <1>0, <1>10, DrainType, AcceptType, DoubtType DEF SendInvite, TypeOK, Phases
<1>11. CASE CommitInvite(d)
  <2>1. k \in Rows /\ [out[k] EXCEPT !.handle = TRUE] \in Row
    BY <1>0, <1>11 DEF CommitInvite, Row
  <2> QED
    BY <1>11, <2>1, DrainType, UpdateType, UnlockType DEF CommitInvite, TypeOK, provider, Phases
<1>12. CASE SendFails(d)
  BY <1>0, <1>12, DrainType, AcceptType, DoubtType DEF SendFails, TypeOK, provider, Phases, Fault
<1>13. CASE Timeout(d)
  BY <1>0, <1>13, DrainType, UnlockType DEF Timeout, TypeOK, provider, Phases, Fault
<1>14. CASE HoldInvite(d)
  BY <1>0, <1>14, DrainType, AcceptType, DoubtType, UnlockType
     DEF HoldInvite, TypeOK, provider, Phases, Fault
<1>15. CASE Crash(d)
  <2>1. job' \in BOOLEAN
    BY <1>15, Zenon DEF Crash, TypeOK
  <2> QED
    BY <1>15, <2>1, DrainType, UnlockType DEF Crash, TypeOK, provider, Phases, Fault
<1> QED
  BY <1>1, <1>2, <1>3, <1>4, <1>5, <1>6, <1>7, <1>8, <1>9, <1>10, <1>11, <1>12, <1>13,
     <1>14, <1>15 DEF Advance, Disturb

LEMMA NextType ==
  ASSUME TypeOK, [Next]_vars
  PROVE  TypeOK'
<1>1. ASSUME NEW k \in Rows, Due(k) PROVE TypeOK'
  BY <1>1 DEF Due, TypeOK, Row, provider
<1>2. ASSUME Reconcile PROVE TypeOK'
  BY <1>2 DEF Reconcile, TypeOK, provider
<1>3. ASSUME UNCHANGED vars PROVE TypeOK'
  BY <1>3 DEF vars, TypeOK
<1> QED
  BY <1>1, <1>2, <1>3, WriteType, StartType, DrainStepType DEF Next

\* The type invariant, for every instance.
THEOREM TypeCorrect == Spec => []TypeOK
<1>1. Init => TypeOK
  BY InitType
<1>2. TypeOK /\ [Next]_vars => TypeOK'
  BY NextType
<1> QED
  BY <1>1, <1>2, PTL DEF Spec

-----------------------------------------------------------------------------
(* The inductive invariant. A step belongs to one of four kinds: a writer   *)
(* of the outbox, a drain between two rows, a claim, or a drain that works  *)
(* on its row; each kind is one lemma.                                      *)

LEMMA InitInv == Init => IInv
<1> SUFFICES ASSUME Init PROVE IInv
  OBVIOUS
<1>1. TypeOK
  BY InitType
<1>2. \A d \in Drains : drain[d].pc = "idle"
  BY DEF Init, Idle
<1>3. \A k \in Rows : out[k] = NoRow /\ accepted[k] = 0 /\ doubt[k] = 0
  BY DEF Init
<1>4. Blank /\ DuplicatesAreDoubted /\ Owed
  BY <1>3 DEF Blank, DuplicatesAreDoubted, Owed
<1>5. OneWorker /\ InvitesOnly /\ InviteUnderLock
  BY <1>2 DEF OneWorker, InvitesOnly, InviteUnderLock, Working, Inviting
<1> QED
  BY <1>1, <1>4, <1>5 DEF IInv

\* A writer adds rows at the end of the table. It reopens no row, and only while
\* nobody holds the connection does it change the connection or delete an invite.
LEMMA WriterKeeps ==
  ASSUME IInv, TypeOK',
         UNCHANGED <<drain, lock, accepted, doubt>>,
         created <= created',
         \A k \in Rows : k > created' => out'[k] = out[k],
         \A k \in Rows : k <= created =>
           /\ out'[k].kind = out[k].kind
           /\ out'[k].status = "pending" => out[k].status = "pending"
           /\ out'[k].status = "deleted" =>
                out[k].status = "deleted" \/ out[k].kind # "invite" \/ lock = NoDrain,
         conn' = conn \/ lock = NoDrain
  PROVE  IInv'
<1> USE DEF IInv
<1>0. created \in Nat /\ created' \in Nat /\ \A k \in Rows : k \in Nat
  BY OutboxBounds DEF TypeOK, Rows
<1>1. Blank'
  BY <1>0 DEF Blank
<1>2. OneWorker'
  <2> SUFFICES ASSUME NEW d \in Drains, Working(d)
               PROVE  /\ drain[d].row <= created'
                      /\ out'[drain[d].row].status # "pending"
                      /\ \A e \in Drains : Working(e) /\ drain[e].row = drain[d].row => e = d
    BY DEF OneWorker, Working
  <2>1. drain[d].row \in Rows /\ drain[d].row <= created /\ out[drain[d].row].status # "pending"
    BY DEF OneWorker, Working, TypeOK
  <2>2. drain[d].row <= created'
    <3>1. \A j, m, n \in Nat : j <= m /\ m <= n => j <= n
      OBVIOUS
    <3>2. drain[d].row \in Nat
      BY <1>0, <2>1, Zenon
    <3> QED
      BY <1>0, <2>1, <3>1, <3>2
  <2>3. out'[drain[d].row].status # "pending"
    BY <2>1
  <2>4. \A e \in Drains : Working(e) /\ drain[e].row = drain[d].row => e = d
    BY DEF OneWorker
  <2> QED
    BY <2>2, <2>3, <2>4
<1>3. Owed'
  <2> SUFFICES ASSUME NEW k \in Rows,
                      \/ out'[k].status = "pending"
                      \/ \E d \in Drains : drain[d].pc \in Unsent /\ drain[d].row = k
               PROVE  accepted[k] <= doubt[k]
    BY DEF Owed
  <2>1. CASE \E d \in Drains : drain[d].pc \in Unsent /\ drain[d].row = k
    BY <2>1 DEF Owed
  <2>2. CASE out'[k].status = "pending" /\ k <= created
    BY <2>2 DEF Owed
  <2>3. CASE k > created
    <3>1. accepted[k] = 0 /\ doubt[k] \in Nat
      BY <2>3 DEF Blank, TypeOK
    <3> QED
      BY <3>1
  <2> QED
    BY <1>0, <2>1, <2>2, <2>3
<1>4. ASSUME NEW d \in Drains, drain[d].pc \in Inviting
      PROVE  /\ drain[d].row \in Rows /\ drain[d].row <= created
             /\ out[drain[d].row].kind = "invite"
  BY <1>4 DEF OneWorker, Working, TypeOK, Inviting, InvitesOnly
<1>5. InvitesOnly'
  BY <1>4 DEF InvitesOnly
<1>6. DuplicatesAreDoubted'
  BY DEF DuplicatesAreDoubted
<1>7. InviteUnderLock'
  <2> SUFFICES ASSUME NEW d \in Drains, drain[d].pc \in {"inviting", "answered"}
               PROVE  lock = d /\ conn' = "pending" /\ out'[drain[d].row].status # "deleted"
    BY DEF InviteUnderLock
  <2>1. lock = d /\ conn = "pending" /\ out[drain[d].row].status # "deleted"
    BY DEF InviteUnderLock
  <2>2. lock # NoDrain
    BY <2>1, NoDrainAssumption
  <2> QED
    BY <1>4, <2>1, <2>2 DEF Inviting
<1> QED
  BY <1>1, <1>2, <1>3, <1>5, <1>6, <1>7

\* A drain that ends between two rows, or without a job, disturbs nobody.
LEMMA RestKeeps ==
  ASSUME IInv, TypeOK', NEW d \in Drains,
         UNCHANGED <<out, created, conn, accepted, doubt>>,
         \A e \in Drains \ {d} : drain'[e] = drain[e],
         drain'[d].pc \in {"idle", "loop"},
         lock' = lock \/ lock = d
  PROVE  IInv'
<1> USE DEF IInv
<1>1. Blank' /\ DuplicatesAreDoubted'
  BY DEF Blank, DuplicatesAreDoubted
<1>2. OneWorker'
  BY DEF OneWorker, Working
<1>3. Owed'
  BY DEF Owed, Unsent
<1>4. InvitesOnly'
  BY DEF InvitesOnly, Inviting
<1>5. InviteUnderLock'
  BY DEF InviteUnderLock
<1> QED
  BY <1>1, <1>2, <1>3, <1>4, <1>5

\* A drain that is done with its row, or stays with it, changes no other row. Unless
\* it is done, the row is not pending; if the row may be sent again it owes its
\* acceptances to errors; the lock changes hands only through this drain.
LEMMA WorkerKeeps ==
  ASSUME IInv, TypeOK', NEW d \in Drains, NEW k \in Rows,
         Working(d), drain[d].row = k,
         UNCHANGED <<created, conn>>,
         \A e \in Drains \ {d} : drain'[e] = drain[e],
         Working(d)' => drain'[d].row = k /\ out'[k].status # "pending",
         \A j \in Rows \ {k} : /\ out'[j] = out[j]
                               /\ accepted'[j] = accepted[j] /\ doubt'[j] = doubt[j],
         out'[k].kind = out[k].kind,
         accepted'[k] <= 1 + doubt'[k],
         out'[k].status = "pending" \/ drain'[d].pc \in Unsent => accepted'[k] <= doubt'[k],
         drain'[d].pc \in Inviting => out[k].kind = "invite",
         drain'[d].pc \in {"inviting", "answered"} =>
           lock' = d /\ conn = "pending" /\ out'[k].status # "deleted",
         lock' = lock \/ lock \in {NoDrain, d}
  PROVE  IInv'
<1> USE DEF IInv
<1>0. k <= created /\ k \in Nat /\ created \in Nat
  BY OutboxBounds DEF OneWorker, TypeOK, Rows
<1>1. Blank'
  BY <1>0 DEF Blank
<1>2. \A e \in Drains \ {d} : Working(e) => drain[e].row \in Rows \ {k}
  BY DEF OneWorker, Working, TypeOK
<1>3. \A e \in Drains \ {d} : Working(e)' <=> Working(e)
  BY DEF Working
<1>4. OneWorker'
  <2> SUFFICES ASSUME NEW e \in Drains, Working(e)'
               PROVE  /\ drain'[e].row <= created /\ out'[drain'[e].row].status # "pending"
                      /\ \A f \in Drains : Working(f)' /\ drain'[f].row = drain'[e].row => f = e
    BY DEF OneWorker
  <2>1. CASE e = d
    BY <1>0, <1>2, <1>3, <2>1
  <2>2. CASE e # d
    <3>1. Working(e) /\ drain'[e] = drain[e] /\ drain[e].row \in Rows \ {k}
      BY <1>2, <1>3, <2>2
    <3>2. drain[e].row <= created /\ out[drain[e].row].status # "pending"
      BY <3>1 DEF OneWorker
    <3>3. ASSUME NEW f \in Drains, Working(f)', drain'[f].row = drain'[e].row PROVE f = e
      <4>1. f # d
        BY <3>1, <3>3
      <4> QED
        BY <1>3, <3>1, <3>3, <4>1 DEF OneWorker
    <3> QED
      BY <3>1, <3>2, <3>3
  <2> QED
    BY <2>1, <2>2
<1>5. Owed'
  <2> SUFFICES ASSUME NEW j \in Rows,
                      \/ out'[j].status = "pending"
                      \/ \E e \in Drains : drain'[e].pc \in Unsent /\ drain'[e].row = j
               PROVE  accepted'[j] <= doubt'[j]
    BY DEF Owed
  <2>1. \A e \in Drains : drain'[e].pc \in Unsent => Working(e)'
    BY DEF Unsent, Working
  <2>2. CASE j = k
    BY <1>2, <1>3, <2>1, <2>2
  <2>3. CASE j # k
    BY <2>1, <2>3 DEF Owed
  <2> QED
    BY <2>2, <2>3
<1>6. InvitesOnly'
  <2>1. \A e \in Drains : drain'[e].pc \in Inviting => Working(e)'
    BY DEF Inviting, Working
  <2> QED
    BY <1>2, <1>3, <2>1 DEF InvitesOnly
<1>7. DuplicatesAreDoubted'
  BY DEF DuplicatesAreDoubted
<1>8. InviteUnderLock'
  <2> SUFFICES ASSUME NEW e \in Drains, drain'[e].pc \in {"inviting", "answered"}
               PROVE  lock' = e /\ conn = "pending" /\ out'[drain'[e].row].status # "deleted"
    BY DEF InviteUnderLock
  <2>1. Working(e)'
    BY DEF Working
  <2>2. CASE e = d
    BY <2>1, <2>2
  <2>3. CASE e # d
    <3>1. lock = e /\ conn = "pending" /\ out[drain[e].row].status # "deleted"
      BY <2>3 DEF InviteUnderLock
    <3>2. lock' = e
      BY <2>3, <3>1, NoDrainAssumption
    <3> QED
      BY <1>2, <1>3, <2>1, <2>3, <3>1, <3>2
  <2> QED
    BY <2>2, <2>3
<1> QED
  BY <1>1, <1>4, <1>5, <1>6, <1>7, <1>8

-----------------------------------------------------------------------------
(* Every action is a step of one of these kinds. *)

LEMMA WithoutKeeps ==
  ASSUME NEW rows, NEW k \in Rows
  PROVE  /\ Without(rows)[k].kind = out[k].kind
         /\ Without(rows)[k].status = "pending" => out[k].status = "pending"
         /\ Without(rows)[k].status = "deleted" => out[k].status = "deleted" \/ k \in rows
         /\ k \notin rows => Without(rows)[k] = out[k]
BY DEF Without, Deleted, NewRow

LEMMA InsertKeeps ==
  ASSUME TypeOK, NEW rows \in [Rows -> Row], NEW kind \in Kinds, Insert(rows, kind)
  PROVE  /\ created <= created'
         /\ \A k \in Rows : k # created' => out'[k] = rows[k]
         /\ \A k \in Rows : k <= created => k # created'
BY OutboxBounds DEF Insert, TypeOK, Rows

\* Rows not yet written are neither invites nor confirmations.
LEMMA UnwrittenRows ==
  ASSUME IInv, NEW k \in Rows, k > created
  PROVE  out[k].status = "none" /\ ~out[k].handle /\ out[k].due /\ k \notin Invites
BY DEF IInv, Blank, NoRow, NewRow, Invites

LEMMA InsertInv ==
  ASSUME IInv, TypeOK', NEW rows \in [Rows -> Row], NEW kind \in Kinds, Insert(rows, kind),
         UNCHANGED <<drain, lock, accepted, doubt>>,
         \A k \in Rows : k > created => rows[k] = out[k],
         \A k \in Rows :
           /\ rows[k].kind = out[k].kind
           /\ rows[k].status = "pending" => out[k].status = "pending"
           /\ rows[k].status = "deleted" =>
                out[k].status = "deleted" \/ out[k].kind # "invite" \/ lock = NoDrain,
         conn' = conn \/ lock = NoDrain
  PROVE  IInv'
<1>1. /\ created <= created'
      /\ \A k \in Rows : k # created' => out'[k] = rows[k]
      /\ \A k \in Rows : k <= created => k # created'
  BY InsertKeeps DEF IInv
<1>2. ASSUME NEW k \in Rows, k > created' PROVE out'[k] = out[k]
  <2>1. k > created /\ k # created'
    BY <1>1, <1>2, OutboxBounds DEF IInv, TypeOK, Rows
  <2> QED
    BY <1>1, <2>1
<1> QED
  BY <1>1, <1>2, WriterKeeps

LEMMA WriteInv ==
  ASSUME IInv, TypeOK', Write
  PROVE  IInv'
<1> USE DEF provider
<1>1. ASSUME NEW kind \in {"dm", "group"}, Post(kind) PROVE IInv'
  BY <1>1, InsertInv DEF Post, IInv, TypeOK, Kinds
<1>2. ASSUME NEW k \in Rows, Rewrite(k) PROVE IInv'
  <2>1. \A j \in Rows : j > created => j # k
    BY <1>2, UnwrittenRows DEF Rewrite
  <2>2. Without({k}) \in [Rows -> Row]
    BY WithoutType DEF IInv
  <2>3. ASSUME NEW j \in Rows, Without({k})[j].status = "deleted"
        PROVE  out[j].status = "deleted" \/ out[j].kind # "invite"
    BY <1>2, <2>3, WithoutKeeps DEF Rewrite
  <2>4. \A j \in Rows : j > created => Without({k})[j] = out[j]
    BY <2>1, WithoutKeeps
  <2>5. Insert(Without({k}), "dm") /\ "dm" \in Kinds
    BY <1>2 DEF Rewrite, Kinds
  <2>6. UNCHANGED <<drain, lock, accepted, doubt>> /\ conn' = conn
    BY <1>2 DEF Rewrite
  <2> QED
    BY <2>2, <2>3, <2>4, <2>5, <2>6, WithoutKeeps, InsertInv
<1>3. ASSUME NEW k \in Rows, NEW s \in {"sent", "failed"}, Webhook(k, s) PROVE IInv'
  <2>1. ~(k > created)
    BY <1>3, UnwrittenRows DEF Webhook
  <2>2. ASSUME NEW j \in Rows
        PROVE  /\ out'[j].kind = out[j].kind
               /\ out'[j].status = "pending" => out[j].status = "pending"
               /\ out'[j].status = "deleted" => out[j].status = "deleted"
               /\ j # k => out'[j] = out[j]
    BY <1>3 DEF Webhook, IInv, TypeOK, Row
  <2>3. created <= created' /\ created' = created
    BY <1>3 DEF Webhook, IInv, TypeOK
  <2> QED
    BY <1>3, <2>1, <2>2, <2>3, WriterKeeps DEF Webhook
<1>4. ASSUME Connect PROVE IInv'
  <2>1. \A j \in Rows : j > created => j \notin Invites
    BY UnwrittenRows
  <2>2. Without(Invites) \in [Rows -> Row]
    BY WithoutType DEF IInv
  <2> QED
    BY <1>4, <2>1, <2>2, WithoutKeeps, InsertInv DEF Connect, Kinds
<1>5. ASSUME Revoke PROVE IInv'
  <2> DEFINE gone == {k \in Invites : \/ out[k].status = "pending"
                                      \/ out[k].status = "sent" /\ ~out[k].handle}
  <2>1. \A j \in Rows : j > created => j \notin gone
    BY UnwrittenRows
  <2> HIDE DEF gone
  <2>2. out' = Without(gone)
    BY <1>5 DEF Revoke, gone
  <2>3. created <= created' /\ created' = created
    BY <1>5 DEF Revoke, IInv, TypeOK
  <2>4. ASSUME NEW j \in Rows
        PROVE  /\ out'[j].kind = out[j].kind
               /\ out'[j].status = "pending" => out[j].status = "pending"
               /\ j > created => out'[j] = out[j]
    BY <2>1, <2>2, WithoutKeeps
  <2>5. UNCHANGED <<drain, lock, accepted, doubt>> /\ lock = NoDrain
    BY <1>5 DEF Revoke
  <2> QED
    BY <2>3, <2>4, <2>5, WriterKeeps
<1>6. ASSUME NEW answer \in {"approved", "declined"}, Respond(answer) PROVE IInv'
  BY <1>6, WriterKeeps DEF Respond, IInv, TypeOK
<1>7. ASSUME Inbound PROVE IInv'
  BY <1>7, WriterKeeps DEF Inbound, IInv, TypeOK
<1>8. ASSUME Unlink PROVE IInv'
  BY <1>8, WriterKeeps DEF Unlink, IInv, TypeOK
<1> QED
  BY <1>1, <1>2, <1>3, <1>4, <1>5, <1>6, <1>7, <1>8 DEF Write

LEMMA TimeInv ==
  ASSUME IInv, TypeOK', Reconcile \/ \E k \in Rows : Due(k)
  PROVE  IInv'
<1> USE DEF provider
<1>1. CASE Reconcile
  BY <1>1, WriterKeeps DEF Reconcile, IInv, TypeOK
<1>2. ASSUME NEW k \in Rows, Due(k) PROVE IInv'
  <2>1. ~(k > created)
    BY <1>2, UnwrittenRows DEF Due
  <2>2. ASSUME NEW j \in Rows
        PROVE  /\ out'[j].kind = out[j].kind /\ out'[j].status = out[j].status
               /\ j # k => out'[j] = out[j]
    BY <1>2 DEF Due, IInv, TypeOK, Row
  <2>3. created <= created' /\ created' = created
    BY <1>2 DEF Due, IInv, TypeOK
  <2> QED
    BY <1>2, <2>1, <2>2, <2>3, WriterKeeps DEF Due
<1> QED
  BY <1>1, <1>2

LEMMA MovesOf ==
  ASSUME TypeOK, NEW d \in Drains
  PROVE  /\ \A pc : Goto(d, pc) =>
              /\ drain'[d].pc = pc /\ drain'[d].row = drain[d].row
              /\ \A e \in Drains \ {d} : drain'[e] = drain[e]
         /\ Continue(d) => drain'[d].pc = "loop" /\ \A e \in Drains \ {d} : drain'[e] = drain[e]
         /\ GiveUp(d) => drain'[d].pc = "idle" /\ \A e \in Drains \ {d} : drain'[e] = drain[e]
<1> drain \in [Drains -> Drain] /\ drain[d] \in Drain
  BY DEF TypeOK
<1>1. ASSUME NEW pc, Goto(d, pc)
      PROVE  /\ drain'[d].pc = pc /\ drain'[d].row = drain[d].row
             /\ \A e \in Drains \ {d} : drain'[e] = drain[e]
  BY <1>1 DEF Goto, Drain
<1>2. ASSUME Continue(d)
      PROVE  drain'[d].pc = "loop" /\ \A e \in Drains \ {d} : drain'[e] = drain[e]
  BY <1>2 DEF Continue, Drain
<1>3. ASSUME GiveUp(d)
      PROVE  drain'[d].pc = "idle" /\ \A e \in Drains \ {d} : drain'[e] = drain[e]
  BY <1>3 DEF GiveUp, Idle
<1> QED
  BY <1>1, <1>2, <1>3

LEMMA UpdateOf ==
  ASSUME TypeOK, NEW k \in Rows, NEW row, Update(k, row)
  PROVE  /\ out'[k] = IF out[k].status = "deleted" THEN out[k] ELSE row
         /\ \A j \in Rows \ {k} : out'[j] = out[j]
BY DEF Update, TypeOK

LEMMA CountsOf ==
  ASSUME TypeOK, NEW k \in Rows
  PROVE  /\ Accept(k) => /\ accepted'[k] = accepted[k] + 1
                         /\ \A j \in Rows \ {k} : accepted'[j] = accepted[j]
         /\ Doubt(k) => /\ doubt'[k] = doubt[k] + 1
                        /\ \A j \in Rows \ {k} : doubt'[j] = doubt[j]
         /\ accepted[k] \in Nat /\ doubt[k] \in Nat
BY DEF Accept, Doubt, TypeOK

LEMMA WorkerOf ==
  ASSUME IInv, NEW d \in Drains, Working(d), NEW k, k = drain[d].row
  PROVE  /\ k \in Rows /\ out[k] \in Row /\ out[k].status # "pending"
         /\ accepted[k] <= 1 + doubt[k]
         /\ drain[d].pc \in Unsent => accepted[k] <= doubt[k]
         /\ drain[d].pc \in Inviting => out[k].kind = "invite"
BY DEF IInv, TypeOK, OneWorker, Owed, InvitesOnly, DuplicatesAreDoubted, Working

LEMMA ClaimInv ==
  ASSUME IInv, TypeOK', NEW d \in Drains, Claim(d)
  PROVE  IInv'
<1> USE DEF IInv
<1>1. PICK next \in drain[d].todo :
        LET k == next[1]  rest == drain[d].todo \ {next} IN
          IF claimable(k)
          THEN /\ out' = [out EXCEPT ![k] = [@ EXCEPT !.status = "sent", !.due = TRUE]]
               /\ drain' = [drain EXCEPT ![d] =
                    [pc |-> "claimed", todo |-> rest, row |-> k, tries |-> next[2]]]
          ELSE drain' = [drain EXCEPT ![d] = [@ EXCEPT !.todo = rest]] /\ UNCHANGED out
  BY DEF Claim
<1>2. PICK k : k = next[1]
  OBVIOUS
<1>3. k \in Rows
  BY <1>2 DEF TypeOK, Drain
<1>4. CASE ~claimable(k)
  <2>1. drain'[d].pc = "loop" /\ \A e \in Drains \ {d} : drain'[e] = drain[e]
    BY <1>1, <1>2, <1>4 DEF Claim, TypeOK, Drain
  <2> QED
    BY <1>1, <1>2, <1>4, <2>1, RestKeeps DEF Claim, provider
<1>5. CASE claimable(k)
  <2>1. /\ drain'[d].pc = "claimed" /\ drain'[d].row = k
        /\ \A e \in Drains \ {d} : drain'[e] = drain[e]
    BY <1>1, <1>2, <1>5 DEF TypeOK
  <2>2. /\ out'[k].status = "sent" /\ out'[k].kind = out[k].kind
        /\ \A j \in Rows \ {k} : out'[j] = out[j]
    <3>1. out' = [out EXCEPT ![k] = [@ EXCEPT !.status = "sent", !.due = TRUE]]
      BY <1>1, <1>2, <1>5
    <3>2. out \in [Rows -> Row] /\ out[k] \in Row
      BY <1>3 DEF TypeOK
    <3>3. out'[k] = [out[k] EXCEPT !.status = "sent", !.due = TRUE]
      BY <1>3, <3>1, <3>2
    <3>4. out'[k].status = "sent" /\ out'[k].kind = out[k].kind
      BY <3>2, <3>3, Zenon DEF Row
    <3> QED
      BY <3>1, <3>2, <3>4
  <2>3. UNCHANGED <<created, conn, lock, accepted, doubt>>
    BY DEF Claim, provider
  <2>4. out[k].status = "pending" /\ ~(k > created)
    BY <1>3, <1>5, UnwrittenRows DEF claimable
  <2>5. ~Working(d) /\ \A e \in Drains : Working(e) => drain[e].row \in Rows \ {k}
    BY <2>4 DEF Claim, Working, OneWorker, TypeOK
  <2>6. k <= created
    BY <1>3, <2>4, OutboxBounds DEF TypeOK, Rows
  <2>7. \A e \in Drains \ {d} : Working(e)' <=> Working(e)
    BY <2>1 DEF Working
  <2>8. Blank'
    BY <2>2, <2>3, <2>4 DEF Blank
  <2>9. OneWorker'
    <3> SUFFICES ASSUME NEW e \in Drains, Working(e)'
                 PROVE  /\ drain'[e].row <= created /\ out'[drain'[e].row].status # "pending"
                        /\ \A f \in Drains : Working(f)' /\ drain'[f].row = drain'[e].row => f = e
      BY <2>3 DEF OneWorker
    <3>1. CASE e = d
      BY <2>1, <2>2, <2>5, <2>6, <2>7, <3>1
    <3>2. CASE e # d
      <4>1. Working(e) /\ drain'[e] = drain[e] /\ drain[e].row \in Rows \ {k}
        BY <2>1, <2>5, <2>7, <3>2
      <4>2. drain[e].row <= created /\ out[drain[e].row].status # "pending"
        BY <4>1 DEF OneWorker
      <4>3. ASSUME NEW f \in Drains, Working(f)', drain'[f].row = drain'[e].row PROVE f = e
        <5>1. f # d
          BY <2>1, <4>1, <4>3
        <5> QED
          BY <2>1, <2>7, <4>1, <4>3, <5>1 DEF OneWorker
      <4> QED
        BY <2>2, <4>1, <4>2, <4>3
    <3> QED
      BY <3>1, <3>2
  <2>10. Owed'
    <3>1. accepted[k] <= doubt[k]
      BY <1>3, <2>4 DEF Owed
    <3> QED
      BY <2>1, <2>2, <2>3, <3>1 DEF Owed
  <2>11. InvitesOnly'
    <3>1. \A e \in Drains : drain'[e].pc \in Inviting => e # d /\ Working(e)
      BY <2>1, <2>7 DEF Inviting, Working
    <3> QED
      BY <2>1, <2>2, <2>5, <3>1 DEF InvitesOnly
  <2>12. DuplicatesAreDoubted'
    BY <2>3 DEF DuplicatesAreDoubted
  <2>13. InviteUnderLock'
    <3>1. \A e \in Drains : drain'[e].pc \in {"inviting", "answered"} => e # d /\ Working(e)
      BY <2>1, <2>7 DEF Working
    <3> QED
      BY <2>1, <2>2, <2>3, <2>5, <3>1 DEF InviteUnderLock
  <2> QED
    BY <2>8, <2>9, <2>10, <2>11, <2>12, <2>13
<1> QED
  BY <1>4, <1>5

LEMMA CheckInv ==
  ASSUME IInv, TypeOK', NEW d \in Drains, Check(d)
  PROVE  IInv'
<1>0. PICK k : k = drain[d].row
  OBVIOUS
<1>1. Working(d) /\ drain[d].pc \in Unsent /\ drain[d].pc \notin Inviting
  BY DEF Check, Working, Unsent, Inviting
<1>2. /\ k \in Rows /\ out[k] \in Row /\ out[k].status # "pending" /\ accepted[k] <= 1 + doubt[k]
      /\ accepted[k] <= doubt[k]
  BY <1>0, <1>1, WorkerOf
<1>3. UNCHANGED <<created, conn, lock, accepted, doubt>>
  BY DEF Check, provider
<1>4. CASE \E s \in {"pending", "failed"} :
             out' = [out EXCEPT ![k] = [@ EXCEPT !.status = s]] /\ Continue(d)
  <2>1. drain'[d].pc = "loop" /\ \A e \in Drains \ {d} : drain'[e] = drain[e]
    BY <1>4, MovesOf DEF IInv
  <2>2. out'[k].kind = out[k].kind /\ \A j \in Rows \ {k} : out'[j] = out[j]
    BY <1>2, <1>4 DEF IInv, TypeOK, Row
  <2> QED
    BY <1>0, <1>1, <1>2, <1>3, <2>1, <2>2, WorkerKeeps DEF Working, Unsent, Inviting
<1>5. CASE UNCHANGED out /\ \E pc \in {"caught", "invite", "sending"} :
             Goto(d, pc) /\ (pc = "invite" => out[k].kind = "invite")
  <2>1. /\ drain'[d].pc \in {"caught", "invite", "sending"} /\ drain'[d].row = k
        /\ drain'[d].pc = "invite" => out[k].kind = "invite"
        /\ \A e \in Drains \ {d} : drain'[e] = drain[e]
    BY <1>0, <1>5, MovesOf DEF IInv
  <2> QED
    BY <1>0, <1>1, <1>2, <1>3, <1>5, <2>1, WorkerKeeps DEF Working, Unsent, Inviting
<1>6. (IF linked THEN "pending" ELSE "failed") \in {"pending", "failed"}
  OBVIOUS
<1> QED
  BY <1>0, <1>4, <1>5, <1>6, Zenon DEF Check

LEMMA PlainSendInv ==
  ASSUME IInv, TypeOK', NEW d \in Drains, Send(d) \/ SendFails(d)
  PROVE  IInv'
<1>0. PICK k : k = drain[d].row
  OBVIOUS
<1>1. Working(d) /\ drain[d].pc \in Unsent
  BY DEF Send, SendFails, Working, Unsent
<1>2. /\ k \in Rows /\ out[k].status # "pending" /\ accepted[k] <= 1 + doubt[k]
      /\ accepted[k] <= doubt[k]
  BY <1>0, <1>1, WorkerOf
<1>3. UNCHANGED <<out, created, conn, lock>>
  BY DEF Send, SendFails
<1>4. CASE Send(d)
  <2>1. /\ drain'[d].pc = "sent" /\ drain'[d].row = k
        /\ \A e \in Drains \ {d} : drain'[e] = drain[e]
    BY <1>0, <1>4, MovesOf DEF Send, IInv
  <2>2. /\ accepted'[k] <= 1 + doubt'[k]
        /\ \A j \in Rows \ {k} : accepted'[j] = accepted[j] /\ doubt'[j] = doubt[j]
    BY <1>0, <1>2, <1>4, CountsOf DEF Send, IInv
  <2> QED
    BY <1>0, <1>1, <1>2, <1>3, <2>1, <2>2, WorkerKeeps DEF Unsent, Inviting
<1>5. CASE SendFails(d)
  <2>1. /\ drain'[d].pc = "caught" /\ drain'[d].row = k
        /\ \A e \in Drains \ {d} : drain'[e] = drain[e]
    BY <1>0, <1>5, MovesOf DEF SendFails, IInv
  <2>2. /\ accepted'[k] <= 1 + doubt'[k] /\ accepted'[k] <= doubt'[k]
        /\ \A j \in Rows \ {k} : accepted'[j] = accepted[j] /\ doubt'[j] = doubt[j]
    BY <1>0, <1>2, <1>5, CountsOf DEF SendFails, IInv, provider
  <2> QED
    BY <1>0, <1>1, <1>2, <1>3, <2>1, <2>2, WorkerKeeps DEF Unsent, Inviting
<1> QED
  BY <1>4, <1>5

LEMMA RecordInv ==
  ASSUME IInv, TypeOK', NEW d \in Drains, Record(d) \/ Count(d) \/ WriteFails(d)
  PROVE  IInv'
<1>0. PICK k : k = drain[d].row
  OBVIOUS
<1>1. Working(d)
  BY DEF Record, Count, WriteFails, Working
<1>2. k \in Rows /\ out[k] \in Row /\ out[k].status # "pending" /\ accepted[k] <= 1 + doubt[k]
  BY <1>0, <1>1, WorkerOf
<1>3. UNCHANGED <<created, conn, lock, accepted>>
  BY DEF Record, Count, WriteFails, provider
<1>4. CASE Record(d)
  <2>1. /\ \/ drain'[d].pc = "loop"
           \/ drain'[d].pc = "count" /\ drain'[d].row = k
        /\ \A e \in Drains \ {d} : drain'[e] = drain[e]
    BY <1>0, <1>4, MovesOf DEF Record, IInv
  <2>2. /\ out'[k].kind = out[k].kind /\ out'[k].status # "pending"
        /\ \A j \in Rows \ {k} : out'[j] = out[j]
    <3>1. /\ [out[k] EXCEPT !.handle = TRUE].kind = out[k].kind
          /\ [out[k] EXCEPT !.handle = TRUE].status = out[k].status
      BY <1>2 DEF Row
    <3> QED
      BY <1>0, <1>2, <1>4, <3>1, UpdateOf DEF Record, IInv
  <2>3. UNCHANGED doubt
    BY <1>4 DEF Record, provider
  <2> QED
    BY <1>0, <1>1, <1>2, <1>3, <2>1, <2>2, <2>3, WorkerKeeps DEF Working, Unsent, Inviting
<1>5. CASE Count(d)
  <2>1. drain'[d].pc = "loop" /\ \A e \in Drains \ {d} : drain'[e] = drain[e]
    BY <1>5, MovesOf DEF Count, IInv
  <2> QED
    BY <1>3, <1>5, <2>1, RestKeeps DEF Count, provider
<1>6. CASE WriteFails(d)
  <2>1. /\ drain'[d].pc = "caught" /\ drain'[d].row = k
        /\ \A e \in Drains \ {d} : drain'[e] = drain[e]
    BY <1>0, <1>6, MovesOf DEF WriteFails, IInv
  <2>2. /\ accepted'[k] <= 1 + doubt'[k] /\ accepted'[k] <= doubt'[k]
        /\ \A j \in Rows \ {k} : accepted'[j] = accepted[j] /\ doubt'[j] = doubt[j]
    BY <1>0, <1>2, <1>6, CountsOf DEF WriteFails, IInv
  <2>3. UNCHANGED out
    BY <1>6 DEF WriteFails
  <2> QED
    BY <1>0, <1>1, <1>2, <1>3, <2>1, <2>2, <2>3, WorkerKeeps DEF Unsent, Inviting
<1> QED
  BY <1>4, <1>5, <1>6

LEMMA CaughtInv ==
  ASSUME IInv, TypeOK', NEW d \in Drains, Caught(d)
  PROVE  IInv'
<1>0. PICK k : k = drain[d].row
  OBVIOUS
<1>1. Working(d) /\ drain[d].pc \in Unsent
  BY DEF Caught, Working, Unsent
<1>2. /\ k \in Rows /\ out[k] \in Row /\ accepted[k] <= 1 + doubt[k]
      /\ accepted[k] <= doubt[k]
  BY <1>0, <1>1, WorkerOf
<1>3. UNCHANGED <<created, conn, lock, accepted, doubt>>
  BY DEF Caught, provider
<1>4. drain'[d].pc \in {"idle", "loop"} /\ \A e \in Drains \ {d} : drain'[e] = drain[e]
  BY MovesOf DEF Caught, IInv
<1>5. PICK attempts, due, status : Update(k, [out[k] EXCEPT !.attempts = attempts, !.due = due,
                                                          !.status = status])
  BY <1>0 DEF Caught
<1>6. [out[k] EXCEPT !.attempts = attempts, !.due = due, !.status = status].kind = out[k].kind
  BY <1>2, Zenon DEF Row
<1>7. out'[k].kind = out[k].kind /\ \A j \in Rows \ {k} : out'[j] = out[j]
  BY <1>2, <1>5, <1>6, UpdateOf DEF IInv
<1> QED
  BY <1>0, <1>1, <1>2, <1>3, <1>4, <1>7, WorkerKeeps DEF Working, Unsent, Inviting

\* The steps of the invite's path, under the lock or after it expired.
LEMMA InviteInv ==
  ASSUME IInv, TypeOK', NEW d \in Drains,
         LockInvite(d) \/ Timeout(d) \/ SendInvite(d) \/ CommitInvite(d) \/ HoldInvite(d)
  PROVE  IInv'
<1>0. PICK k : k = drain[d].row
  OBVIOUS
<1>1. Working(d) /\ drain[d].pc \in Inviting
  BY DEF LockInvite, Timeout, SendInvite, CommitInvite, HoldInvite, Working, Inviting
<1>2. /\ k \in Rows /\ out[k] \in Row /\ out[k].status # "pending" /\ out[k].kind = "invite"
      /\ accepted[k] <= 1 + doubt[k] /\ (drain[d].pc \in Unsent => accepted[k] <= doubt[k])
  BY <1>0, <1>1, WorkerOf
<1>3. created' = created /\ conn' = conn
  BY DEF LockInvite, Timeout, SendInvite, CommitInvite, HoldInvite
<1>4. CASE LockInvite(d)
  <2>1. /\ accepted[k] <= doubt[k] /\ UNCHANGED <<accepted, doubt>> /\ lock = NoDrain
    BY <1>2, <1>4 DEF LockInvite, provider, Unsent
  <2>2. /\ out'[k].kind = out[k].kind /\ out'[k].status # "pending"
        /\ \A j \in Rows \ {k} : out'[j] = out[j]
        /\ conn = "pending" => out'[k] = out[k]
    <3>1. /\ [out[k] EXCEPT !.status = "failed"].kind = out[k].kind
          /\ [out[k] EXCEPT !.status = "failed"].status = "failed"
      BY <1>2 DEF Row
    <3> QED
      BY <1>0, <1>2, <1>4, <3>1, UpdateOf DEF LockInvite, IInv
  <2>3. /\ \A e \in Drains \ {d} : drain'[e] = drain[e]
        /\ \/ drain'[d].pc = "loop"
           \/ /\ drain'[d].pc = "inviting" /\ drain'[d].row = k
              /\ lock' = d /\ conn = "pending" /\ out[k].status # "deleted"
    BY <1>0, <1>4, MovesOf DEF LockInvite, IInv
  <2>4. CASE drain'[d].pc = "loop"
    BY <1>0, <1>1, <1>2, <1>3, <2>1, <2>2, <2>3, <2>4, WorkerKeeps DEF Working, Unsent, Inviting
  <2>5. CASE drain'[d].pc = "inviting"
    <3>1. drain'[d].row = k /\ lock' = d /\ conn = "pending" /\ out'[k].status # "deleted"
      BY <2>2, <2>3, <2>5
    <3>2. \A j \in Rows \ {k} : accepted'[j] = accepted[j] /\ doubt'[j] = doubt[j]
      BY <2>1
    <3> QED
      BY <1>0, <1>1, <1>2, <1>3, <2>1, <2>2, <2>3, <2>5, <3>1, <3>2, WorkerKeeps
  <2> QED
    BY <2>3, <2>4, <2>5
<1>5. CASE Timeout(d)
  <2>1. /\ drain'[d].pc = "expired" /\ drain'[d].row = k
        /\ \A e \in Drains \ {d} : drain'[e] = drain[e]
    BY <1>0, <1>5, MovesOf DEF Timeout, IInv
  <2>2. /\ accepted[k] <= doubt[k] /\ UNCHANGED <<out, accepted, doubt>>
        /\ lock' = lock \/ lock = d
    BY <1>2, <1>5 DEF Timeout, Unlock, provider, Unsent
  <2> QED
    BY <1>0, <1>1, <1>2, <1>3, <2>1, <2>2, WorkerKeeps DEF Unsent, Inviting
<1>6. CASE SendInvite(d)
  <2>1. /\ accepted[k] <= doubt[k] /\ UNCHANGED <<out, lock>>
    BY <1>2, <1>6 DEF SendInvite, Unsent
  <2>2. CASE drain[d].pc = "inviting"
    <3>1. /\ drain'[d].pc = "answered" /\ drain'[d].row = k
          /\ \A e \in Drains \ {d} : drain'[e] = drain[e]
      BY <1>0, <1>6, <2>2, MovesOf DEF SendInvite, IInv
    <3>2. lock = d /\ conn = "pending" /\ out[k].status # "deleted"
      BY <1>0, <2>2 DEF IInv, InviteUnderLock
    <3>3. /\ accepted'[k] <= 1 + doubt'[k]
          /\ \A j \in Rows \ {k} : accepted'[j] = accepted[j] /\ doubt'[j] = doubt[j]
      BY <1>0, <1>2, <1>6, <2>1, <2>2, CountsOf DEF SendInvite, IInv
    <3> QED
      BY <1>0, <1>1, <1>2, <1>3, <2>1, <3>1, <3>2, <3>3, WorkerKeeps DEF Unsent
  <2>3. CASE drain[d].pc = "expired"
    <3>1. drain'[d].pc = "loop" /\ \A e \in Drains \ {d} : drain'[e] = drain[e]
      BY <1>6, <2>3, MovesOf DEF SendInvite, IInv
    <3>2. /\ accepted'[k] <= 1 + doubt'[k]
          /\ \A j \in Rows \ {k} : accepted'[j] = accepted[j] /\ doubt'[j] = doubt[j]
      BY <1>0, <1>2, <1>6, <2>1, <2>3, CountsOf DEF SendInvite, IInv
    <3> QED
      BY <1>0, <1>1, <1>2, <1>3, <2>1, <3>1, <3>2, WorkerKeeps DEF Working, Unsent, Inviting
  <2> QED
    BY <1>6, <2>2, <2>3 DEF SendInvite
<1>7. CASE CommitInvite(d)
  <2>1. /\ drain'[d].pc = "count" /\ drain'[d].row = k
        /\ \A e \in Drains \ {d} : drain'[e] = drain[e]
    BY <1>0, <1>7, MovesOf DEF CommitInvite, IInv
  <2>2. /\ out'[k].kind = out[k].kind /\ out'[k].status # "pending"
        /\ \A j \in Rows \ {k} : out'[j] = out[j]
    <3>1. /\ [out[k] EXCEPT !.handle = TRUE].kind = out[k].kind
          /\ [out[k] EXCEPT !.handle = TRUE].status = out[k].status
      BY <1>2 DEF Row
    <3> QED
      BY <1>0, <1>2, <1>7, <3>1, UpdateOf DEF CommitInvite, IInv
  <2>3. UNCHANGED <<accepted, doubt>> /\ (lock' = lock \/ lock = d)
    BY <1>7 DEF CommitInvite, Unlock, provider
  <2> QED
    BY <1>0, <1>1, <1>2, <1>3, <2>1, <2>2, <2>3, WorkerKeeps DEF Unsent, Inviting
<1>8. CASE HoldInvite(d)
  <2>1. drain'[d].pc = "loop" /\ \A e \in Drains \ {d} : drain'[e] = drain[e]
    BY <1>8, MovesOf DEF HoldInvite, IInv
  <2>2. UNCHANGED out /\ (lock' = lock \/ lock = d)
    BY <1>8 DEF HoldInvite, Unlock
  <2>3. drain[d].pc # "answered" => accepted[k] <= doubt[k]
    BY <1>2, <1>8 DEF HoldInvite, Unsent
  <2>4. /\ accepted'[k] <= 1 + doubt'[k]
        /\ \A j \in Rows \ {k} : accepted'[j] = accepted[j] /\ doubt'[j] = doubt[j]
    BY <1>0, <1>2, <1>8, <2>3, CountsOf DEF HoldInvite, IInv, provider
  <2> QED
    BY <1>0, <1>1, <1>2, <1>3, <2>1, <2>2, <2>4, WorkerKeeps DEF Working, Unsent, Inviting
<1> QED
  BY <1>4, <1>5, <1>6, <1>7, <1>8

LEMMA NextInv == IInv /\ [Next]_vars => IInv'
<1> SUFFICES ASSUME IInv, [Next]_vars PROVE IInv'
  OBVIOUS
<1>0. TypeOK'
  BY NextType DEF IInv
<1>1. CASE Write \/ Reconcile \/ \E k \in Rows : Due(k)
  BY <1>0, <1>1, WriteInv, TimeInv
<1>2. ASSUME NEW d \in Drains, Start(d) PROVE IInv'
  <2>1. drain'[d].pc = "loop" /\ \A e \in Drains \ {d} : drain'[e] = drain[e]
    BY <1>2 DEF Start, Idle, IInv, TypeOK
  <2> QED
    BY <1>0, <1>2, <2>1, RestKeeps DEF Start, provider
<1>3. ASSUME NEW d \in Drains, Finish(d) \/ Crash(d) PROVE IInv'
  <2>1. drain'[d].pc = "idle" /\ \A e \in Drains \ {d} : drain'[e] = drain[e]
    BY <1>3, MovesOf DEF Finish, Crash, IInv
  <2>2. UNCHANGED <<out, created, conn, accepted, doubt>> /\ (lock' = lock \/ lock = d)
    BY <1>3 DEF Finish, Crash, Unlock, provider
  <2> QED
    BY <1>0, <2>1, <2>2, RestKeeps
<1>4. CASE UNCHANGED vars
  BY <1>0, <1>4, WriterKeeps DEF vars, IInv, TypeOK
<1> QED
  BY <1>0, <1>1, <1>2, <1>3, <1>4, ClaimInv, CheckInv, PlainSendInv, RecordInv, CaughtInv,
     InviteInv DEF Next, Advance, Disturb

\* However many drains run, a row the provider accepted is accepted again only after
\* an accepted send ended in an error.
THEOREM NoBlindDuplicates == Spec => []DuplicatesAreDoubted
<1>1. IInv => DuplicatesAreDoubted
  BY DEF IInv
<1> QED
  BY <1>1, InitInv, NextInv, PTL DEF Spec

\* A drain that holds the connection sends an invite which is still wanted.
THEOREM InvitesUnderLock == Spec => []InviteUnderLock
<1>1. IInv => InviteUnderLock
  BY DEF IInv
<1> QED
  BY <1>1, InitInv, NextInv, PTL DEF Spec

-----------------------------------------------------------------------------
(* The cap on messages without a reply. *)

\* The drains whose message the recipient has and the counter has not, and those that send
\* without the lock, whose message will not be counted.
Counted ==
  {d \in Drains : /\ drain[d].pc \in {"answered", "sent", "count"}
                  /\ out[drain[d].row].kind # "group"}

Expired == {d \in Drains : drain[d].pc = "expired"}

\* A send without the lock has paid its message with the disturbance that expired it.
Balanced ==
  /\ Cardinality(Expired) <= faults
  /\ linked => unanswered + Cardinality(Expired) <= since + faults + Cardinality(Counted)

KindsKept == \A k \in Rows : k <= created => out'[k].kind = out[k].kind

LEMMA OneMoves ==
  ASSUME NEW S, NEW T, NEW d, IsFiniteSet(S), T \ {d} = S \ {d}
  PROVE  /\ IsFiniteSet(T) /\ Cardinality(S) \in Nat /\ Cardinality(T) \in Nat
         /\ (d \in S <=> d \in T) => Cardinality(T) = Cardinality(S)
         /\ d \in S /\ d \notin T => Cardinality(T) = Cardinality(S) - 1
         /\ d \notin S /\ d \in T => Cardinality(T) = Cardinality(S) + 1
<1> DEFINE rest == S \ {d}
<1>1. IsFiniteSet(rest) /\ IsFiniteSet(rest \cup {d})
  BY FS_RemoveElement, FS_AddElement
<1>2. S = rest \/ S = rest \cup {d}
  OBVIOUS
<1>3. T = rest \/ T = rest \cup {d}
  OBVIOUS
<1>4. d \notin rest
  OBVIOUS
<1>5. Cardinality(rest \cup {d}) = Cardinality(rest) + 1 /\ Cardinality(rest) \in Nat
  BY <1>1, <1>4, FS_AddElement, FS_CardinalityType
<1> HIDE DEF rest
<1>6. CASE S = rest /\ T = rest
  BY <1>1, <1>4, <1>5, <1>6
<1>7. CASE S = rest /\ T = rest \cup {d}
  BY <1>1, <1>4, <1>5, <1>7
<1>8. CASE S = rest \cup {d} /\ T = rest
  BY <1>1, <1>4, <1>5, <1>8
<1>9. CASE S = rest \cup {d} /\ T = rest \cup {d}
  BY <1>1, <1>4, <1>5, <1>9
<1> QED
  BY <1>2, <1>3, <1>6, <1>7, <1>8, <1>9

\* One drain moves: how many are counted, and how many have expired.
LEMMA DrainMoves ==
  ASSUME IInv, KindsKept, NEW d \in Drains, \A e \in Drains \ {d} : drain'[e] = drain[e]
  PROVE  /\ Cardinality(Counted) \in Nat /\ Cardinality(Counted') \in Nat
         /\ (d \in Counted <=> d \in Counted') => Cardinality(Counted') = Cardinality(Counted)
         /\ d \in Counted /\ d \notin Counted' => Cardinality(Counted') = Cardinality(Counted) - 1
         /\ d \notin Counted /\ d \in Counted' => Cardinality(Counted') = Cardinality(Counted) + 1
         /\ Cardinality(Expired) \in Nat /\ Cardinality(Expired') \in Nat
         /\ (d \in Expired <=> d \in Expired') => Cardinality(Expired') = Cardinality(Expired)
         /\ d \in Expired /\ d \notin Expired' => Cardinality(Expired') = Cardinality(Expired) - 1
         /\ d \notin Expired /\ d \in Expired' => Cardinality(Expired') = Cardinality(Expired) + 1
<1>1. IsFiniteSet(Counted) /\ IsFiniteSet(Expired)
  BY FiniteDrains, FS_Subset DEF Counted, Expired
<1>2. ASSUME NEW e \in Drains \ {d}, drain[e].pc \in {"answered", "sent", "count"}
      PROVE  out'[drain'[e].row].kind = out[drain[e].row].kind
  BY <1>2 DEF IInv, TypeOK, OneWorker, Working, KindsKept
<1>3. Counted' \ {d} = Counted \ {d}
  BY <1>2 DEF Counted
<1>4. Expired' \ {d} = Expired \ {d}
  BY DEF Expired
<1> QED
  BY <1>1, <1>3, <1>4, OneMoves

LEMMA KindsStay ==
  ASSUME IInv, [Next]_vars
  PROVE  KindsKept
<1>1. out \in [Rows -> Row] /\ TypeOK
  BY DEF IInv, TypeOK
<1>2. ASSUME UNCHANGED out PROVE KindsKept
  BY <1>2, Zenon DEF KindsKept
<1>3. ASSUME NEW rows \in [Rows -> Row], NEW kind \in Kinds, Insert(rows, kind),
             \A k \in Rows : rows[k].kind = out[k].kind
      PROVE  KindsKept
  BY <1>1, <1>3, InsertKeeps DEF KindsKept
<1>4. ASSUME NEW k \in Rows, NEW row, Update(k, row), row.kind = out[k].kind PROVE KindsKept
  BY <1>1, <1>4, UpdateOf DEF KindsKept
<1>5. ASSUME Write PROVE KindsKept
  <2>1. ASSUME NEW kind \in {"dm", "group"}, Post(kind) PROVE KindsKept
    BY <1>1, <1>3, <2>1 DEF Post, Kinds
  <2>2. ASSUME NEW k \in Rows, Rewrite(k) PROVE KindsKept
    BY <1>1, <1>3, <2>2, WithoutType, WithoutKeeps DEF Rewrite, Kinds
  <2>3. ASSUME NEW k \in Rows, NEW status, Webhook(k, status) PROVE KindsKept
    BY <1>1, <2>3 DEF Webhook, KindsKept, Row
  <2>4. ASSUME Connect PROVE KindsKept
    BY <1>1, <1>3, <2>4, WithoutType, WithoutKeeps DEF Connect, Kinds
  <2>5. ASSUME Revoke PROVE KindsKept
    BY <2>5, WithoutKeeps DEF Revoke, KindsKept
  <2>6. ASSUME NEW answer, Respond(answer) PROVE KindsKept
    BY <1>2, <2>6 DEF Respond
  <2>7. ASSUME Inbound \/ Unlink PROVE KindsKept
    BY <1>2, <2>7 DEF Inbound, Unlink
  <2> QED
    BY <1>5, <2>1, <2>2, <2>3, <2>4, <2>5, <2>6, <2>7 DEF Write
<1>6. ASSUME NEW d \in Drains, Claim(d) PROVE KindsKept
  <2>1. PICK next \in drain[d].todo :
          UNCHANGED out \/ out' = [out EXCEPT ![next[1]] = [@ EXCEPT !.status = "sent", !.due = TRUE]]
    BY <1>6 DEF Claim
  <2>2. ASSUME NEW k \in Rows PROVE out'[k].kind = out[k].kind
    <3>1. out'[k] \in {out[k], [out[k] EXCEPT !.status = "sent", !.due = TRUE]}
      BY <1>1, <2>1
    <3> QED
      BY <1>1, <3>1, Zenon DEF Row
  <2> QED
    BY <2>2 DEF KindsKept
<1>7. ASSUME NEW d \in Drains, Check(d) PROVE KindsKept
  <2>1. PICK status :
          UNCHANGED out \/ out' = [out EXCEPT ![drain[d].row] = [@ EXCEPT !.status = status]]
    BY <1>7 DEF Check
  <2>2. ASSUME NEW k \in Rows PROVE out'[k].kind = out[k].kind
    <3>1. out'[k] \in {out[k], [out[k] EXCEPT !.status = status]}
      BY <1>1, <2>1
    <3> QED
      BY <1>1, <3>1, Zenon DEF Row
  <2> QED
    BY <2>2 DEF KindsKept
<1>8. ASSUME NEW d \in Drains, Record(d) \/ CommitInvite(d) PROVE KindsKept
  <2>1. drain[d].row \in Rows
    BY <1>1, <1>8 DEF Record, CommitInvite, TypeOK
  <2>2. Update(drain[d].row, [out[drain[d].row] EXCEPT !.handle = TRUE])
    BY <1>8, Zenon DEF Record, CommitInvite
  <2>3. [out[drain[d].row] EXCEPT !.handle = TRUE].kind = out[drain[d].row].kind
    BY <1>1, <2>1, Zenon DEF Row
  <2> QED
    BY <1>4, <2>1, <2>2, <2>3
<1>9. ASSUME NEW d \in Drains, Caught(d) PROVE KindsKept
  <2>1. drain[d].row \in Rows
    BY <1>1, <1>9 DEF Caught, TypeOK
  <2>2. PICK attempts, due, status :
          Update(drain[d].row, [out[drain[d].row] EXCEPT !.attempts = attempts, !.due = due,
                                                         !.status = status])
    BY <1>9 DEF Caught
  <2>3. [out[drain[d].row] EXCEPT !.attempts = attempts, !.due = due, !.status = status].kind
          = out[drain[d].row].kind
    BY <1>1, <2>1, Zenon DEF Row
  <2> QED
    BY <1>4, <2>1, <2>2, <2>3
<1>10. ASSUME NEW d \in Drains, LockInvite(d) PROVE KindsKept
  <2>1. drain[d].row \in Rows
    BY <1>1, <1>10 DEF LockInvite, TypeOK
  <2>2. UNCHANGED out \/ Update(drain[d].row, [out[drain[d].row] EXCEPT !.status = "failed"])
    BY <1>10, Zenon DEF LockInvite
  <2>3. [out[drain[d].row] EXCEPT !.status = "failed"].kind = out[drain[d].row].kind
    BY <1>1, <2>1, Zenon DEF Row
  <2> QED
    BY <1>2, <1>4, <2>1, <2>2, <2>3
<1>11. ASSUME NEW k \in Rows, Due(k) PROVE KindsKept
  BY <1>1, <1>11 DEF Due, KindsKept, Row
<1>12. ASSUME NEW d \in Drains,
              \/ Start(d) \/ Finish(d) \/ Send(d) \/ SendFails(d) \/ Count(d) \/ WriteFails(d)
              \/ SendInvite(d) \/ Timeout(d) \/ HoldInvite(d) \/ Crash(d)
       PROVE  KindsKept
  BY <1>2, <1>12, Zenon DEF Start, Finish, Send, SendFails, Count, WriteFails, SendInvite, Timeout,
     HoldInvite, Crash
<1>13. ASSUME Reconcile \/ UNCHANGED vars PROVE KindsKept
  BY <1>2, <1>13, Zenon DEF Reconcile, vars
<1> QED
  BY <1>5, <1>6, <1>7, <1>8, <1>9, <1>10, <1>11, <1>12, <1>13 DEF Next, Advance, Disturb

\* A step of a drain: what it adds to the message count is counted, or paid by a disturbance.
LEMMA BalanceDrain ==
  ASSUME IInv, KindsKept, Balanced, NEW d \in Drains, Start(d) \/ Advance(d) \/ Disturb(d)
  PROVE  Balanced'
<1> DEFINE c == Cardinality(Counted)
           cNext == Cardinality(Counted')
           x == Cardinality(Expired)
           xNext == Cardinality(Expired')
<1>1. /\ faults \in Nat /\ since \in Nat /\ unanswered \in Nat /\ TypeOK
      /\ drain[d].pc \in Inviting => out[drain[d].row].kind = "invite"
  BY DEF IInv, TypeOK, InvitesOnly
<1>2. \A e \in Drains \ {d} : drain'[e] = drain[e]
  <2>1. CASE Start(d) \/ Claim(d)
    BY <1>1, <2>1 DEF Start, Claim, TypeOK
  <2>2. CASE ~(Start(d) \/ Claim(d))
    <3>1. GiveUp(d) \/ Continue(d) \/ \E pc : Goto(d, pc)
      BY <2>2, Zenon DEF Advance, Disturb, Finish, Check, Send, SendFails, Record, Count, WriteFails,
         Caught, LockInvite, SendInvite, CommitInvite, Timeout, HoldInvite, Crash
    <3> QED
      BY <1>1, <3>1, MovesOf
  <2> QED
    BY <2>1, <2>2
<1>3. /\ c \in Nat /\ cNext \in Nat
      /\ (d \in Counted <=> d \in Counted') => cNext = c
      /\ d \in Counted /\ d \notin Counted' => cNext = c - 1
      /\ d \notin Counted /\ d \in Counted' => cNext = c + 1
      /\ x \in Nat /\ xNext \in Nat
      /\ (d \in Expired <=> d \in Expired') => xNext = x
      /\ d \in Expired /\ d \notin Expired' => xNext = x - 1
      /\ d \notin Expired /\ d \in Expired' => xNext = x + 1
  BY <1>2, DrainMoves
<1>4. x <= faults /\ (linked => unanswered + x <= since + faults + c)
  BY DEF Balanced
<1> SUFFICES xNext <= faults' /\ (linked' => unanswered' + xNext <= since' + faults' + cNext)
  BY DEF Balanced
<1>5. /\ d \in Counted <=> /\ drain[d].pc \in {"answered", "sent", "count"}
                           /\ out[drain[d].row].kind # "group"
      /\ d \in Expired <=> drain[d].pc = "expired"
      /\ d \in Counted' <=> /\ drain'[d].pc \in {"answered", "sent", "count"}
                            /\ out'[drain'[d].row].kind # "group"
      /\ d \in Expired' <=> drain'[d].pc = "expired"
  BY DEF Counted, Expired
<1>6. Working(d) => out'[drain[d].row].kind = out[drain[d].row].kind
  BY DEF IInv, TypeOK, OneWorker, Working, KindsKept
<1> HIDE DEF c, cNext, x, xNext
<1>7. CASE Send(d)
  <2>1. /\ drain[d].pc = "sending" /\ drain'[d].pc = "sent" /\ drain'[d].row = drain[d].row
        /\ UNCHANGED <<since, faults, linked>>
    BY <1>1, <1>7, MovesOf DEF Send
  <2>2. unanswered' = IF out[drain[d].row].kind = "group" THEN unanswered ELSE unanswered + 1
    BY <1>7 DEF Send, Accept
  <2> QED
    BY <1>1, <1>3, <1>4, <1>5, <1>6, <2>1, <2>2 DEF Working
<1>8. CASE Start(d) \/ Finish(d) \/ Claim(d) \/ Check(d) \/ Caught(d) \/ LockInvite(d)
  <2>1. /\ drain[d].pc \in {"idle", "loop", "claimed", "caught", "invite"}
        /\ drain'[d].pc \in {"idle", "loop", "claimed", "caught", "invite", "sending", "inviting"}
    <3>1. CASE Start(d)
      BY <1>1, <3>1 DEF Start, TypeOK, Idle
    <3>2. CASE Claim(d)
      <4>1. drain[d].pc = "loop"
        BY <3>2 DEF Claim
      <4>2. drain'[d].pc \in {"loop", "claimed"}
        BY <1>1, <3>2 DEF Claim, TypeOK, Drain
      <4> QED
        BY <4>1, <4>2
    <3>3. CASE Finish(d) \/ Check(d) \/ Caught(d) \/ LockInvite(d)
      BY <1>1, <3>3, MovesOf DEF Finish, Check, Caught, LockInvite
    <3> QED
      BY <1>8, <3>1, <3>2, <3>3
  <2>2. UNCHANGED <<since, unanswered, linked>>
    BY <1>8 DEF Start, Finish, Claim, Check, Caught, LockInvite, provider
  <2>3. faults' = faults \/ faults' = faults + 1
    BY <1>8 DEF Start, Finish, Claim, Check, Caught, LockInvite, Fault, NoFault
  <2> QED
    BY <1>1, <1>3, <1>4, <1>5, <2>1, <2>2, <2>3
<1>9. CASE Record(d) \/ CommitInvite(d)
  <2>1. /\ drain[d].pc \in {"sent", "answered"}
        /\ \/ drain'[d].pc = "count" /\ drain'[d].row = drain[d].row
           \/ drain'[d].pc = "loop" /\ out[drain[d].row].kind = "group"
    BY <1>1, <1>9, MovesOf DEF Record, CommitInvite
  <2>2. UNCHANGED <<since, unanswered, faults, linked>>
    BY <1>9 DEF Record, CommitInvite, provider
  <2> QED
    BY <1>1, <1>3, <1>4, <1>5, <1>6, <2>1, <2>2 DEF Working
<1>10. CASE Count(d)
  <2>1. drain[d].pc = "count" /\ drain'[d].pc = "loop"
    BY <1>1, <1>10, MovesOf DEF Count
  <2>2. UNCHANGED <<unanswered, faults, linked>> /\ since' = since + 1
    BY <1>10 DEF Count, provider
  <2> QED
    BY <1>1, <1>3, <1>4, <1>5, <2>1, <2>2
<1>11. CASE WriteFails(d)
  <2>1. drain[d].pc \in {"sent", "count"} /\ drain'[d].pc = "caught"
    BY <1>1, <1>11, MovesOf DEF WriteFails
  <2>2. /\ UNCHANGED <<since, unanswered, linked>>
        /\ faults' = faults + 1 \/ (faults' = faults /\ ~linked)
    BY <1>11 DEF WriteFails, Fault, NoFault
  <2> QED
    BY <1>1, <1>3, <1>4, <1>5, <2>1, <2>2
<1>12. CASE SendFails(d)
  <2>1. drain[d].pc \in {"claimed", "sending"} /\ drain'[d].pc = "caught"
    BY <1>1, <1>12, MovesOf DEF SendFails
  <2>2. /\ UNCHANGED <<since, linked>> /\ faults' = faults + 1
        /\ unanswered' = unanswered \/ unanswered' = unanswered + 1
    BY <1>12 DEF SendFails, Fault, Accept, provider
  <2> QED
    BY <1>1, <1>3, <1>4, <1>5, <2>1, <2>2
<1>13. CASE Timeout(d)
  <2>1. drain[d].pc = "inviting" /\ drain'[d].pc = "expired"
    BY <1>1, <1>13, MovesOf DEF Timeout
  <2>2. UNCHANGED <<since, linked, unanswered>> /\ faults' = faults + 1
    BY <1>13 DEF Timeout, Fault, provider
  <2> QED
    BY <1>1, <1>3, <1>4, <1>5, <2>1, <2>2
<1>14. CASE SendInvite(d)
  <2>1. \/ /\ drain[d].pc = "inviting" /\ drain'[d].pc = "answered"
           /\ drain'[d].row = drain[d].row
        \/ drain[d].pc = "expired" /\ drain'[d].pc = "loop"
    BY <1>1, <1>14, MovesOf DEF SendInvite
  <2>2. /\ UNCHANGED <<since, linked, faults>>
        /\ unanswered' = unanswered \/ unanswered' = unanswered + 1
    BY <1>14 DEF SendInvite, Accept
  <2>3. drain[d].pc = "inviting" => out'[drain[d].row].kind = "invite"
    BY <1>1, <1>6 DEF Inviting, Working
  <2> QED
    BY <1>1, <1>3, <1>4, <1>5, <2>1, <2>2, <2>3
<1>15. CASE HoldInvite(d)
  <2>1. drain[d].pc \in {"invite", "inviting", "expired", "answered"} /\ drain'[d].pc = "loop"
    BY <1>1, <1>15, MovesOf DEF HoldInvite
  <2>2. /\ UNCHANGED <<since, linked>> /\ faults' = faults + 1
        /\ unanswered' = unanswered \/ unanswered' = unanswered + 1
        /\ drain[d].pc = "answered" => unanswered' = unanswered
    BY <1>15 DEF HoldInvite, Fault, Accept, provider
  <2> QED
    BY <1>1, <1>3, <1>4, <1>5, <2>1, <2>2
<1>16. CASE Crash(d)
  <2>1. drain'[d].pc = "idle"
    BY <1>1, <1>16, MovesOf DEF Crash
  <2>2. UNCHANGED <<since, linked, unanswered>> /\ faults' = faults + 1
    BY <1>16 DEF Crash, Fault, provider
  <2> QED
    BY <1>1, <1>3, <1>4, <1>5, <2>1, <2>2
<1> QED
  BY <1>7, <1>8, <1>9, <1>10, <1>11, <1>12, <1>13, <1>14, <1>15, <1>16 DEF Advance, Disturb

LEMMA BalanceKept ==
  ASSUME IInv, Balanced, [Next]_vars
  PROVE  Balanced'
<1>1. KindsKept
  BY KindsStay
<1>2. /\ faults \in Nat /\ since \in Nat /\ unanswered \in Nat
      /\ IsFiniteSet(Counted) /\ IsFiniteSet(Expired)
  BY FiniteDrains, FS_Subset DEF IInv, TypeOK, Counted, Expired
<1>3. Cardinality(Counted) \in Nat /\ Cardinality(Expired) \in Nat
  BY <1>2, FS_CardinalityType
<1>4. ASSUME UNCHANGED drain, faults' = faults \/ faults' = faults + 1,
             \/ UNCHANGED <<since, unanswered, linked>>
             \/ linked' = FALSE
             \/ since' = 0 /\ unanswered' = 0
      PROVE  Balanced'
  <2>1. ASSUME NEW d \in Drains, drain[d].pc \in {"answered", "sent", "count"}
        PROVE  out'[drain'[d].row].kind = out[drain[d].row].kind
    BY <1>1, <1>4, <2>1 DEF IInv, TypeOK, OneWorker, Working, KindsKept
  <2>2. Counted' = Counted /\ Expired' = Expired
    BY <1>4, <2>1 DEF Counted, Expired
  <2> QED
    BY <1>2, <1>3, <1>4, <2>2 DEF Balanced
<1>5. CASE Write
  <2>1. UNCHANGED drain
    BY <1>5, Zenon DEF Write, Post, Rewrite, Webhook, Connect, Revoke, Respond, Inbound, Unlink
  <2>2. faults' = faults \/ faults' = faults + 1
    BY <1>5, Zenon DEF Write, Post, Rewrite, Webhook, Connect, Revoke, Respond, Inbound, Unlink,
       Enqueue, Fault, NoFault
  <2>3. \/ UNCHANGED <<since, unanswered, linked>>
        \/ linked' = FALSE
        \/ since' = 0 /\ unanswered' = 0
    BY <1>5, Zenon DEF Write, Post, Rewrite, Webhook, Connect, Revoke, Respond, Inbound, Unlink,
       provider
  <2> QED
    BY <1>4, <2>1, <2>2, <2>3
<1>6. CASE Reconcile \/ (\E k \in Rows : Due(k)) \/ UNCHANGED vars
  BY <1>4, <1>6, Zenon DEF Reconcile, Due, vars, provider
<1> QED
  BY <1>1, <1>5, <1>6, BalanceDrain DEF Next

\* However many drains run, what the recipient got since their last reply is counted, is about
\* to be counted by a drain, or was lost to a disturbance.  (drain, messaging-inbound.ts)
THEOREM MessagesAreCounted == Spec => []CapAccounted
<1>1. Init => Balanced
  <2> SUFFICES ASSUME Init PROVE Balanced
    OBVIOUS
  <2>1. \A d \in Drains : drain[d].pc = "idle"
    BY DEF Init, Idle
  <2>2. Counted = {} /\ Expired = {}
    BY <2>1 DEF Counted, Expired
  <2> QED
    BY <2>2, FS_EmptySet DEF Init, Balanced
<1>2. IInv /\ Balanced => CapAccounted
  <2> SUFFICES ASSUME IInv, Balanced PROVE CapAccounted
    OBVIOUS
  <2> DEFINE counting == {d \in Drains : drain[d].pc \in {"answered", "sent", "count"}}
  <2>1. IsFiniteSet(counting) /\ IsFiniteSet(Expired)
    BY FiniteDrains, FS_Subset DEF Expired
  <2>2. Counted \in SUBSET counting
    BY DEF Counted
  <2> HIDE DEF counting
  <2>3. Cardinality(Counted) <= Cardinality(counting) /\ IsFiniteSet(Counted)
    BY <2>1, <2>2, FS_Subset
  <2>4. Cardinality(Counted) \in Nat /\ Cardinality(counting) \in Nat /\ Cardinality(Expired) \in Nat
    BY <2>1, <2>3, FS_CardinalityType
  <2>5. faults \in Nat /\ since \in Nat /\ unanswered \in Nat
    BY DEF IInv, TypeOK
  <2>6. linked => unanswered <= since + faults + Cardinality(counting)
    BY <2>3, <2>4, <2>5 DEF Balanced
  <2> QED
    BY <2>6 DEF CapAccounted, counting
<1>3. IInv /\ Balanced /\ [Next]_vars => (IInv /\ Balanced)'
  BY NextInv, BalanceKept
<1> QED
  BY <1>1, <1>2, <1>3, InitInv, PTL DEF Spec
=============================================================================
