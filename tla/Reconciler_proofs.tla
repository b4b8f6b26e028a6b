---------------------------- MODULE Reconciler_proofs ----------------------------
(***************************************************************************)
(* What the reconciler and its jobs guarantee for any number of delegated  *)
(* runs, sweeps, wake-ups, polls and faults: a caller is told one outcome, *)
(* a waiting user is reminded once, a slot of a routine fires once, a      *)
(* prompt of a cloud agent starts one run.                                 *)
(***************************************************************************)
EXTENDS Outcomes, StuckNotice, Routine, CloudAgent, Integers, FiniteSetTheorems, TLAPS

-----------------------------------------------------------------------------
(* Outcomes *)

OutcomeTypes ==
  /\ ending \in [Delegated -> Ended \cup {"running", "waiting", "swept"}]
  /\ notes \in [Delegated -> 0 .. 1]
  /\ giving \in [Givers \X Delegated -> {"idle", "look", "send", "mark", "bump"}]

\* Outcomes are returned once the run is over, when its bot can tell nobody any more; an
\* automatic one only if the bot has not told its own.
OutcomeInv ==
  /\ OutcomeTypes
  /\ \A w \in Givers, d \in Delegated :
       /\ giving[w, d] # "idle" => ending[d] \in Ended \cup {"swept"}
       /\ giving[w, d] = "send" => d \notin told
  /\ \A d \in Delegated : notes[d] > 0 => ending[d] \in Ended /\ d \notin told

Places == {"idle", "look", "send", "mark", "bump"}

LEMMA OutcomesFirst == OutcomesInit => OutcomeInv
<1> SUFFICES ASSUME OutcomesInit PROVE OutcomeInv
  OBVIOUS
<1>1. \A w \in Givers, d \in Delegated : giving[w, d] = "idle"
  BY DEF OutcomesInit
<1>2. OutcomeTypes
  BY DEF OutcomesInit, OutcomeTypes, Ended
<1>3. \A d \in Delegated : ~(notes[d] > 0)
  BY DEF OutcomesInit
<1> QED
  BY <1>1, <1>2, <1>3 DEF OutcomeInv

LEMMA OldestAreOwed ==
  ASSUME NEW n, NEW ds
  PROVE  Oldest(n, ds) \subseteq ds
BY DEF Oldest

LEMMA GivingMoves ==
  ASSUME OutcomeInv, NEW w \in Givers, NEW d \in Delegated, NEW pc \in Places, GivingTo(w, d, pc)
  PROVE  /\ giving' \in [Givers \X Delegated -> Places]
         /\ giving'[w, d] = pc
         /\ \A v \in Givers, e \in Delegated : v # w \/ e # d => giving'[v, e] = giving[v, e]
<1>1. giving \in [Givers \X Delegated -> Places]
  BY DEF OutcomeInv, OutcomeTypes, Places
<1> QED
  BY <1>1 DEF GivingTo

\* A giver goes on with a run that is over: only towards "send" it matters whether it was told.
LEMMA GivesOn ==
  ASSUME OutcomeInv, NEW w \in Givers, NEW d \in Delegated, NEW pc \in Places, GivingTo(w, d, pc),
         UNCHANGED <<ending, told, notes>>,
         ending[d] \in Ended \cup {"swept"}, pc = "send" => d \notin told
  PROVE  OutcomeInv'
<1>1. OutcomeTypes'
  <2>1. giving' \in [Givers \X Delegated -> Places]
    BY GivingMoves
  <2> QED
    BY <2>1 DEF OutcomeInv, OutcomeTypes, Places
<1>2. ASSUME NEW v \in Givers, NEW e \in Delegated
      PROVE  /\ giving'[v, e] # "idle" => ending[e] \in Ended \cup {"swept"}
             /\ giving'[v, e] = "send" => e \notin told
  <2>1. CASE v = w /\ e = d
    BY <2>1, GivingMoves
  <2>2. CASE v # w \/ e # d
    <3>1. giving'[v, e] = giving[v, e]
      BY <2>2, GivingMoves
    <3> QED
      BY <3>1 DEF OutcomeInv
  <2> QED
    BY <2>1, <2>2
<1> QED
  BY <1>1, <1>2 DEF OutcomeInv

\* The run's own steps.
LEMMA RunOutcomes ==
  ASSUME OutcomeInv, NEW d \in Delegated,
         \/ Tell(d) \/ (\E as \in Ended : EndRun(d, as))
         \/ Move(d, "running", "waiting") \/ Move(d, "waiting", "running")
         \/ Move(d, "waiting", "swept")
  PROVE  OutcomeInv'
<1>1. ending \in [Delegated -> Ended \cup {"running", "waiting", "swept"}]
  BY DEF OutcomeInv, OutcomeTypes
<1>2. CASE Tell(d)
  <2>1. UNCHANGED <<ending, notes, giving>> /\ told' = told \cup {d} /\ ending[d] = "running"
    BY <1>2 DEF Tell
  <2> QED
    BY <1>1, <2>1 DEF OutcomeInv, OutcomeTypes, Ended
<1>3. ASSUME NEW as \in Ended, EndRun(d, as) PROVE OutcomeInv'
  <2>1. ending' = [ending EXCEPT ![d] = as] /\ UNCHANGED <<told, notes>> /\ ending[d] = "running"
        /\ GivingTo("worker", d, "look")
    BY <1>3 DEF EndRun
  <2>2. "worker" \in Givers /\ "look" \in Places
    BY DEF Givers, Places
  <2>3. OutcomeTypes'
    BY <1>1, <2>1, <2>2, GivingMoves DEF OutcomeInv, OutcomeTypes, Places
  <2>6. \A v \in Givers, e \in Delegated : v # "worker" \/ e # d => giving'[v, e] = giving[v, e]
    BY <2>1, <2>2, GivingMoves
  <2>4. ASSUME NEW v \in Givers, NEW e \in Delegated
        PROVE  /\ giving'[v, e] # "idle" => ending'[e] \in Ended \cup {"swept"}
               /\ giving'[v, e] = "send" => e \notin told
    <3>1. CASE e = d
      <4>1. ending'[e] = as
        BY <1>1, <2>1, <3>1
      <4>2. giving[v, e] = "idle"
        BY <2>1, <3>1 DEF OutcomeInv, Ended
      <4>3. giving'[v, e] # "send"
        BY <2>1, <2>2, <3>1, <4>2, GivingMoves
      <4> QED
        BY <4>1, <4>3
    <3>2. CASE e # d
      <4>2. giving'[v, e] = giving[v, e]
        BY <2>6, <3>2
      <4>3. ending'[e] = ending[e]
        BY <1>1, <2>1, <3>2
      <4> QED
        BY <4>2, <4>3 DEF OutcomeInv
    <3> QED
      BY <3>1, <3>2
  <2>5. \A e \in Delegated : notes[e] > 0 => ending'[e] \in Ended /\ e \notin told
    BY <1>1, <2>1 DEF OutcomeInv
  <2> QED
    BY <2>1, <2>3, <2>4, <2>5 DEF OutcomeInv
<1>4. ASSUME NEW from \in {"running", "waiting"}, NEW to \in {"running", "waiting", "swept"}, Move(d, from, to)
      PROVE  OutcomeInv'
  <2>1. UNCHANGED <<told, notes, giving>> /\ ending[d] = from /\ ending' = [ending EXCEPT ![d] = to]
    BY <1>4 DEF Move
  <2>2. \A v \in Givers : giving[v, d] = "idle"
    BY <2>1 DEF OutcomeInv, Ended
  <2>3. ~(notes[d] > 0)
    BY <2>1 DEF OutcomeInv, Ended
  <2>4. \A e \in Delegated : e # d => ending'[e] = ending[e]
    BY <1>1, <2>1
  <2>5. OutcomeTypes'
    BY <1>1, <2>1 DEF OutcomeInv, OutcomeTypes
  <2> QED
    BY <2>1, <2>2, <2>3, <2>4, <2>5 DEF OutcomeInv
<1> QED
  BY <1>2, <1>3, <1>4

LEMMA GiveOutcomes ==
  ASSUME OutcomeInv, NEW w \in Givers, NEW d \in Delegated,
         LookAt(w, d) \/ SendOutcome(w, d) \/ Mark(w, d) \/ ReturnFails(w, d) \/ (w = "reconciler" /\ Bump(d))
  PROVE  OutcomeInv'
<1>1. giving[w, d] # "idle"
  BY DEF LookAt, SendOutcome, Mark, ReturnFails, Bump
<1>2. ending[d] \in Ended \cup {"swept"}
  BY <1>1 DEF OutcomeInv
<1>3. CASE UNCHANGED <<ending, told, notes>> /\ \E pc \in {"idle", "mark", "bump"} : GivingTo(w, d, pc)
  BY <1>2, <1>3, GivesOn DEF Places
<1>4. CASE LookAt(w, d) /\ GivingTo(w, d, "send") /\ d \notin told
  <2>1. UNCHANGED <<ending, told, notes>> /\ "send" \in Places
    BY <1>4 DEF LookAt, Places
  <2> QED
    BY <1>2, <1>4, <2>1, GivesOn
<1>5. CASE /\ giving[w, d] = "send" /\ ~Replayed(d) /\ ending[d] \in Ended
           /\ GivingTo(w, d, "mark") /\ notes' = [notes EXCEPT ![d] = @ + 1]
           /\ UNCHANGED <<ending, told>>
  <2>1. "mark" \in Places /\ d \notin told
    BY <1>5 DEF Places, OutcomeInv
  <2>2. notes \in [Delegated -> 0 .. 1] /\ notes[d] = 0
    <3>1. notes \in [Delegated -> 0 .. 1]
      BY DEF OutcomeInv, OutcomeTypes
    <3>2. notes[d] \in 0 .. 1 /\ ~(notes[d] > 0)
      BY <1>5, <3>1 DEF Replayed
    <3> QED
      BY <3>1, <3>2
  <2>3. notes' \in [Delegated -> 0 .. 1] /\ \A e \in Delegated : e # d => notes'[e] = notes[e]
    <3>1. notes' = [notes EXCEPT ![d] = notes[d] + 1]
      BY <1>5
    <3>2. notes[d] + 1 \in 0 .. 1
      BY <2>2
    <3> QED
      BY <2>2, <3>1, <3>2
  <2>4. OutcomeTypes'
    BY <1>5, <2>1, <2>3, GivingMoves DEF OutcomeInv, OutcomeTypes, Places
  <2>7. \A v \in Givers, e \in Delegated : v # w \/ e # d => giving'[v, e] = giving[v, e]
    BY <1>5, <2>1, GivingMoves
  <2>5. ASSUME NEW v \in Givers, NEW e \in Delegated
        PROVE  /\ giving'[v, e] # "idle" => ending[e] \in Ended \cup {"swept"}
               /\ giving'[v, e] = "send" => e \notin told
    <3>1. CASE v = w /\ e = d
      BY <1>2, <1>5, <2>1, <3>1, GivingMoves
    <3>2. CASE v # w \/ e # d
      <4>1. giving'[v, e] = giving[v, e]
        BY <2>7, <3>2
      <4> QED
        BY <4>1 DEF OutcomeInv
    <3> QED
      BY <3>1, <3>2
  <2>6. \A e \in Delegated : notes'[e] > 0 => ending[e] \in Ended /\ e \notin told
    BY <1>5, <2>1, <2>3 DEF OutcomeInv
  <2> QED
    BY <1>5, <2>4, <2>5, <2>6 DEF OutcomeInv
<1> QED
  BY <1>3, <1>4, <1>5 DEF LookAt, SendOutcome, Mark, ReturnFails, Bump, NotReturned

LEMMA RoundOutcomes ==
  ASSUME OutcomeInv, Round \/ ReturnersDie
  PROVE  OutcomeInv'
<1>1. UNCHANGED <<ending, told, notes>> /\ DOMAIN giving = Givers \X Delegated
  BY DEF Round, ReturnersDie, OutcomeInv, OutcomeTypes
<1>2. CASE ReturnersDie
  <2>1. giving' = [g \in Givers \X Delegated |-> "idle"]
    BY <1>1, <1>2 DEF ReturnersDie
  <2>2. \A v \in Givers, e \in Delegated : giving'[v, e] = "idle"
    BY <2>1
  <2>3. OutcomeTypes'
    BY <1>1, <2>1 DEF OutcomeInv, OutcomeTypes
  <2> QED
    BY <1>1, <2>2, <2>3 DEF OutcomeInv
<1>3. CASE Round
  <2> DEFINE owed == Oldest(OwedBatch, Unreturned)
  <2>1. giving' = [g \in Givers \X Delegated |->
                     IF g[1] = "reconciler" /\ g[2] \in owed THEN "look" ELSE giving[g]]
    BY <1>1, <1>3 DEF Round
  <2>2. \A e \in owed : ending[e] \in Ended \cup {"swept"}
    BY OldestAreOwed DEF Unreturned
  <2> HIDE DEF owed
  <2>3. giving \in [Givers \X Delegated -> Places]
    BY DEF OutcomeInv, OutcomeTypes, Places
  <2>4. \A v \in Givers, e \in Delegated :
          giving'[v, e] = IF v = "reconciler" /\ e \in owed THEN "look" ELSE giving[v, e]
    BY <2>1
  <2>5. giving' \in [Givers \X Delegated -> Places]
    BY <2>1, <2>3 DEF Places
  <2>6. OutcomeTypes'
    BY <1>1, <2>5 DEF OutcomeInv, OutcomeTypes, Places
  <2> QED
    BY <1>1, <2>2, <2>4, <2>6 DEF OutcomeInv
<1> QED
  BY <1>2, <1>3

LEMMA OutcomesHold == OutcomesSpec => []OutcomeInv
<1>1. OutcomeInv /\ [OutcomesNext]_outcomesVars => OutcomeInv'
  <2> SUFFICES ASSUME OutcomeInv, [OutcomesNext]_outcomesVars PROVE OutcomeInv'
    OBVIOUS
  <2>1. CASE UNCHANGED outcomesVars
    BY <2>1 DEF outcomesVars, OutcomeInv, OutcomeTypes
  <2>2. CASE \E d \in Delegated : LoseCaller(d)
    BY <2>2 DEF LoseCaller, OutcomeInv, OutcomeTypes
  <2>3. "reconciler" \in Givers
    BY DEF Givers
  <2> QED
    BY <2>1, <2>2, <2>3, RunOutcomes, GiveOutcomes, RoundOutcomes, Zenon DEF OutcomesNext, Give
<1> QED
  BY <1>1, OutcomesFirst, PTL DEF OutcomesSpec

\* For any number of delegated runs, and however the worker and the reconciler overlap, fail
\* and try again, a caller gets at most one outcome: its bot's own result or an automatic one.
THEOREM OutcomesOnce == OutcomesSpec => []OutcomeOnce
<1>1. OutcomeInv => OutcomeOnce
  <2> SUFFICES ASSUME OutcomeInv, NEW d \in Delegated
               PROVE  notes[d] + (IF d \in told THEN 1 ELSE 0) <= 1
    BY DEF OutcomeOnce
  <2>1. notes[d] \in 0 .. 1 /\ (d \in told => ~(notes[d] > 0))
    BY DEF OutcomeInv, OutcomeTypes
  <2> QED
    BY <2>1
<1> QED
  BY <1>1, OutcomesHold, PTL

\* Every run has one place in the line.
InLine ==
  /\ byAge \in [1 .. Cardinality(Delegated) -> Delegated]
  /\ \A i, j \in 1 .. Cardinality(Delegated) : byAge[i] = byAge[j] => i = j

LEMMA CrowdIsNat == Cardinality(Delegated) \in Nat /\ IsFiniteSet(Delegated)
BY OutcomesAssumption, FS_CardinalityType

LEMMA LinesAreEnumerations == InLine <=> byAge \in SetToSeqs(Delegated)
BY DEF InLine, SetToSeqs

LEMMA EveryoneHasAPlace ==
  ASSUME InLine, NEW d \in Delegated
  PROVE  PlaceOf(d) \in 1 .. Cardinality(Delegated) /\ byAge[PlaceOf(d)] = d
<1> DEFINE places == 1 .. Cardinality(Delegated)
<1>1. byAge \in Injection(places, Delegated)
  BY DEF InLine, Injection, IsInjective
<1>2. Cardinality(places) = Cardinality(Delegated)
  <2>1. 1 \in Int /\ Cardinality(Delegated) \in Int
    BY CrowdIsNat
  <2>2. Cardinality(places) = IF 1 > Cardinality(Delegated) THEN 0 ELSE Cardinality(Delegated) - 1 + 1
    BY <2>1, FS_Interval
  <2> QED
    BY <2>2, CrowdIsNat
<1>3. byAge \in Surjection(places, Delegated)
  BY <1>1, <1>2, CrowdIsNat, FS_Injection
<1>4. \E i \in places : byAge[i] = d
  BY <1>3 DEF Surjection
<1>5. DOMAIN byAge = places
  BY DEF InLine
<1> QED
  BY <1>4, <1>5 DEF PlaceOf

LEMMA LinesStay ==
  ASSUME InLine, NEW d \in Delegated, byAge' = Touched(d)
  PROVE  InLine'
<1> DEFINE n == Cardinality(Delegated)
           p == PlaceOf(d)
<1>1. n \in Nat /\ p \in 1 .. n /\ byAge[p] = d /\ byAge \in [1 .. n -> Delegated]
  BY CrowdIsNat, EveryoneHasAPlace DEF InLine
<1>2. byAge \in Seq(Delegated) /\ Len(byAge) = n
  BY <1>1
<1>3. byAge' = Append(SubSeq(byAge, 1, p - 1) \o SubSeq(byAge, p + 1, n), d)
  BY <1>2 DEF Touched, RemoveAt
<1>4. \A i, j \in 1 .. n : byAge[i] = byAge[j] => i = j
  BY DEF InLine
<1> HIDE DEF n, p
<1> DEFINE left == SubSeq(byAge, 1, p - 1)
           right == SubSeq(byAge, p + 1, n)
<1>5. left \in Seq(Delegated) /\ Len(left) = p - 1 /\ \A i \in 1 .. p - 1 : left[i] = byAge[i]
  BY <1>1, <1>2
<1>6. right \in Seq(Delegated) /\ Len(right) = n - p /\ \A i \in 1 .. n - p : right[i] = byAge[p + i]
  BY <1>1, <1>2
<1> HIDE DEF left, right
<1> DEFINE rest == left \o right
<1>7. rest \in Seq(Delegated) /\ Len(rest) = n - 1
  BY <1>1, <1>5, <1>6
<1>8. \A i \in 1 .. n - 1 : rest[i] = IF i < p THEN byAge[i] ELSE byAge[i + 1]
  <2> TAKE i \in 1 .. n - 1
  <2>1. CASE i < p
    BY <1>1, <1>5, <1>6, <2>1
  <2>2. CASE ~(i < p)
    <3>1. rest[i] = right[i - (p - 1)]
      BY <1>1, <1>5, <1>6, <2>2
    <3>2. i - (p - 1) \in 1 .. n - p /\ p + (i - (p - 1)) = i + 1
      BY <1>1, <2>2
    <3> QED
      BY <1>6, <2>2, <3>1, <3>2
  <2> QED
    BY <2>1, <2>2
<1>9. byAge' = Append(rest, d)
  BY <1>3 DEF left, right
<1> HIDE DEF rest
<1>10. byAge' \in [1 .. n -> Delegated]
  <2>1. byAge' \in Seq(Delegated) /\ Len(byAge') = n
    BY <1>1, <1>7, <1>9
  <2>2. \A s \in Seq(Delegated) : s \in [1 .. Len(s) -> Delegated]
    OBVIOUS
  <2> QED
    BY <2>1, <2>2
<1>11. \A i \in 1 .. n : byAge'[i] = IF i = n THEN d ELSE IF i < p THEN byAge[i] ELSE byAge[i + 1]
  BY <1>1, <1>7, <1>8, <1>9
<1>12. ASSUME NEW i \in 1 .. n, NEW j \in 1 .. n, byAge'[i] = byAge'[j]
       PROVE  i = j
  <2> DEFINE was(k) == IF k = n THEN p ELSE IF k < p THEN k ELSE k + 1
  <2>1. \A k \in 1 .. n : was(k) \in 1 .. n /\ byAge'[k] = byAge[was(k)]
    BY <1>1, <1>11
  <2>2. was(i) = was(j)
    BY <1>4, <1>12, <2>1
  <2> QED
    BY <1>1, <2>2
<1> QED
  BY <1>10, <1>12 DEF InLine, n

\* The line of the runs and what is on record of them.
OutcomeRecords ==
  /\ InLine
  /\ told \subseteq Delegated /\ callers \subseteq Delegated /\ returned \subseteq Delegated
  /\ errors \in 0 .. MaxErrors
  /\ \A d \in returned : ending[d] \in Ended

LEMMA RecordsFirst == OutcomesInit => OutcomeRecords
BY LinesAreEnumerations, OutcomesAssumption DEF OutcomesInit, OutcomeRecords

\* What a run does before it is over.
LEMMA RunsAreRecorded ==
  ASSUME OutcomeInv, OutcomeRecords, NEW d \in Delegated,
         \/ Tell(d) \/ LoseCaller(d) \/ (\E as \in Ended : EndRun(d, as))
         \/ Move(d, "running", "waiting") \/ Move(d, "waiting", "running")
         \/ Move(d, "waiting", "swept")
  PROVE  OutcomeRecords'
<1>1. CASE Tell(d) \/ LoseCaller(d)
  BY <1>1 DEF Tell, LoseCaller, OutcomeRecords, InLine
<1>2. CASE /\ ending[d] \in {"running", "waiting"} /\ byAge' = Touched(d)
           /\ UNCHANGED <<told, callers, returned, errors>>
           /\ \E to : ending' = [ending EXCEPT ![d] = to]
  <2>1. ending \in [Delegated -> Ended \cup {"running", "waiting", "swept"}]
    BY DEF OutcomeInv, OutcomeTypes
  <2>2. d \notin returned
    BY <1>2 DEF OutcomeRecords, Ended
  <2>3. \A e \in returned : ending'[e] = ending[e]
    BY <1>2, <2>1, <2>2 DEF OutcomeRecords
  <2> QED
    BY <1>2, <2>3, LinesStay DEF OutcomeRecords
<1> QED
  BY <1>1, <1>2 DEF EndRun, Move

LEMMA ErrorsAreCounted ==
  ASSUME OutcomeRecords, UNCHANGED <<ending, told, callers, byAge, returned>>,
         errors' = errors \/ (errors < MaxErrors /\ errors' = errors + 1)
  PROVE  OutcomeRecords'
<1>1. errors' \in 0 .. MaxErrors
  <2>1. errors \in 0 .. MaxErrors /\ MaxErrors \in Nat
    BY OutcomesAssumption DEF OutcomeRecords
  <2> QED
    BY <2>1
<1> QED
  BY <1>1 DEF OutcomeRecords, InLine

LEMMA ReturnsAreRecorded ==
  ASSUME OutcomeInv, OutcomeRecords,
         \/ Round \/ ReturnersDie
         \/ \E w \in Givers, d \in Delegated : Give(w, d) \/ ReturnFails(w, d) \/ Bump(d)
  PROVE  OutcomeRecords'
<1>2. CASE Round \/ ReturnersDie
  <2>1. /\ UNCHANGED <<ending, told, callers, byAge, returned>>
        /\ errors' = errors \/ (errors < MaxErrors /\ errors' = errors + 1)
    BY <1>2 DEF Round, ReturnersDie
  <2> QED
    BY <2>1, ErrorsAreCounted
<1>3. ASSUME NEW w \in Givers, NEW d \in Delegated,
             LookAt(w, d) \/ SendOutcome(w, d) \/ ReturnFails(w, d)
      PROVE  OutcomeRecords'
  <2>1. /\ UNCHANGED <<ending, told, callers, byAge, returned>>
        /\ errors' = errors \/ (errors < MaxErrors /\ errors' = errors + 1)
    BY <1>3 DEF LookAt, SendOutcome, ReturnFails
  <2> QED
    BY <2>1, ErrorsAreCounted
<1>4. ASSUME NEW w \in Givers, NEW d \in Delegated, Mark(w, d) \/ Bump(d)
      PROVE  OutcomeRecords'
  <2>1. /\ byAge' = byAge \/ byAge' = Touched(d)
        /\ UNCHANGED <<ending, told, callers, errors>>
        /\ returned' = returned \/ (returned' = returned \cup {d} /\ ending[d] \in Ended)
    BY <1>4 DEF Mark, Bump
  <2>2. InLine'
    BY <2>1, LinesStay DEF OutcomeRecords, InLine
  <2> QED
    BY <2>1, <2>2 DEF OutcomeRecords
<1> QED
  BY <1>2, <1>3, <1>4 DEF Give

\* For any finite set of delegated runs, every variable stays within its type: each run keeps
\* its one place in the line however often it is moved to its end, and only a run that
\* completed or failed is marked as returned.
THEOREM OutcomesTypeCorrect == OutcomesSpec => []OutcomesTypeOK
<1>1. OutcomeInv /\ OutcomeRecords /\ [OutcomesNext]_outcomesVars => OutcomeRecords'
  <2> SUFFICES ASSUME OutcomeInv, OutcomeRecords, [OutcomesNext]_outcomesVars
               PROVE  OutcomeRecords'
    OBVIOUS
  <2>1. CASE UNCHANGED outcomesVars
    BY <2>1 DEF outcomesVars, OutcomeRecords, InLine
  <2>2. CASE OutcomesNext
    BY <2>2, RunsAreRecorded, ReturnsAreRecorded, Zenon DEF OutcomesNext, Givers
  <2> QED
    BY <2>1, <2>2
<1>2. OutcomeInv /\ OutcomeRecords => OutcomesTypeOK
  <2> SUFFICES ASSUME OutcomeInv, OutcomeRecords PROVE OutcomesTypeOK
    OBVIOUS
  <2>1. byAge \in SetToSeqs(Delegated)
    BY LinesAreEnumerations DEF OutcomeRecords
  <2>2. notes \in [Delegated -> 0 .. 2]
    <3>1. notes \in [Delegated -> 0 .. 1]
      BY DEF OutcomeInv, OutcomeTypes
    <3>2. \A d \in Delegated : notes[d] \in 0 .. 2
      BY <3>1
    <3> QED
      BY <3>1, <3>2
  <2> QED
    BY <2>1, <2>2 DEF OutcomeInv, OutcomeTypes, OutcomeRecords, OutcomesTypeOK
<1> QED
  BY <1>1, <1>2, RecordsFirst, OutcomesHold, PTL DEF OutcomesSpec

-----------------------------------------------------------------------------
(* Reminders *)

NoticeRecs == [id : Nat, of : Episodes, state : {"pending", "delivered"}, fresh : BOOLEAN]
SweepRecs == [pc : {"idle", "claim", "push", "stamp", "expire"}, of : Episodes, claim : Nat, sent : BOOLEAN]

\* Sweeps whose claim has not led to a push that counts.
Owing(e) == {s \in Sweeps : sweep[s].of = e /\ (sweep[s].pc = "push" \/ (sweep[s].pc = "stamp" /\ ~sweep[s].sent))}
Owed(e) == Cardinality(Owing(e))
Standing(e) == IF Taken(e) THEN 1 ELSE 0

\* A push that was made, or is about to be, stands on a notice, or on one lost by mistake.
Accounted(e) == pushes[e] + Owed(e) <= mistaken[e] + Standing(e)

NoticeInv ==
  /\ StuckNoticeTypeOK
  /\ \A n \in notices : n.id < nextId
  /\ \A s \in Sweeps : sweep[s].claim < nextId
  /\ \A s \in Sweeps : sweep[s].pc \in {"push", "stamp"} =>
       \A n \in notices : n.id = sweep[s].claim => n.of = sweep[s].of
  /\ \A s \in Sweeps : sweep[s].pc \in {"claim", "push"} => ~sweep[s].sent
  /\ \A e \in Episodes : Accounted(e)

LEMMA OwedIsNat == \A e : IsFiniteSet(Owing(e)) /\ Owed(e) \in Nat
<1> TAKE e
<1>1. Owing(e) \subseteq Sweeps /\ IsFiniteSet(Sweeps)
  BY StuckNoticeAssumption DEF Owing
<1> QED
  BY <1>1, FS_Subset, FS_CardinalityType DEF Owed

LEMMA NoticesFirst == StuckNoticeInit => NoticeInv
<1> SUFFICES ASSUME StuckNoticeInit PROVE NoticeInv
  OBVIOUS
<1>1. 1 \in Episodes
  BY StuckNoticeAssumption DEF Episodes
<1>2. \A s \in Sweeps : sweep[s] = NoSweep
  BY DEF StuckNoticeInit
<1>3. NoSweep \in SweepRecs
  BY <1>1 DEF NoSweep, SweepRecs
<1>4. sweep \in [Sweeps -> SweepRecs]
  BY <1>3 DEF StuckNoticeInit
<1>5. StuckNoticeTypeOK
  BY <1>1, <1>4, StuckNoticeAssumption DEF StuckNoticeInit, StuckNoticeTypeOK, SweepRecs
<1>6. \A e \in Episodes : Accounted(e)
  <2> SUFFICES ASSUME NEW e \in Episodes PROVE Accounted(e)
    OBVIOUS
  <2>1. Owing(e) = {}
    BY <1>2 DEF Owing, NoSweep
  <2>2. Owed(e) = 0
    BY <2>1, FS_EmptySet DEF Owed
  <2>3. pushes[e] = 0 /\ mistaken[e] = 0
    BY DEF StuckNoticeInit
  <2> QED
    BY <2>2, <2>3 DEF Accounted, Standing
<1> QED
  BY <1>2, <1>5, <1>6 DEF NoticeInv, StuckNoticeInit, NoSweep

Owes(s, e) == IF s \in Owing(e) THEN 1 ELSE 0

\* One sweep moves: the count moves by it.
LEMMA OwedMoves ==
  ASSUME NEW s \in Sweeps, \A t \in Sweeps \ {s} : sweep'[t] = sweep[t], NEW e
  PROVE  /\ Owed(e) \in Nat /\ Owed(e)' \in Nat
         /\ Owed(e)' + Owes(s, e) = Owed(e) + Owes(s, e)'
<1> DEFINE rest == {t \in Sweeps \ {s} : t \in Owing(e)}
<1>1. Owing(e) = IF s \in Owing(e) THEN rest \cup {s} ELSE rest
  BY DEF Owing
<1>2. \A t \in Sweeps \ {s} : t \in Owing(e)' <=> t \in Owing(e)
  BY DEF Owing
<1>3. Owing(e)' = IF s \in Owing(e)' THEN rest \cup {s} ELSE rest
  BY <1>2 DEF Owing
<1>4. IsFiniteSet(rest) /\ Cardinality(rest) \in Nat
  BY OwedIsNat, FS_Subset, FS_CardinalityType, StuckNoticeAssumption
<1>5. Cardinality(rest \cup {s}) = Cardinality(rest) + 1
  BY <1>4, FS_AddElement
<1> HIDE DEF rest
<1>6. Owed(e) = Cardinality(rest) + Owes(s, e)
  <2>1. CASE s \in Owing(e)
    <3>1. Owing(e) = rest \cup {s}
      BY <1>1, <2>1
    <3> QED
      BY <1>5, <2>1, <3>1 DEF Owed, Owes
  <2>2. CASE s \notin Owing(e)
    <3>1. Owing(e) = rest
      BY <1>1, <2>2
    <3> QED
      BY <1>4, <2>2, <3>1 DEF Owed, Owes
  <2> QED
    BY <2>1, <2>2
<1>7. Owed(e)' = Cardinality(rest) + Owes(s, e)'
  BY <1>3, <1>4, <1>5 DEF Owed, Owes
<1> QED
  BY <1>4, <1>6, <1>7 DEF Owes

\* A sweep goes on, and the notices are as they were.
LEMMA SweepSteps ==
  ASSUME NoticeInv, NEW s \in Sweeps, sweep' \in [Sweeps -> SweepRecs],
         \A t \in Sweeps \ {s} : sweep'[t] = sweep[t],
         UNCHANGED <<notices, nextId, episode, age>>, waits' \in BOOLEAN, lapses' \in 0 .. MaxLapses,
         pushes' \in [Episodes -> Nat], mistaken' \in [Episodes -> Nat],
         sweep'[s].claim < nextId,
         sweep'[s].pc \in {"push", "stamp"} =>
           sweep[s].pc = "push" /\ sweep'[s].claim = sweep[s].claim /\ sweep'[s].of = sweep[s].of,
         sweep'[s].pc # "push", sweep'[s].pc = "claim" => ~sweep'[s].sent,
         \A e \in Episodes :
           pushes'[e] + Owes(s, e)' + mistaken[e] <= pushes[e] + Owes(s, e) + mistaken'[e]
  PROVE  NoticeInv'
<1>1. StuckNoticeTypeOK'
  BY DEF NoticeInv, StuckNoticeTypeOK, SweepRecs
<1>2. \A e \in Episodes : Accounted(e)'
  <2> SUFFICES ASSUME NEW e \in Episodes PROVE Accounted(e)'
    OBVIOUS
  <2>1. Standing(e)' = Standing(e) /\ Standing(e) \in {0, 1}
    BY DEF Standing, Taken, Delivered, Claimed
  <2>2. Owed(e)' + Owes(s, e) = Owed(e) + Owes(s, e)'
    BY OwedMoves
  <2>3. pushes'[e] + Owes(s, e)' + mistaken[e] <= pushes[e] + Owes(s, e) + mistaken'[e]
    OBVIOUS
  <2>4. /\ pushes[e] \in Nat /\ mistaken[e] \in Nat /\ pushes'[e] \in Nat /\ mistaken'[e] \in Nat
        /\ Owes(s, e) \in {0, 1} /\ Owes(s, e)' \in {0, 1} /\ Owed(e) \in Nat /\ Owed(e)' \in Nat
    BY OwedMoves DEF NoticeInv, StuckNoticeTypeOK, Owes
  <2>5. pushes[e] + Owed(e) <= mistaken[e] + Standing(e)
    BY DEF NoticeInv, Accounted
  <2> QED
    BY <2>1, <2>2, <2>3, <2>4, <2>5 DEF Accounted
<1>3. \A t \in Sweeps : sweep'[t].claim < nextId'
  BY DEF NoticeInv
<1>4. \A t \in Sweeps : sweep'[t].pc \in {"push", "stamp"} =>
        \A n \in notices' : n.id = sweep'[t].claim => n.of = sweep'[t].of
  BY DEF NoticeInv
<1>5. \A t \in Sweeps : sweep'[t].pc \in {"claim", "push"} => ~sweep'[t].sent
  BY DEF NoticeInv
<1> QED
  BY <1>1, <1>2, <1>3, <1>4, <1>5 DEF NoticeInv

LEMMA SweepGoes ==
  ASSUME NoticeInv, NEW s \in Sweeps, NEW pc \in {"idle", "claim", "push", "stamp", "expire"}, SweepTo(s, pc)
  PROVE  /\ sweep' \in [Sweeps -> SweepRecs] /\ \A t \in Sweeps \ {s} : sweep'[t] = sweep[t]
         /\ sweep'[s].pc = pc /\ sweep'[s].of = sweep[s].of
         /\ sweep'[s].claim = sweep[s].claim /\ sweep'[s].sent = sweep[s].sent
BY DEF NoticeInv, StuckNoticeTypeOK, SweepTo, SweepRecs

LEMMA ScanReminds ==
  ASSUME NoticeInv, NEW s \in Sweeps, Scan(s)
  PROVE  NoticeInv'
<1>1. PICK pc \in {"claim", "expire"} : sweep' = [sweep EXCEPT ![s] = [NoSweep EXCEPT !.pc = pc, !.of = episode]]
  BY DEF Scan
<1>2. UNCHANGED <<episode, waits, age, notices, nextId, pushes, mistaken, lapses>> /\ sweep[s].pc = "idle"
  BY DEF Scan
<1>3. sweep'[s] = [NoSweep EXCEPT !.pc = pc, !.of = episode] /\ \A t \in Sweeps \ {s} : sweep'[t] = sweep[t]
  BY <1>1 DEF NoticeInv, StuckNoticeTypeOK
<1>4. sweep'[s] \in SweepRecs /\ sweep'[s].pc = pc /\ sweep'[s].claim = 0 /\ sweep'[s].sent = FALSE
  <2>1. episode \in Episodes
    BY DEF NoticeInv, StuckNoticeTypeOK
  <2>2. sweep'[s] = [pc |-> pc, of |-> episode, claim |-> 0, sent |-> FALSE]
    BY <1>3 DEF NoSweep
  <2> QED
    BY <2>1, <2>2 DEF SweepRecs
<1>5. sweep' \in [Sweeps -> SweepRecs]
  BY <1>1, <1>3, <1>4 DEF NoticeInv, StuckNoticeTypeOK, SweepRecs
<1>6. \A e \in Episodes : Owes(s, e) = 0 /\ Owes(s, e)' = 0
  BY <1>2, <1>4 DEF Owes, Owing
<1>7. 0 < nextId
  <2>1. sweep[s].claim \in Nat /\ sweep[s].claim < nextId /\ nextId \in Nat
    BY DEF NoticeInv, StuckNoticeTypeOK
  <2> QED
    BY <2>1
<1>8. \A e \in Episodes :
        pushes'[e] + Owes(s, e)' + mistaken[e] <= pushes[e] + Owes(s, e) + mistaken'[e]
  BY <1>2, <1>6 DEF NoticeInv, StuckNoticeTypeOK
<1>9. /\ waits' \in BOOLEAN /\ lapses' \in 0 .. MaxLapses
      /\ pushes' \in [Episodes -> Nat] /\ mistaken' \in [Episodes -> Nat]
  BY <1>2 DEF NoticeInv, StuckNoticeTypeOK
<1> QED
  BY <1>2, <1>3, <1>4, <1>5, <1>7, <1>8, <1>9, SweepSteps

\* The sweep is done with the run, without a notice of its own.
LEMMA StopsReminding ==
  ASSUME NoticeInv, NEW s \in Sweeps, sweep' \in [Sweeps -> SweepRecs],
         \A t \in Sweeps \ {s} : sweep'[t] = sweep[t], sweep'[s].pc = "idle", sweep'[s].claim < nextId,
         UNCHANGED <<notices, nextId, episode, age, pushes, mistaken>>,
         waits' \in BOOLEAN, lapses' \in 0 .. MaxLapses
  PROVE  NoticeInv'
<1>1. \A e \in Episodes : Owes(s, e) \in {0, 1} /\ Owes(s, e)' = 0
  BY DEF Owes, Owing
<1>2. \A e \in Episodes :
        pushes'[e] + Owes(s, e)' + mistaken[e] <= pushes[e] + Owes(s, e) + mistaken'[e]
  BY <1>1 DEF NoticeInv, StuckNoticeTypeOK
<1>3. pushes' \in [Episodes -> Nat] /\ mistaken' \in [Episodes -> Nat]
  BY DEF NoticeInv, StuckNoticeTypeOK
<1> QED
  BY <1>2, <1>3, SweepSteps

LEMMA PushReminds ==
  ASSUME NoticeInv, NEW s \in Sweeps, Push(s)
  PROVE  NoticeInv'
<1> DEFINE e0 == sweep[s].of
<1>1. /\ pushes' = [pushes EXCEPT ![e0] = @ + 1] /\ sweep[s].pc = "push" /\ e0 \in Episodes
      /\ sweep' = [sweep EXCEPT ![s].pc = "stamp", ![s].sent = TRUE]
      /\ UNCHANGED <<episode, waits, age, notices, nextId, mistaken, lapses>>
  BY DEF Push, NoticeInv, StuckNoticeTypeOK
<1>2. sweep'[s] = [sweep[s] EXCEPT !.pc = "stamp", !.sent = TRUE] /\ \A t \in Sweeps \ {s} : sweep'[t] = sweep[t]
  BY <1>1 DEF NoticeInv, StuckNoticeTypeOK
<1>3. sweep[s] \in SweepRecs
  BY DEF NoticeInv, StuckNoticeTypeOK, SweepRecs
<1>4. /\ sweep'[s] \in SweepRecs /\ sweep'[s].pc = "stamp" /\ sweep'[s].sent = TRUE
      /\ sweep'[s].of = e0 /\ sweep'[s].claim = sweep[s].claim
  BY <1>2, <1>3 DEF SweepRecs
<1>5. sweep' \in [Sweeps -> SweepRecs]
  BY <1>1, <1>2, <1>4 DEF NoticeInv, StuckNoticeTypeOK, SweepRecs
<1>6. \A e \in Episodes : Owes(s, e) = (IF e = e0 THEN 1 ELSE 0) /\ Owes(s, e)' = 0
  BY <1>1, <1>4 DEF Owes, Owing
<1>7. /\ pushes' \in [Episodes -> Nat]
      /\ \A e \in Episodes : pushes'[e] = pushes[e] + (IF e = e0 THEN 1 ELSE 0)
  <2>1. pushes \in [Episodes -> Nat]
    BY DEF NoticeInv, StuckNoticeTypeOK
  <2> QED
    BY <1>1, <2>1
<1> HIDE DEF e0
<1>8. \A e \in Episodes :
        pushes'[e] + Owes(s, e)' + mistaken[e] <= pushes[e] + Owes(s, e) + mistaken'[e]
  BY <1>1, <1>6, <1>7 DEF NoticeInv, StuckNoticeTypeOK
<1>9. /\ waits' \in BOOLEAN /\ lapses' \in 0 .. MaxLapses /\ mistaken' \in [Episodes -> Nat]
      /\ sweep'[s].claim < nextId
  BY <1>1, <1>4 DEF NoticeInv, StuckNoticeTypeOK
<1> QED
  BY <1>1, <1>2, <1>4, <1>5, <1>7, <1>8, <1>9, SweepSteps DEF e0

LEMMA PushFailsReminds ==
  ASSUME NoticeInv, NEW s \in Sweeps, PushFails(s)
  PROVE  NoticeInv'
<1> DEFINE e0 == sweep[s].of
<1>1. PICK got \in {0, 1} :
        /\ pushes' = [pushes EXCEPT ![e0] = @ + got]
        /\ mistaken' = [mistaken EXCEPT ![e0] = @ + got]
  BY DEF PushFails
<1>2. /\ sweep[s].pc = "push" /\ e0 \in Episodes /\ SweepTo(s, "stamp")
      /\ UNCHANGED <<episode, waits, age, notices, nextId>> /\ lapses' \in 0 .. MaxLapses
  BY StuckNoticeAssumption DEF PushFails, Lapses, NoticeInv, StuckNoticeTypeOK
<1>3. /\ sweep' \in [Sweeps -> SweepRecs] /\ \A t \in Sweeps \ {s} : sweep'[t] = sweep[t]
      /\ sweep'[s].pc = "stamp" /\ sweep'[s].of = e0 /\ sweep'[s].claim = sweep[s].claim
      /\ sweep'[s].sent = sweep[s].sent
  BY <1>2, SweepGoes
<1>4. ~sweep[s].sent
  BY <1>2 DEF NoticeInv
<1>5. \A e \in Episodes : Owes(s, e) = (IF e = e0 THEN 1 ELSE 0) /\ Owes(s, e)' = (IF e = e0 THEN 1 ELSE 0)
  BY <1>2, <1>3, <1>4 DEF Owes, Owing
<1>6. /\ pushes' \in [Episodes -> Nat] /\ mistaken' \in [Episodes -> Nat]
      /\ \A e \in Episodes : pushes'[e] = pushes[e] + (IF e = e0 THEN got ELSE 0)
      /\ \A e \in Episodes : mistaken'[e] = mistaken[e] + (IF e = e0 THEN got ELSE 0)
  <2>1. pushes \in [Episodes -> Nat] /\ mistaken \in [Episodes -> Nat]
    BY DEF NoticeInv, StuckNoticeTypeOK
  <2> QED
    BY <1>1, <1>2, <2>1
<1> HIDE DEF e0
<1>7. \A e \in Episodes :
        pushes'[e] + Owes(s, e)' + mistaken[e] <= pushes[e] + Owes(s, e) + mistaken'[e]
  BY <1>5, <1>6 DEF NoticeInv, StuckNoticeTypeOK
<1>8. waits' \in BOOLEAN /\ sweep'[s].claim < nextId
  BY <1>2, <1>3 DEF NoticeInv, StuckNoticeTypeOK
<1> QED
  BY <1>2, <1>3, <1>6, <1>7, <1>8, SweepSteps DEF e0

LEMMA EndsReminds ==
  ASSUME NoticeInv, NEW s \in Sweeps, SweepDies(s) \/ ExpireWait(s)
  PROVE  NoticeInv'
<1>1. CASE ExpireWait(s)
  <2>1. /\ sweep' \in [Sweeps -> SweepRecs] /\ \A t \in Sweeps \ {s} : sweep'[t] = sweep[t]
        /\ sweep'[s].pc = "idle" /\ sweep'[s].claim = sweep[s].claim
    BY <1>1, SweepGoes DEF ExpireWait
  <2>2. waits' \in BOOLEAN /\ lapses' \in 0 .. MaxLapses /\ sweep[s].claim < nextId
    BY <1>1 DEF ExpireWait, NoticeInv, StuckNoticeTypeOK
  <2> QED
    BY <1>1, <2>1, <2>2, StopsReminding DEF ExpireWait
<1>2. CASE SweepDies(s)
  <2>1. sweep' = [sweep EXCEPT ![s] = NoSweep] /\ UNCHANGED <<episode, waits, age, notices, nextId, pushes, mistaken>>
        /\ lapses' \in 0 .. MaxLapses
    BY <1>2, StuckNoticeAssumption DEF SweepDies, Lapses, NoticeInv, StuckNoticeTypeOK
  <2>2. NoSweep \in SweepRecs
    BY StuckNoticeAssumption DEF NoSweep, SweepRecs, Episodes
  <2>3. /\ sweep' \in [Sweeps -> SweepRecs] /\ \A t \in Sweeps \ {s} : sweep'[t] = sweep[t]
        /\ sweep'[s].pc = "idle" /\ sweep'[s].claim = 0
    BY <2>1, <2>2 DEF NoticeInv, StuckNoticeTypeOK, SweepRecs, NoSweep
  <2>4. 0 < nextId /\ waits' \in BOOLEAN
    <3>1. sweep[s].claim \in Nat /\ sweep[s].claim < nextId /\ nextId \in Nat
      BY DEF NoticeInv, StuckNoticeTypeOK
    <3> QED
      BY <2>1, <3>1 DEF NoticeInv, StuckNoticeTypeOK
  <2> QED
    BY <2>1, <2>3, <2>4, StopsReminding
<1> QED
  BY <1>1, <1>2

\* A claim is made under the lock of the thread: no notice stands for the episode yet.
LEMMA ClaimReminds ==
  ASSUME NoticeInv, NEW s \in Sweeps, ClaimReminder(s)
  PROVE  NoticeInv'
<1> DEFINE e0 == sweep[s].of
           new == [id |-> nextId, of |-> e0, state |-> "pending", fresh |-> TRUE]
<1>1. /\ sweep[s].pc = "claim" /\ e0 \in Episodes /\ nextId \in Nat /\ sweep[s] \in SweepRecs
      /\ UNCHANGED <<episode, waits, age, pushes, mistaken, lapses>>
  BY DEF ClaimReminder, NoticeInv, StuckNoticeTypeOK, SweepRecs
<1>2. CASE SweepTo(s, "idle") /\ UNCHANGED <<notices, nextId>>
  <2>1. /\ sweep' \in [Sweeps -> SweepRecs] /\ \A t \in Sweeps \ {s} : sweep'[t] = sweep[t]
        /\ sweep'[s].pc = "idle" /\ sweep'[s].claim = sweep[s].claim
    BY <1>2, SweepGoes
  <2>2. waits' \in BOOLEAN /\ lapses' \in 0 .. MaxLapses /\ sweep[s].claim < nextId
    BY <1>1 DEF NoticeInv, StuckNoticeTypeOK
  <2> QED
    BY <1>1, <1>2, <2>1, <2>2, StopsReminding
<1>3. CASE /\ ~Taken(e0)
           /\ notices' = {n \in notices : ~(n.of = e0 /\ n.state = "pending")} \cup {new}
           /\ nextId' = nextId + 1
           /\ sweep' = [sweep EXCEPT ![s].pc = "push", ![s].claim = nextId]
  <2>1. sweep'[s] = [sweep[s] EXCEPT !.pc = "push", !.claim = nextId] /\ \A t \in Sweeps \ {s} : sweep'[t] = sweep[t]
    BY <1>3 DEF NoticeInv, StuckNoticeTypeOK
  <2>2. /\ sweep'[s] \in SweepRecs /\ sweep'[s].pc = "push" /\ sweep'[s].of = e0
        /\ sweep'[s].claim = nextId /\ sweep'[s].sent = sweep[s].sent
    BY <1>1, <2>1 DEF SweepRecs
  <2>3. sweep' \in [Sweeps -> SweepRecs]
    BY <1>3, <2>1, <2>2 DEF NoticeInv, StuckNoticeTypeOK, SweepRecs
  <2>4. /\ new \in NoticeRecs /\ new.id = nextId /\ new.of = e0 /\ new.state = "pending" /\ new.fresh
    BY <1>1 DEF NoticeRecs
  <2> HIDE DEF new
  <2>5. \A n \in notices' : n = new \/ n \in notices
    BY <1>3
  <2>6. \A n \in notices : n.id < nextId /\ n.id \in Nat
    BY DEF NoticeInv, StuckNoticeTypeOK
  <2>7. notices' \subseteq NoticeRecs /\ \A n, m \in notices' : n.id = m.id => n = m
    BY <1>1, <2>4, <2>5, <2>6 DEF NoticeInv, StuckNoticeTypeOK, NoticeRecs
  <2>8. StuckNoticeTypeOK'
    BY <1>1, <1>3, <2>3, <2>7 DEF NoticeInv, StuckNoticeTypeOK, SweepRecs, NoticeRecs
  <2>9. \A n \in notices' : n.id < nextId'
    BY <1>1, <1>3, <2>4, <2>5, <2>6
  <2>10. ASSUME NEW t \in Sweeps PROVE sweep'[t].claim < nextId'
    BY <1>1, <1>3, <2>1, <2>2 DEF NoticeInv, StuckNoticeTypeOK
  <2>11. ASSUME NEW t \in Sweeps, sweep'[t].pc \in {"push", "stamp"}, NEW n \in notices', n.id = sweep'[t].claim
         PROVE  n.of = sweep'[t].of
    <3>1. CASE t = s
      BY <1>1, <2>2, <2>4, <2>5, <2>6, <2>11, <3>1
    <3>2. CASE t # s
      <4>1. sweep'[t] = sweep[t] /\ sweep[t].claim < nextId /\ sweep[t].claim \in Nat
        BY <2>1, <3>2 DEF NoticeInv, StuckNoticeTypeOK
      <4>2. n \in notices
        BY <1>1, <2>4, <2>5, <2>11, <4>1
      <4> QED
        BY <2>11, <4>1, <4>2 DEF NoticeInv
    <3> QED
      BY <3>1, <3>2
  <2>12. ASSUME NEW t \in Sweeps, sweep'[t].pc \in {"claim", "push"} PROVE ~sweep'[t].sent
    BY <1>1, <2>1, <2>2, <2>12 DEF NoticeInv
  <2>13. ASSUME NEW e \in Episodes PROVE Accounted(e)'
    <3>1. Owed(e) \in Nat /\ Owed(e)' \in Nat /\ Owed(e)' + Owes(s, e) = Owed(e) + Owes(s, e)'
      BY <2>1, OwedMoves
    <3>2. Owes(s, e) = 0 /\ Owes(s, e)' = IF e = e0 THEN 1 ELSE 0
      BY <1>1, <2>2 DEF Owes, Owing
    <3>3. pushes[e] + Owed(e) <= mistaken[e] + Standing(e) /\ pushes'[e] = pushes[e] /\ mistaken'[e] = mistaken[e]
          /\ pushes[e] \in Nat /\ mistaken[e] \in Nat
      BY <1>1 DEF NoticeInv, StuckNoticeTypeOK, Accounted
    <3>4. CASE e = e0
      <4>1. Standing(e) = 0
        BY <1>3, <3>4 DEF Standing
      <4>2. Taken(e)'
        BY <1>3, <2>4, <3>4 DEF Taken, Claimed
      <4> QED
        BY <3>1, <3>2, <3>3, <3>4, <4>1, <4>2 DEF Accounted, Standing
    <3>5. CASE e # e0
      <4>1. \A n \in notices : n.of = e => n \in notices'
        BY <1>3, <3>5
      <4>2. Taken(e) => Taken(e)'
        BY <4>1 DEF Taken, Delivered, Claimed
      <4> QED
        BY <3>1, <3>2, <3>3, <3>5, <4>2 DEF Accounted, Standing
    <3> QED
      BY <3>4, <3>5
  <2> QED
    BY <2>8, <2>9, <2>10, <2>11, <2>12, <2>13 DEF NoticeInv
<1> QED
  BY <1>2, <1>3 DEF ClaimReminder

LEMMA StampReminds ==
  ASSUME NoticeInv, NEW s \in Sweeps, Stamp(s)
  PROVE  NoticeInv'
<1> DEFINE e0 == sweep[s].of
           done(m) == [m EXCEPT !.state = "delivered"]
<1>1. /\ sweep[s].pc = "stamp" /\ e0 \in Episodes /\ sweep[s] \in SweepRecs
      /\ UNCHANGED <<episode, waits, age, nextId, pushes, mistaken, lapses>>
      /\ notices' = {n \in notices : n.id # sweep[s].claim} \cup
           {done(n) : n \in {m \in notices : m.id = sweep[s].claim /\ sweep[s].sent}}
  BY DEF Stamp, NoticeInv, StuckNoticeTypeOK, SweepRecs
<1>2. /\ sweep' \in [Sweeps -> SweepRecs] /\ \A t \in Sweeps \ {s} : sweep'[t] = sweep[t]
      /\ sweep'[s].pc = "idle" /\ sweep'[s].claim = sweep[s].claim
  BY SweepGoes DEF Stamp
<1>3. \A m \in notices : /\ done(m) \in NoticeRecs /\ done(m).id = m.id /\ done(m).of = m.of
                         /\ done(m).state = "delivered"
  <2> SUFFICES ASSUME NEW m \in notices
               PROVE  /\ done(m) \in NoticeRecs /\ done(m).id = m.id /\ done(m).of = m.of
                      /\ done(m).state = "delivered"
    OBVIOUS
  <2>1. m \in NoticeRecs
    BY DEF NoticeInv, StuckNoticeTypeOK, NoticeRecs
  <2> QED
    BY <2>1 DEF NoticeRecs
<1>4. \A n \in notices' : \/ n \in notices /\ n.id # sweep[s].claim
                          \/ \E m \in notices : m.id = sweep[s].claim /\ sweep[s].sent /\ n = done(m)
  BY <1>1
<1>5. \A m \in notices : m.id = sweep[s].claim /\ sweep[s].sent => done(m) \in notices'
  BY <1>1
<1>6. \A m \in notices : m.id # sweep[s].claim => m \in notices'
  BY <1>1
<1> HIDE DEF done
<1>7. notices' \subseteq NoticeRecs
  BY <1>3, <1>4 DEF NoticeInv, StuckNoticeTypeOK, NoticeRecs
<1>8. \A n, m \in notices' : n.id = m.id => n = m
  <2>1. \A n, m \in notices : n.id = m.id => n = m
    BY DEF NoticeInv, StuckNoticeTypeOK
  <2> QED
    BY <1>3, <1>4, <2>1
<1>9. StuckNoticeTypeOK'
  BY <1>1, <1>2, <1>7, <1>8 DEF NoticeInv, StuckNoticeTypeOK, SweepRecs, NoticeRecs
<1>10. \A n \in notices' : \E m \in notices : m.id = n.id /\ m.of = n.of
  BY <1>3, <1>4
<1>11. \A n \in notices' : n.id < nextId'
  BY <1>1, <1>10 DEF NoticeInv
<1>12. ASSUME NEW t \in Sweeps PROVE sweep'[t].claim < nextId'
  BY <1>1, <1>2 DEF NoticeInv
<1>13. ASSUME NEW t \in Sweeps, sweep'[t].pc \in {"push", "stamp"}, NEW n \in notices', n.id = sweep'[t].claim
       PROVE  n.of = sweep'[t].of
  <2>1. t # s /\ sweep'[t] = sweep[t]
    BY <1>2, <1>13
  <2>2. PICK m \in notices : m.id = n.id /\ m.of = n.of
    BY <1>10
  <2> QED
    BY <1>13, <2>1, <2>2 DEF NoticeInv
<1>14. ASSUME NEW t \in Sweeps, sweep'[t].pc \in {"claim", "push"} PROVE ~sweep'[t].sent
  BY <1>2, <1>14 DEF NoticeInv
<1>15. ASSUME NEW e \in Episodes PROVE Accounted(e)'
  <2>1. Owed(e) \in Nat /\ Owed(e)' \in Nat /\ Owed(e)' + Owes(s, e) = Owed(e) + Owes(s, e)'
    BY <1>2, OwedMoves
  <2>2. Owes(s, e) = (IF e = e0 /\ ~sweep[s].sent THEN 1 ELSE 0) /\ Owes(s, e)' = 0
    BY <1>1, <1>2 DEF Owes, Owing
  <2>3. pushes[e] + Owed(e) <= mistaken[e] + Standing(e) /\ pushes'[e] = pushes[e] /\ mistaken'[e] = mistaken[e]
        /\ pushes[e] \in Nat /\ mistaken[e] \in Nat
    BY <1>1 DEF NoticeInv, StuckNoticeTypeOK, Accounted
  <2>4. CASE e = e0 /\ ~sweep[s].sent
    BY <2>1, <2>2, <2>3, <2>4 DEF Accounted, Standing
  <2>5. CASE e # e0 \/ sweep[s].sent
    <3>1. ASSUME NEW n \in notices, n.of = e
          PROVE  n \in notices' \/ (done(n) \in notices' /\ done(n).of = e /\ done(n).state = "delivered")
      <4>1. CASE n.id # sweep[s].claim
        BY <1>6, <4>1
      <4>2. CASE n.id = sweep[s].claim
        <5>1. n.of = e0
          BY <1>1, <4>2 DEF NoticeInv
        <5> QED
          BY <1>3, <1>5, <2>5, <3>1, <4>2, <5>1
      <4> QED
        BY <4>1, <4>2
    <3>2. Taken(e) => Taken(e)'
      BY <3>1 DEF Taken, Delivered, Claimed
    <3> QED
      BY <2>1, <2>2, <2>3, <2>5, <3>2 DEF Accounted, Standing
  <2> QED
    BY <2>4, <2>5
<1> QED
  BY <1>9, <1>11, <1>12, <1>13, <1>14, <1>15 DEF NoticeInv

LEMMA AgesReminds ==
  ASSUME NoticeInv, ClaimAges
  PROVE  NoticeInv'
<1>1. PICK n \in notices :
        /\ n.state = "pending" /\ n.fresh /\ Lapses
        /\ notices' = (notices \ {n}) \cup {[n EXCEPT !.fresh = FALSE]}
        /\ mistaken' = [mistaken EXCEPT ![n.of] = @ + 1]
        /\ UNCHANGED <<episode, waits, age, nextId, sweep, pushes>>
  BY DEF ClaimAges
<1> DEFINE old == [n EXCEPT !.fresh = FALSE]
<1>2. n \in NoticeRecs
  BY DEF NoticeInv, StuckNoticeTypeOK, NoticeRecs
<1>3. old \in NoticeRecs /\ old.id = n.id /\ old.of = n.of
  BY <1>2 DEF NoticeRecs
<1>4. \A m \in notices' : m = old \/ m \in notices
  BY <1>1
<1>5. \A m \in notices \ {n} : m \in notices'
  BY <1>1
<1>6. \A m \in notices' : m.id = n.id => m = old
  <2>1. \A m \in notices : m.id = n.id => m = n
    BY DEF NoticeInv, StuckNoticeTypeOK
  <2> QED
    BY <1>1, <2>1
<1> HIDE DEF old
<1>7. notices' \subseteq NoticeRecs
  BY <1>3, <1>4 DEF NoticeInv, StuckNoticeTypeOK, NoticeRecs
<1>8. \A m, k \in notices' : m.id = k.id => m = k
  <2>1. \A m, k \in notices : m.id = k.id => m = k
    BY DEF NoticeInv, StuckNoticeTypeOK
  <2> QED
    BY <1>3, <1>4, <1>6, <2>1
<1>9. mistaken \in [Episodes -> Nat] /\ n.of \in Episodes
  BY <1>2 DEF NoticeInv, StuckNoticeTypeOK, NoticeRecs
<1>10. mistaken' \in [Episodes -> Nat] /\ \A e \in Episodes : mistaken'[e] = mistaken[e] + (IF e = n.of THEN 1 ELSE 0)
  BY <1>1, <1>9
<1>11. lapses' \in 0 .. MaxLapses
  BY <1>1, StuckNoticeAssumption DEF Lapses, NoticeInv, StuckNoticeTypeOK
<1>12. StuckNoticeTypeOK'
  BY <1>1, <1>7, <1>8, <1>10, <1>11 DEF NoticeInv, StuckNoticeTypeOK, NoticeRecs
<1>13. \A m \in notices' : \E k \in notices : k.id = m.id /\ k.of = m.of
  BY <1>3, <1>4
<1>14. \A m \in notices' : m.id < nextId'
  BY <1>1, <1>13 DEF NoticeInv
<1>15. ASSUME NEW t \in Sweeps, sweep'[t].pc \in {"push", "stamp"}, NEW m \in notices', m.id = sweep'[t].claim
       PROVE  m.of = sweep'[t].of
  <2>1. PICK k \in notices : k.id = m.id /\ k.of = m.of
    BY <1>13
  <2> QED
    BY <1>1, <1>15, <2>1 DEF NoticeInv
<1>16. ASSUME NEW e \in Episodes PROVE Accounted(e)'
  <2>1. Owing(e)' = Owing(e)
    BY <1>1 DEF Owing
  <2>2. Owed(e)' = Owed(e) /\ Owed(e) \in Nat
    BY <2>1, OwedIsNat DEF Owed
  <2>3. pushes[e] + Owed(e) <= mistaken[e] + Standing(e) /\ pushes'[e] = pushes[e]
        /\ pushes[e] \in Nat /\ mistaken[e] \in Nat
    BY <1>1 DEF NoticeInv, StuckNoticeTypeOK, Accounted
  <2>4. CASE e = n.of
    BY <1>10, <2>2, <2>3, <2>4 DEF Accounted, Standing
  <2>5. CASE e # n.of
    <3>1. Taken(e) => Taken(e)'
      BY <1>5, <2>5 DEF Taken, Delivered, Claimed
    <3> QED
      BY <1>10, <2>2, <2>3, <2>5, <3>1 DEF Accounted, Standing
  <2> QED
    BY <2>4, <2>5
<1>17. /\ \A t \in Sweeps : sweep'[t].claim < nextId'
       /\ \A t \in Sweeps : sweep'[t].pc \in {"claim", "push"} => ~sweep'[t].sent
  BY <1>1 DEF NoticeInv
<1> QED
  BY <1>12, <1>14, <1>15, <1>16, <1>17 DEF NoticeInv

\* The run grows old, goes on or waits again: no sweep moves and no notice changes.
LEMMA RunReminds ==
  ASSUME NoticeInv, GrowOld \/ GoesOn \/ WaitsAgain \/ UNCHANGED noticeVars
  PROVE  NoticeInv'
<1>1. UNCHANGED <<notices, nextId, sweep, pushes, mistaken, lapses>>
  BY DEF GrowOld, GoesOn, WaitsAgain, noticeVars
<1>2. episode' \in Episodes /\ waits' \in BOOLEAN /\ age' \in {"young", "due", "old"}
  <2>1. /\ episode \in Episodes /\ waits \in BOOLEAN /\ age \in {"young", "due", "old"}
        /\ Episodes = 1 .. MaxEpisodes /\ MaxEpisodes \in Nat
    BY StuckNoticeAssumption DEF NoticeInv, StuckNoticeTypeOK, Episodes
  <2>2. CASE WaitsAgain
    BY <2>1, <2>2 DEF WaitsAgain
  <2>3. CASE GrowOld \/ GoesOn \/ UNCHANGED noticeVars
    BY <2>1, <2>3 DEF GrowOld, GoesOn, noticeVars
  <2> QED
    BY <2>2, <2>3
<1>3. StuckNoticeTypeOK'
  BY <1>1, <1>2 DEF NoticeInv, StuckNoticeTypeOK
<1>4. \A e \in Episodes : Accounted(e)'
  BY <1>1 DEF NoticeInv, Accounted, Owed, Owing, Standing, Taken, Delivered, Claimed
<1> QED
  BY <1>1, <1>3, <1>4 DEF NoticeInv

LEMMA NoticesHold == StuckNoticeSpec => []NoticeInv
<1>1. NoticeInv /\ [StuckNoticeNext]_noticeVars => NoticeInv'
  BY RunReminds, AgesReminds, ScanReminds, ClaimReminds, PushReminds, PushFailsReminds, StampReminds, EndsReminds
  DEF StuckNoticeNext
<1> QED
  BY <1>1, NoticesFirst, PTL DEF StuckNoticeSpec

\* Notices keep ids of their own, and a sweep's claim is a notice of the run it looked at.
THEOREM StuckNoticeTypeCorrect == StuckNoticeSpec => []StuckNoticeTypeOK
<1>1. NoticeInv => StuckNoticeTypeOK
  BY DEF NoticeInv
<1> QED
  BY <1>1, NoticesHold, PTL

\* For any number of sweeps at once and any number of waits: a user is reminded once in each,
\* and once more only for a claim that aged out or a push whose answer was lost.
THEOREM RemindersComeOnce == StuckNoticeSpec => []RemindedOnce
<1>1. NoticeInv => RemindedOnce
  <2> SUFFICES ASSUME NoticeInv, NEW e \in Episodes PROVE pushes[e] <= 1 + mistaken[e]
    BY DEF RemindedOnce
  <2>1. pushes[e] + Owed(e) <= mistaken[e] + Standing(e) /\ pushes[e] \in Nat /\ mistaken[e] \in Nat
    BY DEF NoticeInv, StuckNoticeTypeOK, Accounted
  <2> QED
    BY <2>1, OwedIsNat DEF Standing
<1> QED
  BY <1>1, NoticesHold, PTL

-----------------------------------------------------------------------------
(* Routines *)

WakerRecs == [pc : {"idle", "claim", "enqueue", "undo", "rearm"}, at : Nat, next : Nat, ran : BOOLEAN,
              mine : {"none", "queued", "taken"}]

RoutineTypes ==
  /\ nextRunAt \in Nat /\ clock \in Nat /\ wake \in Nat /\ editor.set \in Nat
  /\ lastRunAt \in BOOLEAN
  /\ waker \in [Wakers -> WakerRecs]
  /\ fired \in [Slots -> Int]

\* The row is past every slot that fired, unless the slot was made due again; and a handler
\* moves the row on, past the slot it claims.
RoutineInv ==
  /\ RoutineTypes
  /\ \A s \in Slots : fired[s] > 0 /\ s \notin putBack => nextRunAt = None \/ nextRunAt > s
  /\ \A w \in Wakers : waker[w].pc # "idle" => waker[w].at > 0 /\ (waker[w].next = None \/ waker[w].at < waker[w].next)
  /\ FiresOnce

LEMMA RoutinesFirst == RoutineInit => RoutineInv
<1> SUFFICES ASSUME RoutineInit PROVE RoutineInv
  OBVIOUS
<1>1. NoWaker \in WakerRecs /\ NoWaker.pc = "idle" /\ NoEditor.set = 0
  BY DEF NoWaker, NoEditor, WakerRecs, None
<1>2. RoutineTypes
  <2>1. nextRunAt \in Nat /\ clock \in Nat /\ wake \in Nat
    BY DEF RoutineInit, None
  <2>2. editor.set \in Nat
    BY <1>1 DEF RoutineInit
  <2>3. lastRunAt \in BOOLEAN
    BY Zenon DEF RoutineInit
  <2>4. waker \in [Wakers -> WakerRecs]
    BY <1>1 DEF RoutineInit
  <2>5. fired \in [Slots -> Int]
    BY DEF RoutineInit
  <2> QED
    BY <2>1, <2>2, <2>3, <2>4, <2>5 DEF RoutineTypes
<1>3. \A w \in Wakers : waker[w].pc = "idle"
  BY <1>1 DEF RoutineInit
<1>4. \A s \in Slots : fired[s] = 0
  BY DEF RoutineInit
<1> QED
  BY <1>2, <1>3, <1>4 DEF RoutineInv, FiresOnce

\* A handler goes on, and the row is as it was.
LEMMA WakersGoOn ==
  ASSUME RoutineInv, NEW w \in Wakers, waker' \in [Wakers -> WakerRecs],
         \A v \in Wakers \ {w} : waker'[v] = waker[v],
         waker'[w].pc # "idle" =>
           waker'[w].at > 0 /\ (waker'[w].next = None \/ waker'[w].at < waker'[w].next),
         wake' \in Nat, UNCHANGED <<nextRunAt, lastRunAt, clock, editor, fired, putBack>>
  PROVE  RoutineInv'
<1>1. RoutineTypes'
  BY DEF RoutineInv, RoutineTypes
<1> QED
  BY <1>1 DEF RoutineInv, FiresOnce

LEMMA WakerGoes ==
  ASSUME RoutineInv, NEW w \in Wakers, NEW pc \in {"idle", "claim", "enqueue", "undo", "rearm"}, WakerTo(w, pc)
  PROVE  /\ waker' \in [Wakers -> WakerRecs] /\ \A v \in Wakers \ {w} : waker'[v] = waker[v]
         /\ waker'[w].pc = pc /\ waker'[w].at = waker[w].at /\ waker'[w].next = waker[w].next
BY DEF RoutineInv, RoutineTypes, WakerRecs, WakerTo

LEMMA WakerStops ==
  ASSUME RoutineInv, NEW w \in Wakers, WakerEnds(w)
  PROVE  /\ waker' \in [Wakers -> WakerRecs] /\ \A v \in Wakers \ {w} : waker'[v] = waker[v]
         /\ waker'[w].pc = "idle"
<1>1. NoWaker \in WakerRecs /\ NoWaker.pc = "idle"
  BY DEF NoWaker, WakerRecs, None
<1> QED
  BY <1>1 DEF RoutineInv, RoutineTypes, WakerEnds

LEMMA RetryIsNat ==
  ASSUME RoutineInv, NEW w \in Wakers, Retry(waker[w].at)
  PROVE  wake' \in Nat
BY DEF RoutineInv, RoutineTypes, WakerRecs, Retry

LEMMA WakersFireOnce ==
  ASSUME RoutineInv, NEW w \in Wakers,
         TakeWake(w) \/ EnqueueRun(w) \/ EnqueueThrows(w) \/ Rearm(w) \/ TakeRoutineRun(w) \/ WakerDies(w)
  PROVE  RoutineInv'
<1>1. UNCHANGED <<nextRunAt, lastRunAt, clock, editor, fired, putBack>>
  BY DEF TakeWake, EnqueueRun, EnqueueThrows, Rearm, TakeRoutineRun, WakerDies, routineRow
<1>2. /\ waker[w] \in WakerRecs /\ wake \in Nat /\ clock \in Nat
      /\ waker[w].pc # "idle" => waker[w].at > 0 /\ (waker[w].next = None \/ waker[w].at < waker[w].next)
  BY DEF RoutineInv, RoutineTypes
<1>3. CASE TakeWake(w)
  <2>1. wake' = 0 /\ wake # 0 /\ wake <= clock
    BY <1>3 DEF TakeWake, None
  <2>2. CASE UNCHANGED waker
    BY <1>1, <1>2, <2>1, <2>2, WakersGoOn DEF RoutineInv, RoutineTypes
  <2>3. CASE waker' = [waker EXCEPT ![w] =
            [pc |-> "claim", at |-> wake, ran |-> lastRunAt, mine |-> "none",
             next |-> IF kind = "once" THEN None ELSE SlotAfter(clock)]]
    <3> DEFINE next == IF kind = "once" THEN None ELSE SlotAfter(clock)
    <3>1. next \in Nat /\ (next = None \/ wake < next)
      BY <1>2, <2>1 DEF None, SlotAfter
    <3> HIDE DEF next
    <3>2. waker'[w] = [pc |-> "claim", at |-> wake, ran |-> lastRunAt, mine |-> "none", next |-> next]
          /\ \A v \in Wakers \ {w} : waker'[v] = waker[v]
      BY <2>3 DEF RoutineInv, RoutineTypes, next
    <3>3. waker'[w] \in WakerRecs
      <4>1. lastRunAt \in BOOLEAN
        BY DEF RoutineInv, RoutineTypes
      <4> QED
        BY <1>2, <3>1, <3>2, <4>1 DEF WakerRecs
    <3>4. waker' \in [Wakers -> WakerRecs]
      BY <2>3, <3>2, <3>3 DEF RoutineInv, RoutineTypes
    <3> QED
      BY <1>1, <1>2, <2>1, <3>1, <3>2, <3>4, WakersGoOn
  <2> QED
    BY <1>3, <2>2, <2>3 DEF TakeWake
<1>4. CASE EnqueueRun(w) \/ EnqueueThrows(w)
  <2>1. PICK pc \in {"rearm", "undo"} : WakerTo(w, pc) /\ wake' = wake /\ waker[w].pc # "idle"
    BY <1>4 DEF EnqueueRun, EnqueueThrows
  <2> QED
    BY <1>1, <1>2, <2>1, WakerGoes, WakersGoOn
<1>5. CASE Rearm(w) \/ WakerDies(w)
  <2>1. WakerEnds(w) /\ wake' \in Nat
    BY <1>2, <1>5, RetryIsNat DEF Rearm, WakerDies, WakerRecs
  <2> QED
    BY <1>1, <2>1, WakerStops, WakersGoOn
<1>6. CASE TakeRoutineRun(w)
  <2>1. waker' = [waker EXCEPT ![w].mine = "taken"] /\ wake' = wake
    BY <1>6 DEF TakeRoutineRun
  <2>2. waker'[w] = [waker[w] EXCEPT !.mine = "taken"] /\ \A v \in Wakers \ {w} : waker'[v] = waker[v]
    BY <2>1 DEF RoutineInv, RoutineTypes
  <2>3. waker'[w] \in WakerRecs /\ waker'[w].pc = waker[w].pc /\ waker'[w].at = waker[w].at
        /\ waker'[w].next = waker[w].next
    BY <1>2, <2>2 DEF WakerRecs
  <2>4. waker' \in [Wakers -> WakerRecs]
    BY <2>1, <2>2, <2>3 DEF RoutineInv, RoutineTypes
  <2> QED
    BY <1>1, <1>2, <2>1, <2>2, <2>3, <2>4, WakersGoOn
<1> QED
  BY <1>3, <1>4, <1>5, <1>6

\* A slot is claimed, or a check-in skipped, only while the row still names it.
LEMMA ClaimsFireOnce ==
  ASSUME RoutineInv, NEW w \in Wakers, ClaimSlot(w) \/ SkipCheckIn(w)
  PROVE  RoutineInv'
<1>1. /\ UNCHANGED <<clock, wake, editor, putBack>> /\ waker[w].pc = "claim" /\ wake \in Nat
      /\ waker[w] \in WakerRecs /\ waker[w].at > 0 /\ (waker[w].next = None \/ waker[w].at < waker[w].next)
      /\ fired \in [Slots -> Int]
  BY DEF ClaimSlot, SkipCheckIn, RoutineInv, RoutineTypes
<1>2. CASE WakerEnds(w) /\ UNCHANGED <<routineRow, fired>>
  BY <1>1, <1>2, WakerStops, WakersGoOn DEF routineRow
<1>3. CASE /\ DueStill(w) /\ MoveOn(w)
           /\ \/ fired' = fired /\ WakerTo(w, "rearm")
              \/ /\ fired' = [fired EXCEPT ![waker[w].at] = @ + 1]
                 /\ waker' = [waker EXCEPT ![w].pc = "enqueue", ![w].mine = "queued"]
  <2>1. nextRunAt = waker[w].at /\ nextRunAt' = waker[w].next
    BY <1>3 DEF DueStill, MoveOn
  <2>2. /\ waker' \in [Wakers -> WakerRecs] /\ \A v \in Wakers \ {w} : waker'[v] = waker[v]
        /\ waker'[w].at = waker[w].at /\ waker'[w].next = waker[w].next
    <3>1. CASE WakerTo(w, "rearm")
      BY <3>1, WakerGoes
    <3>2. CASE waker' = [waker EXCEPT ![w].pc = "enqueue", ![w].mine = "queued"]
      <4>1. waker'[w] = [waker[w] EXCEPT !.pc = "enqueue", !.mine = "queued"] /\ \A v \in Wakers \ {w} : waker'[v] = waker[v]
        BY <3>2 DEF RoutineInv, RoutineTypes
      <4>2. waker'[w] \in WakerRecs /\ waker'[w].at = waker[w].at /\ waker'[w].next = waker[w].next
        BY <1>1, <4>1 DEF WakerRecs
      <4>3. waker' \in [Wakers -> WakerRecs]
        BY <3>2, <4>1, <4>2 DEF RoutineInv, RoutineTypes
      <4> QED
        BY <4>1, <4>2, <4>3
    <3> QED
      BY <1>3, <3>1, <3>2
  <2>3. /\ fired' \in [Slots -> Int]
        /\ \A s \in Slots : fired'[s] = fired[s] \/ (s = waker[w].at /\ fired'[s] = fired[s] + 1)
    BY <1>1, <1>3
  <2>4. RoutineTypes'
    BY <1>1, <1>3, <2>1, <2>2, <2>3 DEF RoutineInv, RoutineTypes, WakerRecs, MoveOn
  <2>5. ASSUME NEW s \in Slots, fired'[s] > 0, s \notin putBack
        PROVE  nextRunAt' = None \/ nextRunAt' > s
    <3>1. s \in Nat /\ fired[s] \in Int /\ waker[w].at \in Nat /\ waker[w].next \in Nat
      BY <1>1 DEF Slots, WakerRecs
    <3>2. s <= waker[w].at
      <4>1. CASE s = waker[w].at
        BY <3>1, <4>1
      <4>2. CASE s # waker[w].at
        BY <1>1, <2>1, <2>3, <2>5, <3>1, <4>2 DEF RoutineInv, None
      <4> QED
        BY <4>1, <4>2
    <3> QED
      BY <1>1, <2>1, <3>1, <3>2 DEF None
  <2>6. ASSUME NEW s \in Slots, fired'[s] > 1 PROVE s \in putBack
    <3>1. s \in Nat /\ fired[s] \in Int /\ nextRunAt \in Nat
      BY <1>1 DEF Slots, RoutineInv, RoutineTypes
    <3>2. fired[s] > 1 \/ (s = nextRunAt /\ fired[s] > 0)
      BY <2>1, <2>3, <2>6, <3>1
    <3>3. s > 0
      BY DEF Slots
    <3> QED
      BY <3>1, <3>2, <3>3 DEF RoutineInv, FiresOnce, None
  <2>7. \A v \in Wakers : waker'[v].pc # "idle" =>
          waker'[v].at > 0 /\ (waker'[v].next = None \/ waker'[v].at < waker'[v].next)
    BY <1>1, <2>2 DEF RoutineInv
  <2> QED
    BY <1>1, <2>4, <2>5, <2>6, <2>7 DEF RoutineInv, FiresOnce
<1> QED
  BY <1>2, <1>3 DEF ClaimSlot, SkipCheckIn

\* The compensation makes the slot due again, and notes the runs that stand.
LEMMA UndoFiresOnce ==
  ASSUME RoutineInv, NEW w \in Wakers, UndoClaim(w)
  PROVE  RoutineInv'
<1>1. /\ UNCHANGED <<clock, editor>> /\ waker[w].pc = "undo" /\ WakerEnds(w) /\ wake' \in Nat
      /\ waker[w] \in WakerRecs /\ waker[w].at > 0
      /\ fired' = fired \/ fired' = [fired EXCEPT ![waker[w].at] = @ - 1]
  BY RetryIsNat DEF UndoClaim, RoutineInv, RoutineTypes
<1>2. fired \in [Slots -> Int] /\ fired' \in [Slots -> Int] /\ \A s \in Slots : fired'[s] <= fired[s]
  BY <1>1 DEF RoutineInv, RoutineTypes
<1>3. \/ nextRunAt' = nextRunAt /\ lastRunAt' = lastRunAt /\ putBack' = putBack
      \/ /\ nextRunAt' = waker[w].at /\ lastRunAt' = waker[w].ran
         /\ putBack' = putBack \cup {s \in Slots : s >= waker[w].at /\ fired'[s] > 0}
  BY DEF UndoClaim, routineRow
<1>4. RoutineTypes'
  BY <1>1, <1>2, <1>3, WakerStops DEF RoutineInv, RoutineTypes, WakerRecs
<1>5. ASSUME NEW s \in Slots PROVE fired'[s] > 1 => s \in putBack'
  <2>1. fired[s] \in Int /\ fired'[s] \in Int /\ fired'[s] <= fired[s]
    BY <1>2
  <2> QED
    BY <1>3, <2>1 DEF RoutineInv, FiresOnce
<1>6. ASSUME NEW s \in Slots, fired'[s] > 0, s \notin putBack'
      PROVE  nextRunAt' = None \/ nextRunAt' > s
  <2>1. fired[s] > 0 /\ s \in Nat /\ waker[w].at \in Nat
    BY <1>1, <1>2, <1>6 DEF Slots, WakerRecs
  <2> QED
    BY <1>3, <1>6, <2>1 DEF RoutineInv
<1>7. \A v \in Wakers : waker'[v].pc # "idle" =>
        waker'[v].at > 0 /\ (waker'[v].next = None \/ waker'[v].at < waker'[v].next)
  BY <1>1, WakerStops DEF RoutineInv
<1> QED
  BY <1>4, <1>5, <1>6, <1>7 DEF RoutineInv, FiresOnce

\* An edit that writes a date notes the slots from that date on that have fired.
LEMMA EditsFireOnce ==
  ASSUME RoutineInv, UNCHANGED <<clock, waker, fired, lastRunAt>>, editor'.set \in Nat,
         wake' \in Nat, nextRunAt' \in Nat,
         \/ nextRunAt' = nextRunAt /\ putBack' = putBack
         \/ nextRunAt' = None /\ putBack' = putBack
         \/ putBack' = putBack \cup Again(nextRunAt')
  PROVE  RoutineInv'
<1>1. RoutineTypes'
  BY DEF RoutineInv, RoutineTypes
<1>2. ASSUME NEW s \in Slots, fired[s] > 0, s \notin putBack'
      PROVE  nextRunAt' = None \/ nextRunAt' > s
  <2>1. s \in Nat /\ s <= LastSlot /\ nextRunAt' \in Nat /\ LastSlot \in Nat
    BY RoutineAssumption DEF Slots
  <2>2. CASE putBack' = putBack \cup Again(nextRunAt')
    <3>1. nextRunAt' \in Slots => ~(s >= nextRunAt')
      BY <1>2, <2>2 DEF Again
    <3> QED
      BY <2>1, <3>1, RoutineAssumption DEF Slots, None
  <2>3. CASE nextRunAt' = nextRunAt /\ putBack' = putBack
    BY <1>2, <2>3 DEF RoutineInv
  <2>4. CASE nextRunAt' = None
    BY <2>4
  <2> QED
    BY <2>2, <2>3, <2>4
<1>3. putBack \subseteq putBack'
  OBVIOUS
<1> QED
  BY <1>1, <1>2, <1>3 DEF RoutineInv, FiresOnce

LEMMA RoutineEdits ==
  ASSUME RoutineInv, \/ Tick \/ RearmDue \/ WriteEdit \/ RemoveRoutine \/ ArchiveOwner
                     \/ \E enabled \in BOOLEAN : SyncCheckIn(enabled)
                     \/ \E input \in {"rename", "on", "off", "crons"} : ReadForEdit(input)
  PROVE  RoutineInv'
<1>1. nextRunAt \in Nat /\ clock \in Nat /\ wake \in Nat /\ editor.set \in Nat /\ SlotAfter(clock) \in Nat
  BY DEF RoutineInv, RoutineTypes, SlotAfter
<1>2. CASE Tick
  <2>1. clock' \in Nat /\ UNCHANGED <<nextRunAt, lastRunAt, wake, waker, editor, fired, putBack>>
    BY <1>1, <1>2 DEF Tick, routineRow
  <2> QED
    BY <2>1 DEF RoutineInv, RoutineTypes, FiresOnce
<1>3. CASE RearmDue
  <2>1. wake' \in Nat /\ UNCHANGED <<nextRunAt, lastRunAt, clock, waker, editor, fired, putBack>>
    BY <1>1, <1>3 DEF RearmDue, routineRow
  <2> QED
    BY <1>1, <2>1, EditsFireOnce
<1>4. CASE WriteEdit
  <2>1. editor' = NoEditor /\ UNCHANGED <<clock, waker, fired>>
    BY <1>4 DEF WriteEdit
  <2>2. CASE UNCHANGED <<routineRow, wake, putBack>>
    BY <1>1, <2>1, <2>2, EditsFireOnce DEF routineRow, NoEditor, None
  <2>3. CASE /\ nextRunAt' = editor.set /\ putBack' = putBack \cup Again(editor.set) /\ UNCHANGED lastRunAt
             /\ wake' \in {wake, nextRunAt', None}
    BY <1>1, <2>1, <2>3, EditsFireOnce DEF NoEditor, None
  <2> QED
    BY <1>4, <2>2, <2>3 DEF WriteEdit
<1>5. CASE RemoveRoutine \/ ArchiveOwner
  <2>1. nextRunAt' = None /\ wake' = None /\ UNCHANGED <<lastRunAt, clock, waker, editor, fired, putBack>>
    BY <1>5 DEF RemoveRoutine, ArchiveOwner
  <2> QED
    BY <1>1, <2>1, EditsFireOnce DEF None
<1>6. ASSUME NEW enabled \in BOOLEAN, SyncCheckIn(enabled) PROVE RoutineInv'
  <2> DEFINE date == IF enabled THEN SlotAfter(clock) ELSE None
  <2>1. /\ nextRunAt' = date /\ putBack' = putBack \cup Again(date) /\ wake' \in {date, wake}
        /\ UNCHANGED <<lastRunAt, clock, waker, editor, fired>>
    BY <1>6 DEF SyncCheckIn
  <2>2. date \in Nat
    BY <1>1 DEF None
  <2> HIDE DEF date
  <2> QED
    BY <1>1, <2>1, <2>2, EditsFireOnce
<1>7. ASSUME NEW input \in {"rename", "on", "off", "crons"}, ReadForEdit(input) PROVE RoutineInv'
  <2>1. /\ UNCHANGED <<nextRunAt, lastRunAt, clock, wake, waker, fired, putBack>>
        /\ editor'.set \in {None, SlotAfter(clock), nextRunAt}
    BY <1>7 DEF ReadForEdit, routineRow
  <2> QED
    BY <1>1, <2>1, EditsFireOnce DEF None
<1> QED
  BY <1>2, <1>3, <1>4, <1>5, <1>6, <1>7

LEMMA RoutinesHold == RoutineSpec => []RoutineInv
<1>1. RoutineInv /\ [RoutineNext]_routineVars => RoutineInv'
  <2> SUFFICES ASSUME RoutineInv, [RoutineNext]_routineVars PROVE RoutineInv'
    OBVIOUS
  <2>1. CASE UNCHANGED routineVars
    BY <2>1 DEF routineVars, RoutineInv, RoutineTypes, FiresOnce
  <2>2. CASE RoutineNext
    BY <2>2, RoutineEdits, WakersFireOnce, ClaimsFireOnce, UndoFiresOnce, Zenon DEF RoutineNext, WakerStep
  <2> QED
    BY <2>1, <2>2
<1> QED
  BY <1>1, RoutinesFirst, PTL DEF RoutineSpec

\* For any number of handlers, edits and failures: a slot fires once, and again only when an
\* edit or a compensation has made it due again.
THEOREM SlotsFireOnce == RoutineSpec => []FiresOnce
<1>1. RoutineInv => FiresOnce
  BY DEF RoutineInv
<1> QED
  BY <1>1, RoutinesHold, PTL

\* How often a slot can fire is counted.  A handler whose claim may be taken back stands for a
\* run of its slot (Claiming); the slot is due while the row is not past it; and an edit that
\* is about to write, or a compensation, may make it due again.
Claims(w, s) == IF waker[w].pc \in {"enqueue", "undo"} /\ waker[w].at = s THEN 1 ELSE 0
Undoes(w) == IF waker[w].pc = "undo" THEN 1 ELSE 0
Claiming(s) == {w \in Wakers : Claims(w, s) = 1}
Compensating == {w \in Wakers : Undoes(w) = 1}
DueBy(s) == IF nextRunAt # None /\ nextRunAt <= s THEN 1 ELSE 0
Editing == IF editor.pc = "write" THEN 1 ELSE 0

CountedSlot(s) ==
  /\ IsFiniteSet(Claiming(s)) /\ Cardinality(Claiming(s)) <= fired[s]
  /\ fired[s] + DueBy(s) + Editing + Cardinality(Compensating) <= 1 + edits + blows

SlotCounts == IsFiniteSet(Compensating) /\ \A s \in Slots : CountedSlot(s)

BoundedWakers == [pc : {"idle", "claim", "enqueue", "undo", "rearm"}, at : 0 .. LastSlot,
                  next : 0 .. Never, ran : BOOLEAN, mine : {"none", "queued", "taken"}]
Editors == [pc : {"idle", "write"}, input : {"rename", "on", "off", "crons"},
            set : 0 .. Never, sync : BOOLEAN]

\* The types of everything but the counts of runs.
RowBounds ==
  /\ kind \in {"recurring", "once", "checkin", "removed"} /\ active \in BOOLEAN
  /\ nextRunAt \in 0 .. Never /\ lastRunAt \in BOOLEAN
  /\ clock \in 0 .. LastSlot /\ wake \in 0 .. Never
HandBounds ==
  /\ waker \in [Wakers -> BoundedWakers]
  /\ editor \in Editors
NoteBounds ==
  /\ putBack \subseteq Slots /\ dropped \subseteq Slots
  /\ edits \in 0 .. MaxEdits /\ blows \in 0 .. MaxBlows
RoutineBounds == RowBounds /\ HandBounds /\ NoteBounds

LEMMA ClaimsMove ==
  ASSUME NEW w \in Wakers, \A v \in Wakers \ {w} : waker'[v] = waker[v], NEW s \in Slots,
         IsFiniteSet(Claiming(s))
  PROVE  /\ IsFiniteSet(Claiming(s))' /\ Cardinality(Claiming(s)) \in Nat
         /\ Cardinality(Claiming(s))' = Cardinality(Claiming(s)) - Claims(w, s) + Claims(w, s)'
<1> DEFINE others == {v \in Wakers \ {w} : Claims(v, s) = 1}
<1>1. others = Claiming(s) \ {w} /\ (w \in Claiming(s) <=> Claims(w, s) = 1)
  BY DEF Claiming
<1>2. others = Claiming(s)' \ {w} /\ (w \in Claiming(s)' <=> Claims(w, s)' = 1)
  BY DEF Claiming, Claims
<1>3. Claims(w, s) \in {0, 1} /\ Claims(w, s)' \in {0, 1}
  BY DEF Claims
<1> HIDE DEF others
<1>4. IsFiniteSet(others) /\ Cardinality(Claiming(s)) \in Nat
      /\ Cardinality(others) = Cardinality(Claiming(s)) - Claims(w, s)
  <2>1. /\ IsFiniteSet(others)
        /\ Cardinality(others) = IF w \in Claiming(s) THEN Cardinality(Claiming(s)) - 1
                                 ELSE Cardinality(Claiming(s))
    BY <1>1, FS_RemoveElement
  <2>2. Cardinality(Claiming(s)) \in Nat
    BY FS_CardinalityType
  <2> QED
    BY <1>1, <1>3, <2>1, <2>2
<1>5. /\ IsFiniteSet(Claiming(s))'
      /\ Cardinality(Claiming(s))' = Cardinality(others) + Claims(w, s)'
  <2>1. CASE Claims(w, s)' = 1
    <3>1. Claiming(s)' = others \cup {w} /\ w \notin others
      BY <1>1, <1>2, <2>1
    <3>2. IsFiniteSet(others \cup {w}) /\ Cardinality(others \cup {w}) = Cardinality(others) + 1
      BY <1>4, <3>1, FS_AddElement
    <3> QED
      BY <2>1, <3>1, <3>2
  <2>2. CASE Claims(w, s)' = 0
    <3>1. Claiming(s)' = others
      BY <1>2, <2>2
    <3>2. Cardinality(others) \in Nat
      BY <1>4, FS_CardinalityType
    <3> QED
      BY <1>4, <2>2, <3>1, <3>2
  <2> QED
    BY <1>3, <2>1, <2>2
<1> QED
  BY <1>3, <1>4, <1>5

LEMMA CompensationsMove ==
  ASSUME NEW w \in Wakers, \A v \in Wakers \ {w} : waker'[v] = waker[v],
         IsFiniteSet(Compensating)
  PROVE  /\ IsFiniteSet(Compensating)' /\ Cardinality(Compensating) \in Nat
         /\ Cardinality(Compensating)' = Cardinality(Compensating) - Undoes(w) + Undoes(w)'
<1> DEFINE others == {v \in Wakers \ {w} : Undoes(v) = 1}
<1>1. others = Compensating \ {w} /\ (w \in Compensating <=> Undoes(w) = 1)
  BY DEF Compensating
<1>2. others = Compensating' \ {w} /\ (w \in Compensating' <=> Undoes(w)' = 1)
  BY DEF Compensating, Undoes
<1>3. Undoes(w) \in {0, 1} /\ Undoes(w)' \in {0, 1}
  BY DEF Undoes
<1> HIDE DEF others
<1>4. IsFiniteSet(others) /\ Cardinality(Compensating) \in Nat
      /\ Cardinality(others) = Cardinality(Compensating) - Undoes(w)
  <2>1. /\ IsFiniteSet(others)
        /\ Cardinality(others) = IF w \in Compensating THEN Cardinality(Compensating) - 1
                                 ELSE Cardinality(Compensating)
    BY <1>1, FS_RemoveElement
  <2>2. Cardinality(Compensating) \in Nat
    BY FS_CardinalityType
  <2> QED
    BY <1>1, <1>3, <2>1, <2>2
<1>5. /\ IsFiniteSet(Compensating)'
      /\ Cardinality(Compensating)' = Cardinality(others) + Undoes(w)'
  <2>1. CASE Undoes(w)' = 1
    <3>1. Compensating' = others \cup {w} /\ w \notin others
      BY <1>1, <1>2, <2>1
    <3>2. IsFiniteSet(others \cup {w}) /\ Cardinality(others \cup {w}) = Cardinality(others) + 1
      BY <1>4, <3>1, FS_AddElement
    <3> QED
      BY <2>1, <3>1, <3>2
  <2>2. CASE Undoes(w)' = 0
    <3>1. Compensating' = others
      BY <1>2, <2>2
    <3>2. Cardinality(others) \in Nat
      BY <1>4, FS_CardinalityType
    <3> QED
      BY <1>4, <2>2, <3>1, <3>2
  <2> QED
    BY <1>3, <2>1, <2>2
<1> QED
  BY <1>3, <1>4, <1>5

LEMMA CountsAreNumbers ==
  ASSUME RoutineBounds
  PROVE  /\ edits \in Nat /\ blows \in Nat /\ nextRunAt \in Nat /\ Editing \in {0, 1}
         /\ \A s : DueBy(s) \in {0, 1} /\ \A w : Claims(w, s) \in {0, 1} /\ Undoes(w) \in {0, 1}
         /\ MaxEdits \in Nat /\ MaxBlows \in Nat /\ LastSlot \in Nat /\ Never \in Nat
         /\ Slots \subseteq Nat
BY RoutineAssumption DEF RoutineBounds, RowBounds, HandBounds, NoteBounds, Editing, DueBy, Claims, Undoes, Never, Slots

\* What one handler does to the counts, seen from the slot.
LEMMA CountsMove ==
  ASSUME RoutineInv, RoutineBounds, RoutineBounds', SlotCounts, NEW w \in Wakers,
         \A v \in Wakers \ {w} : waker'[v] = waker[v], fired' \in [Slots -> Int],
         \A s \in Slots :
           /\ fired[s] - Claims(w, s) <= fired'[s] - Claims(w, s)'
           /\ fired'[s] + DueBy(s)' + Editing' + Undoes(w)' - edits' - blows'
                <= fired[s] + DueBy(s) + Editing + Undoes(w) - edits - blows
  PROVE  SlotCounts'
<1>1. /\ edits \in Nat /\ blows \in Nat /\ Editing \in {0, 1}
      /\ \A s : DueBy(s) \in {0, 1} /\ \A v : Claims(v, s) \in {0, 1} /\ Undoes(v) \in {0, 1}
  BY CountsAreNumbers
<1>2. /\ edits' \in Nat /\ blows' \in Nat /\ Editing' \in {0, 1}
      /\ \A s : DueBy(s)' \in {0, 1} /\ \A v : Claims(v, s)' \in {0, 1} /\ Undoes(v)' \in {0, 1}
  BY RoutineAssumption DEF RoutineBounds, NoteBounds, Editing, DueBy, Claims, Undoes
<1>3. /\ IsFiniteSet(Compensating)' /\ Cardinality(Compensating) \in Nat
      /\ Cardinality(Compensating)' = Cardinality(Compensating) - Undoes(w) + Undoes(w)'
  BY CompensationsMove DEF SlotCounts
<1>4. ASSUME NEW s \in Slots PROVE CountedSlot(s)'
  <2>1. /\ IsFiniteSet(Claiming(s)) /\ Cardinality(Claiming(s)) <= fired[s]
        /\ fired[s] + DueBy(s) + Editing + Cardinality(Compensating) <= 1 + edits + blows
    BY DEF SlotCounts, CountedSlot
  <2>2. /\ IsFiniteSet(Claiming(s))' /\ Cardinality(Claiming(s)) \in Nat
        /\ Cardinality(Claiming(s))' = Cardinality(Claiming(s)) - Claims(w, s) + Claims(w, s)'
    BY <2>1, ClaimsMove
  <2>3. fired[s] \in Int /\ fired'[s] \in Int
    BY DEF RoutineInv, RoutineTypes
  <2>4. /\ fired[s] - Claims(w, s) <= fired'[s] - Claims(w, s)'
        /\ fired'[s] + DueBy(s)' + Editing' + Undoes(w)' - edits' - blows'
             <= fired[s] + DueBy(s) + Editing + Undoes(w) - edits - blows
    OBVIOUS
  <2>5. Claims(w, s) \in Int /\ Claims(w, s)' \in Int
    BY <1>1, <1>2
  <2>6. Cardinality(Claiming(s))' <= fired'[s]
    BY <2>1, <2>2, <2>3, <2>4, <2>5
  <2>7. /\ DueBy(s) \in Int /\ DueBy(s)' \in Int /\ Editing \in Int /\ Editing' \in Int
        /\ Undoes(w) \in Int /\ Undoes(w)' \in Int
        /\ edits \in Int /\ edits' \in Int /\ blows \in Int /\ blows' \in Int
    BY <1>1, <1>2
  <2>8. fired'[s] + DueBy(s)' + Editing' + Cardinality(Compensating)' <= 1 + edits' + blows'
    BY <1>3, <2>1, <2>3, <2>4, <2>7
  <2> QED
    BY <2>2, <2>6, <2>8 DEF CountedSlot
<1> QED
  BY <1>3, <1>4 DEF SlotCounts

LEMMA SlotsAreBounded ==
  /\ LastSlot \in Nat /\ Never \in Nat /\ Never = LastSlot + 1
  /\ 0 .. LastSlot \subseteq 0 .. Never /\ Slots \subseteq 0 .. LastSlot
  /\ None \in 0 .. LastSlot /\ None \in 0 .. Never
  /\ \A t \in 0 .. LastSlot : SlotAfter(t) \in 0 .. Never
BY RoutineAssumption DEF Never, Slots, None, SlotAfter

LEMMA BoundsFirst == RoutineInit => RoutineBounds /\ SlotCounts
<1> SUFFICES ASSUME RoutineInit PROVE RoutineBounds /\ SlotCounts
  OBVIOUS
<1>1. NoWaker \in BoundedWakers /\ NoEditor \in Editors /\ NoWaker.pc = "idle" /\ NoEditor.pc = "idle"
  BY SlotsAreBounded DEF NoWaker, NoEditor, BoundedWakers, Editors
<1>2. RoutineBounds
  <2>1. RowBounds
    <3>1. active \in BOOLEAN /\ lastRunAt \in BOOLEAN
      BY Zenon DEF RoutineInit
    <3>2. nextRunAt \in 0 .. Never /\ clock \in 0 .. LastSlot /\ wake \in 0 .. Never
      BY SlotsAreBounded, RoutineAssumption DEF RoutineInit, None
    <3> QED
      BY <3>1, <3>2 DEF RoutineInit, RowBounds
  <2>2. HandBounds
    BY <1>1 DEF RoutineInit, HandBounds
  <2>3. NoteBounds
    BY RoutineAssumption DEF RoutineInit, NoteBounds
  <2> QED
    BY <2>1, <2>2, <2>3 DEF RoutineBounds
<1>3. \A w \in Wakers : waker[w].pc = "idle"
  BY <1>1 DEF RoutineInit
<1>4. Compensating = {} /\ \A s \in Slots : Claiming(s) = {}
  BY <1>3 DEF Compensating, Claiming, Undoes, Claims
<1>5. \A s \in Slots : fired[s] = 0
  BY DEF RoutineInit
<1>6. Editing = 0 /\ edits = 0 /\ blows = 0
  BY <1>1 DEF RoutineInit, Editing
<1>7. \A s \in Slots : DueBy(s) \in {0, 1}
  BY DEF DueBy
<1>8. \A s \in Slots : CountedSlot(s)
  BY <1>4, <1>5, <1>6, <1>7, FS_EmptySet DEF CountedSlot
<1> QED
  BY <1>2, <1>4, <1>8, FS_EmptySet DEF SlotCounts

LEMMA RowsStayBounded ==
  ASSUME RoutineBounds, NEW date \in 0 .. Never, NEW line \in 0 .. Never,
         kind' \in {kind, "removed"}, active' \in BOOLEAN, lastRunAt' \in BOOLEAN,
         nextRunAt' = date, wake' = line, clock' \in 0 .. LastSlot
  PROVE  RowBounds'
BY DEF RoutineBounds, RowBounds

LEMMA NotesStayBounded ==
  ASSUME RoutineBounds, putBack' \subseteq Slots, dropped' \subseteq Slots,
         edits' = edits \/ Edit, blows' = blows \/ Blow
  PROVE  NoteBounds'
<1>1. edits \in 0 .. MaxEdits /\ blows \in 0 .. MaxBlows /\ MaxEdits \in Nat /\ MaxBlows \in Nat
  BY RoutineAssumption DEF RoutineBounds, NoteBounds
<1>2. edits' \in 0 .. MaxEdits
  BY <1>1 DEF Edit
<1>3. blows' \in 0 .. MaxBlows
  BY <1>1 DEF Blow
<1> QED
  BY <1>2, <1>3 DEF NoteBounds

LEMMA WakersStayBounded ==
  ASSUME RoutineBounds, NEW w \in Wakers, NEW rec \in BoundedWakers,
         waker' = [waker EXCEPT ![w] = rec]
  PROVE  /\ waker' \in [Wakers -> BoundedWakers] /\ waker'[w] = rec
         /\ \A v \in Wakers \ {w} : waker'[v] = waker[v]
BY DEF RoutineBounds, HandBounds

\* The handler's part of a step: what it becomes is one of these.
LEMMA WakersBecome ==
  ASSUME RoutineBounds, NEW w \in Wakers
  PROVE  /\ waker[w] \in BoundedWakers /\ NoWaker \in BoundedWakers /\ NoWaker.pc = "idle"
         /\ \A pc \in {"idle", "claim", "enqueue", "undo", "rearm"} :
              [waker[w] EXCEPT !.pc = pc] \in BoundedWakers
         /\ [waker[w] EXCEPT !.mine = "taken"] \in BoundedWakers
         /\ [waker[w] EXCEPT !.pc = "enqueue", !.mine = "queued"] \in BoundedWakers
<1>1. waker[w] \in BoundedWakers
  BY DEF RoutineBounds, HandBounds
<1>2. NoWaker \in BoundedWakers /\ NoWaker.pc = "idle"
  BY SlotsAreBounded DEF NoWaker, BoundedWakers
<1> QED
  BY <1>1, <1>2 DEF BoundedWakers

LEMMA WakersAreBounded ==
  ASSUME RoutineInv, RoutineBounds, NEW w \in Wakers, TakeWake(w) \/ WakerStep(w) \/ TakeRoutineRun(w) \/ WakerDies(w)
  PROVE  RoutineBounds'
<1>1. /\ kind \in {"recurring", "once", "checkin", "removed"} /\ active \in BOOLEAN /\ lastRunAt \in BOOLEAN
      /\ nextRunAt \in 0 .. Never /\ clock \in 0 .. LastSlot /\ wake \in 0 .. Never
      /\ editor \in Editors /\ waker \in [Wakers -> BoundedWakers]
      /\ putBack \subseteq Slots /\ dropped \subseteq Slots
  BY DEF RoutineBounds, RowBounds, HandBounds, NoteBounds
<1>2. /\ waker[w].at \in 0 .. LastSlot /\ waker[w].at \in 0 .. Never /\ waker[w].next \in 0 .. Never
      /\ waker[w].ran \in BOOLEAN /\ LastSlot \in Nat /\ Never \in Nat
  <2>1. waker[w].at \in 0 .. LastSlot
    BY WakersBecome DEF BoundedWakers
  <2> QED
    BY <2>1, WakersBecome, SlotsAreBounded DEF BoundedWakers
<1>3. waker[w].pc # "idle" => waker[w].at \in Slots
  BY <1>2 DEF RoutineInv, Slots
<1>4. UNCHANGED <<clock, editor, edits>>
  BY DEF TakeWake, WakerStep, ClaimSlot, SkipCheckIn, EnqueueRun, EnqueueThrows, UndoClaim, Rearm, TakeRoutineRun, WakerDies
<1>5. blows' = blows \/ Blow
  BY DEF TakeWake, WakerStep, ClaimSlot, SkipCheckIn, EnqueueRun, EnqueueThrows, UndoClaim, Rearm, TakeRoutineRun, WakerDies
<1>6. \E rec \in BoundedWakers : waker' = [waker EXCEPT ![w] = rec]
  <2>1. CASE TakeWake(w)
    <3> DEFINE next == IF kind = "once" THEN None ELSE SlotAfter(clock)
               rec == [pc |-> "claim", at |-> wake, ran |-> lastRunAt, mine |-> "none", next |-> next]
    <3>1. wake \in 0 .. LastSlot
      BY <1>1, <1>2, <2>1 DEF TakeWake
    <3>2. next \in 0 .. Never
      BY <1>1, SlotsAreBounded
    <3> HIDE DEF next
    <3>3. rec \in BoundedWakers
      BY <1>1, <3>1, <3>2 DEF BoundedWakers
    <3>4. waker' = waker \/ waker' = [waker EXCEPT ![w] = rec]
      BY <2>1 DEF TakeWake, next
    <3>5. waker = [waker EXCEPT ![w] = waker[w]]
      BY <1>1
    <3> HIDE DEF rec
    <3> QED
      BY <3>3, <3>4, <3>5, WakersBecome
  <2>2. CASE WakerEnds(w)
    BY <2>2, WakersBecome DEF WakerEnds
  <2>3. CASE \E pc \in {"undo", "rearm"} : WakerTo(w, pc)
    <3>1. PICK pc \in {"undo", "rearm"} : waker' = [waker EXCEPT ![w].pc = pc]
      BY <2>3 DEF WakerTo
    <3>2. waker' = [waker EXCEPT ![w] = [waker[w] EXCEPT !.pc = pc]]
      BY <3>1
    <3>3. [waker[w] EXCEPT !.pc = pc] \in BoundedWakers
      BY WakersBecome
    <3> QED
      BY <3>2, <3>3
  <2>4. CASE waker' = [waker EXCEPT ![w].pc = "enqueue", ![w].mine = "queued"]
    <3>1. waker' = [waker EXCEPT ![w] = [waker[w] EXCEPT !.pc = "enqueue", !.mine = "queued"]]
      BY <1>1, <2>4
    <3> QED
      BY <3>1, WakersBecome
  <2>5. CASE TakeRoutineRun(w)
    <3>1. waker' = [waker EXCEPT ![w] = [waker[w] EXCEPT !.mine = "taken"]]
      BY <2>5 DEF TakeRoutineRun
    <3> QED
      BY <3>1, WakersBecome
  <2> QED
    BY <2>1, <2>2, <2>3, <2>4, <2>5
    DEF WakerStep, ClaimSlot, SkipCheckIn, EnqueueRun, EnqueueThrows, UndoClaim, Rearm, WakerDies
<1>7. HandBounds'
  <2>1. PICK rec \in BoundedWakers : waker' = [waker EXCEPT ![w] = rec]
    BY <1>6
  <2> QED
    BY <1>1, <1>4, <2>1 DEF HandBounds
<1>8. kind' = kind
  BY DEF TakeWake, WakerStep, ClaimSlot, SkipCheckIn, EnqueueRun, EnqueueThrows, UndoClaim, Rearm, TakeRoutineRun, WakerDies, routineRow, MoveOn
<1>9. \/ UNCHANGED <<active, nextRunAt, lastRunAt>>
      \/ MoveOn(w)
      \/ nextRunAt' = waker[w].at /\ active' = TRUE /\ lastRunAt' = waker[w].ran
  BY DEF TakeWake, WakerStep, ClaimSlot, SkipCheckIn, EnqueueRun, EnqueueThrows, UndoClaim, Rearm, TakeRoutineRun, WakerDies, routineRow
<1>10. active' \in BOOLEAN /\ lastRunAt' \in BOOLEAN /\ nextRunAt' \in {nextRunAt, waker[w].next, waker[w].at}
  <2>1. CASE UNCHANGED <<active, nextRunAt, lastRunAt>>
    BY <1>1, <2>1
  <2>2. CASE MoveOn(w)
    <3>1. lastRunAt' = TRUE /\ active' = (waker[w].next # None) /\ nextRunAt' = waker[w].next
      BY <2>2 DEF MoveOn
    <3>2. (waker[w].next # None) \in BOOLEAN
      OBVIOUS
    <3> QED
      BY <3>1, <3>2
  <2>3. CASE nextRunAt' = waker[w].at /\ active' = TRUE /\ lastRunAt' = waker[w].ran
    BY <1>2, <2>3
  <2> QED
    BY <1>9, <2>1, <2>2, <2>3
<1>11. wake' \in {wake, None, waker[w].at, waker[w].next}
  BY DEF TakeWake, WakerStep, ClaimSlot, SkipCheckIn, EnqueueRun, EnqueueThrows, UndoClaim, Rearm, TakeRoutineRun, WakerDies, Retry
<1>12. RowBounds'
  <2>1. nextRunAt' \in 0 .. Never /\ wake' \in 0 .. Never
    BY <1>1, <1>2, <1>10, <1>11, SlotsAreBounded
  <2> QED
    BY <1>1, <1>4, <1>8, <1>10, <2>1, RowsStayBounded
<1>13. putBack' \subseteq Slots /\ dropped' \subseteq Slots
  <2>1. putBack' = putBack \/ putBack' = putBack \cup {s \in Slots : s >= waker[w].at /\ fired'[s] > 0}
    BY DEF TakeWake, WakerStep, ClaimSlot, SkipCheckIn, EnqueueRun, EnqueueThrows, UndoClaim, Rearm, TakeRoutineRun, WakerDies
  <2>2. \/ dropped' = dropped
        \/ dropped' = dropped \cup {waker[w].at} /\ waker[w].pc # "idle"
        \/ dropped' = dropped \cup Replaced(waker[w].at)
    BY DEF TakeWake, WakerStep, ClaimSlot, SkipCheckIn, EnqueueRun, EnqueueThrows, UndoClaim, Rearm, TakeRoutineRun, WakerDies
  <2>3. Replaced(waker[w].at) \subseteq Slots
    BY DEF Replaced
  <2> QED
    BY <1>1, <1>3, <2>1, <2>2, <2>3
<1> QED
  BY <1>4, <1>5, <1>7, <1>12, <1>13, NotesStayBounded DEF RoutineBounds

\* Steps of a handler that leave the row and the counts of runs alone.
LEMMA IdleCounts ==
  ASSUME RoutineInv, RoutineBounds, RoutineBounds', SlotCounts, NEW w \in Wakers,
         \A v \in Wakers \ {w} : waker'[v] = waker[v],
         UNCHANGED <<nextRunAt, editor, fired, edits>>,
         \A s \in Slots : Claims(w, s)' <= Claims(w, s),
         Undoes(w)' - blows' <= Undoes(w) - blows
  PROVE  SlotCounts'
<1>1. fired \in [Slots -> Int] /\ Editing' = Editing /\ \A s \in Slots : DueBy(s)' = DueBy(s)
  BY DEF RoutineInv, RoutineTypes, Editing, DueBy
<1>2. /\ edits \in Int /\ blows \in Int /\ blows' \in Int /\ Editing \in Int /\ Undoes(w) \in Int
      /\ Undoes(w)' \in Int
      /\ \A s \in Slots : DueBy(s) \in Int /\ Claims(w, s) \in Int /\ Claims(w, s)' \in Int
  BY RoutineAssumption DEF RoutineBounds, NoteBounds, Editing, DueBy, Claims, Undoes
<1>3. ASSUME NEW s \in Slots
      PROVE  /\ fired[s] - Claims(w, s) <= fired'[s] - Claims(w, s)'
             /\ fired'[s] + DueBy(s)' + Editing' + Undoes(w)' - edits' - blows'
                  <= fired[s] + DueBy(s) + Editing + Undoes(w) - edits - blows
  <2>1. fired'[s] = fired[s] /\ fired[s] \in Int /\ DueBy(s)' = DueBy(s) /\ DueBy(s) \in Int
        /\ Claims(w, s)' <= Claims(w, s) /\ Claims(w, s) \in Int /\ Claims(w, s)' \in Int
    BY <1>1, <1>2
  <2> QED
    BY <1>1, <1>2, <2>1
<1> QED
  BY <1>1, <1>3, CountsMove

LEMMA WakerGoesOn ==
  ASSUME RoutineBounds, NEW w \in Wakers, NEW pc \in {"idle", "claim", "enqueue", "undo", "rearm"}, WakerTo(w, pc)
  PROVE  /\ \A v \in Wakers \ {w} : waker'[v] = waker[v]
         /\ waker'[w].pc = pc /\ waker'[w].at = waker[w].at
BY DEF RoutineBounds, HandBounds, BoundedWakers, WakerTo

LEMMA WakerGoesIdle ==
  ASSUME RoutineBounds, NEW w \in Wakers, WakerEnds(w)
  PROVE  /\ \A v \in Wakers \ {w} : waker'[v] = waker[v]
         /\ waker'[w].pc = "idle" /\ Undoes(w)' = 0 /\ \A s : Claims(w, s)' = 0
<1>1. NoWaker.pc = "idle"
  BY DEF NoWaker
<1>2. waker'[w] = NoWaker /\ \A v \in Wakers \ {w} : waker'[v] = waker[v]
  BY DEF RoutineBounds, HandBounds, WakerEnds
<1> QED
  BY <1>1, <1>2 DEF Undoes, Claims

LEMMA BlowsAreCounted ==
  ASSUME RoutineBounds, blows' = blows \/ Blow
  PROVE  blows \in Nat /\ blows' \in Nat /\ blows <= blows' /\ (Blow => blows' = blows + 1)
BY RoutineAssumption DEF RoutineBounds, NoteBounds, Blow

LEMMA HandlersAreCounted ==
  ASSUME RoutineInv, RoutineBounds, RoutineBounds', SlotCounts, NEW w \in Wakers,
         TakeWake(w) \/ EnqueueRun(w) \/ EnqueueThrows(w) \/ Rearm(w) \/ TakeRoutineRun(w) \/ WakerDies(w)
  PROVE  SlotCounts'
<1>1. /\ UNCHANGED <<nextRunAt, editor, fired, edits>>
      /\ blows' = blows \/ Blow
  BY DEF TakeWake, EnqueueRun, EnqueueThrows, Rearm, TakeRoutineRun, WakerDies, routineRow
<1>2. blows \in Nat /\ blows' \in Nat /\ blows <= blows' /\ (Blow => blows' = blows + 1)
  BY <1>1, BlowsAreCounted
<1>3. Undoes(w) \in {0, 1} /\ \A s \in Slots : Claims(w, s) \in {0, 1}
  BY DEF Undoes, Claims
<1>4. CASE TakeWake(w)
  <2>1. CASE waker' = waker
    <3>1. Undoes(w)' = Undoes(w) /\ \A s \in Slots : Claims(w, s)' = Claims(w, s)
      BY <2>1 DEF Undoes, Claims
    <3>2. Undoes(w)' - blows' <= Undoes(w) - blows /\ \A s \in Slots : Claims(w, s)' <= Claims(w, s)
      BY <1>2, <1>3, <3>1
    <3> QED
      BY <1>1, <2>1, <3>2, IdleCounts
  <2>2. CASE waker' # waker
    <3>1. waker' = [waker EXCEPT ![w] =
            [pc |-> "claim", at |-> wake, ran |-> lastRunAt, mine |-> "none",
             next |-> IF kind = "once" THEN None ELSE SlotAfter(clock)]]
      BY <1>4, <2>2 DEF TakeWake
    <3>2. waker'[w].pc = "claim" /\ \A v \in Wakers \ {w} : waker'[v] = waker[v]
      BY <3>1 DEF RoutineBounds, HandBounds
    <3>3. Undoes(w)' = 0 /\ \A s \in Slots : Claims(w, s)' = 0
      BY <3>2 DEF Undoes, Claims
    <3>4. Undoes(w)' - blows' <= Undoes(w) - blows /\ \A s \in Slots : Claims(w, s)' <= Claims(w, s)
      BY <1>2, <1>3, <3>3
    <3> QED
      BY <1>1, <3>2, <3>4, IdleCounts
  <2> QED
    BY <2>1, <2>2
<1>5. CASE EnqueueRun(w)
  <2>1. WakerTo(w, "rearm")
    BY <1>5 DEF EnqueueRun
  <2>2. waker'[w].pc = "rearm" /\ \A v \in Wakers \ {w} : waker'[v] = waker[v]
    BY <2>1, WakerGoesOn
  <2>3. Undoes(w)' = 0 /\ \A s \in Slots : Claims(w, s)' = 0
    BY <2>2 DEF Undoes, Claims
  <2>4. Undoes(w)' - blows' <= Undoes(w) - blows /\ \A s \in Slots : Claims(w, s)' <= Claims(w, s)
    BY <1>2, <1>3, <2>3
  <2> QED
    BY <1>1, <2>2, <2>4, IdleCounts
<1>6. CASE EnqueueThrows(w)
  <2>1. WakerTo(w, "undo") /\ waker[w].pc = "enqueue" /\ blows' = blows + 1
    BY <1>2, <1>6 DEF EnqueueThrows
  <2>2. waker'[w].pc = "undo" /\ waker'[w].at = waker[w].at /\ \A v \in Wakers \ {w} : waker'[v] = waker[v]
    BY <2>1, WakerGoesOn
  <2>3. Undoes(w)' = 1 /\ Undoes(w) = 0 /\ \A s \in Slots : Claims(w, s)' = Claims(w, s)
    BY <2>1, <2>2 DEF Undoes, Claims
  <2>4. Undoes(w)' - blows' <= Undoes(w) - blows /\ \A s \in Slots : Claims(w, s)' <= Claims(w, s)
    BY <1>2, <1>3, <2>1, <2>3
  <2> QED
    BY <1>1, <2>2, <2>4, IdleCounts
<1>7. CASE Rearm(w) \/ WakerDies(w)
  <2>1. WakerEnds(w)
    BY <1>7 DEF Rearm, WakerDies
  <2>2. Undoes(w)' = 0 /\ (\A s : Claims(w, s)' = 0) /\ \A v \in Wakers \ {w} : waker'[v] = waker[v]
    BY <2>1, WakerGoesIdle
  <2>4. Undoes(w)' - blows' <= Undoes(w) - blows /\ \A s \in Slots : Claims(w, s)' <= Claims(w, s)
    BY <1>2, <1>3, <2>2
  <2> QED
    BY <1>1, <2>2, <2>4, IdleCounts
<1>8. CASE TakeRoutineRun(w)
  <2>1. waker' = [waker EXCEPT ![w].mine = "taken"]
    BY <1>8 DEF TakeRoutineRun
  <2>2. waker'[w].pc = waker[w].pc /\ waker'[w].at = waker[w].at /\ \A v \in Wakers \ {w} : waker'[v] = waker[v]
    BY <2>1 DEF RoutineBounds, HandBounds, BoundedWakers
  <2>3. Undoes(w)' = Undoes(w) /\ \A s \in Slots : Claims(w, s)' = Claims(w, s)
    BY <2>2 DEF Undoes, Claims
  <2>4. Undoes(w)' - blows' <= Undoes(w) - blows /\ \A s \in Slots : Claims(w, s)' <= Claims(w, s)
    BY <1>2, <1>3, <2>3
  <2> QED
    BY <1>1, <2>2, <2>4, IdleCounts
<1> QED
  BY <1>4, <1>5, <1>6, <1>7, <1>8

\* A slot that is claimed was due and is no longer: the row moves past it.
LEMMA ClaimsAreCounted ==
  ASSUME RoutineInv, RoutineBounds, RoutineBounds', SlotCounts, NEW w \in Wakers,
         ClaimSlot(w) \/ SkipCheckIn(w)
  PROVE  SlotCounts'
<1>1. /\ UNCHANGED <<editor, edits, blows>> /\ waker[w].pc = "claim" /\ Undoes(w) = 0
      /\ \A s \in Slots : Claims(w, s) = 0
  BY DEF ClaimSlot, SkipCheckIn, Undoes, Claims
<1>2. edits \in Nat /\ blows \in Nat /\ Editing' = Editing /\ Editing \in {0, 1}
  BY <1>1, CountsAreNumbers DEF Editing
<1>3. CASE WakerEnds(w) /\ UNCHANGED <<routineRow, fired>>
  <2>1. Undoes(w)' = 0 /\ (\A s : Claims(w, s)' = 0) /\ \A v \in Wakers \ {w} : waker'[v] = waker[v]
    BY <1>3, WakerGoesIdle
  <2>2. Undoes(w)' - blows' <= Undoes(w) - blows /\ \A s \in Slots : Claims(w, s)' <= Claims(w, s)
    BY <1>1, <1>2, <2>1
  <2> QED
    BY <1>1, <1>3, <2>1, <2>2, IdleCounts DEF routineRow
<1>4. ASSUME DueStill(w), MoveOn(w), fired' \in [Slots -> Int],
             \A v \in Wakers \ {w} : waker'[v] = waker[v], Undoes(w)' = 0,
             \A s \in Slots : /\ fired'[s] = fired[s] + Claims(w, s)'
                              /\ s # waker[w].at => Claims(w, s)' = 0
      PROVE  SlotCounts'
  <2>1. nextRunAt = waker[w].at /\ nextRunAt' = waker[w].next
    BY <1>4 DEF DueStill, MoveOn
  <2>2. waker[w].at > 0 /\ (waker[w].next = None \/ waker[w].at < waker[w].next)
    BY <1>1 DEF RoutineInv
  <2>3. waker[w].at \in Nat /\ waker[w].next \in Nat
    BY DEF RoutineInv, RoutineTypes, WakerRecs
  <2>4. ASSUME NEW s \in Slots
        PROVE  /\ fired[s] - Claims(w, s) <= fired'[s] - Claims(w, s)'
               /\ fired'[s] + DueBy(s)' + Editing' + Undoes(w)' - edits' - blows'
                    <= fired[s] + DueBy(s) + Editing + Undoes(w) - edits - blows
    <3>1. fired[s] \in Int /\ s \in Nat
      BY DEF RoutineInv, RoutineTypes, Slots
    <3>2. Claims(w, s)' \in {0, 1} /\ DueBy(s) \in {0, 1} /\ DueBy(s)' \in {0, 1}
      BY DEF Claims, DueBy
    <3>3. Claims(w, s)' + DueBy(s)' <= DueBy(s)
      <4>1. CASE s < waker[w].at
        <5>1. DueBy(s)' = 0
          BY <2>1, <2>2, <2>3, <3>1, <4>1 DEF DueBy
        <5>2. Claims(w, s)' = 0
          BY <1>4, <2>3, <3>1, <4>1
        <5> QED
          BY <3>2, <5>1, <5>2
      <4>2. CASE s = waker[w].at
        <5>1. DueBy(s)' = 0 /\ DueBy(s) = 1
          BY <2>1, <2>2, <2>3, <3>1, <4>2 DEF DueBy, None
        <5> QED
          BY <3>2, <5>1
      <4>3. CASE s > waker[w].at
        <5>1. DueBy(s) = 1
          BY <2>1, <2>2, <2>3, <3>1, <4>3 DEF DueBy, None
        <5>2. Claims(w, s)' = 0
          BY <1>4, <2>3, <3>1, <4>3
        <5> QED
          BY <3>2, <5>1, <5>2
      <4> QED
        BY <2>3, <3>1, <4>1, <4>2, <4>3
    <3>4. fired'[s] = fired[s] + Claims(w, s)' /\ Claims(w, s) = 0
      BY <1>1, <1>4
    <3> QED
      BY <1>1, <1>2, <1>4, <3>1, <3>2, <3>3, <3>4
  <2> QED
    BY <1>4, <2>4, CountsMove
<1>5. CASE DueStill(w) /\ MoveOn(w) /\ WakerTo(w, "rearm") /\ fired' = fired
  <2>1. waker'[w].pc = "rearm" /\ \A v \in Wakers \ {w} : waker'[v] = waker[v]
    BY <1>5, WakerGoesOn
  <2>2. Undoes(w)' = 0 /\ \A s \in Slots : Claims(w, s)' = 0
    BY <2>1 DEF Undoes, Claims
  <2>3. fired \in [Slots -> Int]
    BY DEF RoutineInv, RoutineTypes
  <2>4. \A s \in Slots : fired'[s] = fired[s] + Claims(w, s)'
    BY <1>5, <2>2, <2>3
  <2> QED
    BY <1>4, <1>5, <2>1, <2>2, <2>3, <2>4
<1>6. CASE /\ DueStill(w) /\ MoveOn(w)
           /\ waker' = [waker EXCEPT ![w].pc = "enqueue", ![w].mine = "queued"]
           /\ fired' = [fired EXCEPT ![waker[w].at] = @ + 1]
  <2>1. waker'[w].pc = "enqueue" /\ waker'[w].at = waker[w].at /\ \A v \in Wakers \ {w} : waker'[v] = waker[v]
    BY <1>6 DEF RoutineBounds, HandBounds, BoundedWakers
  <2>2. Undoes(w)' = 0 /\ \A s \in Slots : Claims(w, s)' = IF s = waker[w].at THEN 1 ELSE 0
    BY <2>1 DEF Undoes, Claims
  <2>3. fired \in [Slots -> Int]
    BY DEF RoutineInv, RoutineTypes
  <2>4. fired' \in [Slots -> Int]
    <3>1. waker[w].at \in Slots
      BY <1>1, RoutineAssumption DEF RoutineInv, RoutineBounds, HandBounds, BoundedWakers, Slots
    <3>2. fired[waker[w].at] + 1 \in Int
      BY <2>3, <3>1
    <3> QED
      BY <1>6, <2>3, <3>2
  <2>5. ASSUME NEW s \in Slots PROVE fired'[s] = fired[s] + Claims(w, s)'
    BY <1>6, <2>2, <2>3
  <2> QED
    BY <1>4, <1>6, <2>1, <2>2, <2>4, <2>5
<1> QED
  BY <1>3, <1>5, <1>6 DEF ClaimSlot, SkipCheckIn

\* A compensation may make slots due again, and is spent by it.
LEMMA UndosAreCounted ==
  ASSUME RoutineInv, RoutineBounds, RoutineBounds', SlotCounts, NEW w \in Wakers, UndoClaim(w)
  PROVE  SlotCounts'
<1>1. /\ UNCHANGED <<editor, edits, blows>> /\ waker[w].pc = "undo" /\ WakerEnds(w)
      /\ fired' = fired \/ fired' = [fired EXCEPT ![waker[w].at] = @ - 1]
  BY DEF UndoClaim
<1>2. edits \in Nat /\ blows \in Nat /\ Editing' = Editing /\ Editing \in {0, 1}
  BY <1>1, CountsAreNumbers DEF Editing
<1>3. Undoes(w) = 1 /\ \A s \in Slots : Claims(w, s) = IF s = waker[w].at THEN 1 ELSE 0
  BY <1>1 DEF Undoes, Claims
<1>4. Undoes(w)' = 0 /\ (\A s : Claims(w, s)' = 0) /\ \A v \in Wakers \ {w} : waker'[v] = waker[v]
  BY <1>1, WakerGoesIdle
<1>5. fired \in [Slots -> Int]
  BY DEF RoutineInv, RoutineTypes
<1>6. fired' \in [Slots -> Int]
      /\ \A s \in Slots : fired'[s] <= fired[s] /\ fired[s] - Claims(w, s) <= fired'[s]
  BY <1>1, <1>3, <1>5
<1>7. ASSUME NEW s \in Slots
      PROVE  /\ fired[s] - Claims(w, s) <= fired'[s] - Claims(w, s)'
             /\ fired'[s] + DueBy(s)' + Editing' + Undoes(w)' - edits' - blows'
                  <= fired[s] + DueBy(s) + Editing + Undoes(w) - edits - blows
  <2>1. fired[s] \in Int /\ fired'[s] \in Int /\ fired'[s] <= fired[s] /\ fired[s] - Claims(w, s) <= fired'[s]
    BY <1>5, <1>6
  <2>2. DueBy(s) \in {0, 1} /\ DueBy(s)' \in {0, 1} /\ Claims(w, s)' = 0
    BY <1>4 DEF DueBy
  <2> QED
    BY <1>1, <1>2, <1>3, <1>4, <2>1, <2>2
<1> QED
  BY <1>4, <1>6, <1>7, CountsMove

\* A step that is not a handler's may make a slot due again, if an edit is spent on it.
LEMMA EditsMove ==
  ASSUME RoutineInv, RoutineBounds, RoutineBounds', SlotCounts, UNCHANGED <<waker, fired>>,
         blows <= blows',
         \A s \in Slots : DueBy(s)' + Editing' - edits' <= DueBy(s) + Editing - edits
  PROVE  SlotCounts'
<1>1. /\ Compensating' = Compensating /\ \A s : Claiming(s)' = Claiming(s)
  BY DEF Compensating, Claiming, Undoes, Claims
<1>2. IsFiniteSet(Compensating) /\ Cardinality(Compensating) \in Nat
  BY FS_CardinalityType DEF SlotCounts
<1>3. /\ edits \in Int /\ blows \in Int /\ Editing \in Int /\ edits' \in Int /\ blows' \in Int /\ Editing' \in Int
  BY RoutineAssumption DEF RoutineBounds, NoteBounds, Editing
<1>4. ASSUME NEW s \in Slots PROVE CountedSlot(s)'
  <2>1. /\ IsFiniteSet(Claiming(s)) /\ Cardinality(Claiming(s)) <= fired[s]
        /\ fired[s] + DueBy(s) + Editing + Cardinality(Compensating) <= 1 + edits + blows
    BY DEF SlotCounts, CountedSlot
  <2>2. fired[s] \in Int /\ DueBy(s) \in Int /\ DueBy(s)' \in Int
    BY DEF RoutineInv, RoutineTypes, DueBy
  <2>3. DueBy(s)' + Editing' - edits' <= DueBy(s) + Editing - edits
    OBVIOUS
  <2>4. fired[s] + DueBy(s)' + Editing' + Cardinality(Compensating) <= 1 + edits' + blows'
    BY <1>2, <1>3, <2>1, <2>2, <2>3
  <2> QED
    BY <1>1, <2>1, <2>4 DEF CountedSlot
<1> QED
  BY <1>1, <1>2, <1>4 DEF SlotCounts

LEMMA EditsAreCounted ==
  ASSUME RoutineInv, RoutineBounds, SlotCounts,
         \/ Tick \/ RearmDue \/ WriteEdit \/ RemoveRoutine \/ ArchiveOwner
         \/ \E enabled \in BOOLEAN : SyncCheckIn(enabled)
         \/ \E input \in {"rename", "on", "off", "crons"} : ReadForEdit(input)
  PROVE  RoutineBounds' /\ SlotCounts'
<1>1. /\ kind \in {"recurring", "once", "checkin", "removed"} /\ active \in BOOLEAN /\ lastRunAt \in BOOLEAN
      /\ nextRunAt \in 0 .. Never /\ clock \in 0 .. LastSlot /\ wake \in 0 .. Never
      /\ editor \in Editors /\ waker \in [Wakers -> BoundedWakers]
      /\ putBack \subseteq Slots /\ dropped \subseteq Slots
  BY DEF RoutineBounds, RowBounds, HandBounds, NoteBounds
<1>2. /\ edits \in Nat /\ blows \in Nat /\ Editing \in {0, 1} /\ \A s : DueBy(s) \in {0, 1} /\ DueBy(s)' \in {0, 1}
      /\ LastSlot \in Nat /\ Never \in Nat
  BY CountsAreNumbers DEF DueBy
<1>3. SlotAfter(clock) \in 0 .. Never /\ None \in 0 .. Never /\ NoEditor \in Editors /\ NoEditor.pc = "idle"
  BY <1>1, SlotsAreBounded DEF NoEditor, Editors
<1>4. editor.set \in 0 .. Never /\ editor.input \in {"rename", "on", "off", "crons"}
  BY <1>1 DEF Editors
<1>5. \A t : Again(t) \subseteq Slots /\ Replaced(t) \subseteq Slots
  BY DEF Again, Replaced
<1>6. Edit => edits' = edits + 1
  BY DEF Edit
<1>7. ASSUME blows' = blows \/ Blow PROVE blows <= blows'
  BY <1>2, <1>7, BlowsAreCounted
<1>8. CASE Tick
  <2>1. UNCHANGED <<routineRow, wake, waker, editor, fired, putBack, dropped, edits, blows>>
    BY <1>8 DEF Tick
  <2>2. clock' \in 0 .. LastSlot
    BY <1>1, <1>2, <1>8 DEF Tick
  <2>3. RoutineBounds'
    <3>1. RowBounds'
      BY <1>1, <2>1, <2>2 DEF RowBounds, routineRow
    <3>2. HandBounds' /\ NoteBounds'
      BY <2>1 DEF RoutineBounds, HandBounds, NoteBounds
    <3> QED
      BY <3>1, <3>2 DEF RoutineBounds
  <2>4. Editing' = Editing /\ \A s : DueBy(s)' = DueBy(s)
    BY <2>1 DEF Editing, DueBy, routineRow
  <2>5. \A s \in Slots : DueBy(s)' + Editing' - edits' <= DueBy(s) + Editing - edits
    BY <1>2, <2>1, <2>4
  <2> QED
    BY <1>2, <2>1, <2>3, <2>5, EditsMove
<1>9. CASE RearmDue
  <2>1. wake' = nextRunAt /\ UNCHANGED <<routineRow, clock, waker, editor, fired, putBack, dropped, edits, blows>>
    BY <1>9 DEF RearmDue
  <2>3. RoutineBounds'
    <3>1. RowBounds'
      BY <1>1, <2>1 DEF RowBounds, routineRow
    <3>2. HandBounds' /\ NoteBounds'
      BY <2>1 DEF RoutineBounds, HandBounds, NoteBounds
    <3> QED
      BY <3>1, <3>2 DEF RoutineBounds
  <2>4. Editing' = Editing /\ \A s : DueBy(s)' = DueBy(s)
    BY <2>1 DEF Editing, DueBy, routineRow
  <2>5. \A s \in Slots : DueBy(s)' + Editing' - edits' <= DueBy(s) + Editing - edits
    BY <1>2, <2>1, <2>4
  <2> QED
    BY <1>2, <2>1, <2>3, <2>5, EditsMove
<1>10. CASE WriteEdit
  <2>1. editor.pc = "write" /\ editor' = NoEditor /\ UNCHANGED <<clock, waker, fired, edits>>
    BY <1>10 DEF WriteEdit
  <2>2. blows' = blows \/ Blow
    BY <1>10 DEF WriteEdit
  <2>3. Editing = 1 /\ Editing' = 0
    BY <1>3, <2>1 DEF Editing
  <2>4. /\ active' \in BOOLEAN /\ nextRunAt' \in 0 .. Never /\ wake' \in 0 .. Never
        /\ kind' = kind /\ lastRunAt' = lastRunAt
        /\ putBack' \subseteq Slots /\ dropped' \subseteq Slots
    <3>1. CASE UNCHANGED <<routineRow, wake, putBack, dropped>>
      BY <1>1, <3>1 DEF routineRow
    <3>2. CASE kind # "removed"
      <4>1. /\ nextRunAt' = editor.set
            /\ active' = CASE editor.input = "on" -> TRUE [] editor.input = "off" -> FALSE
                         [] OTHER -> active
            /\ putBack' = putBack \cup Again(editor.set) /\ dropped' = dropped \cup Replaced(editor.set)
            /\ UNCHANGED <<kind, lastRunAt>>
        BY <1>10, <3>2 DEF WriteEdit
      <4>2. wake' \in {wake, nextRunAt', None}
        BY <1>10, <3>2 DEF WriteEdit
      <4>3. active' \in BOOLEAN
        BY <1>1, <4>1
      <4> QED
        BY <1>1, <1>3, <1>4, <1>5, <4>1, <4>2, <4>3
    <3> QED
      BY <1>10, <3>1, <3>2 DEF WriteEdit
  <2>5. RoutineBounds'
    <3>1. RowBounds'
      BY <1>1, <2>1, <2>4 DEF RowBounds
    <3>2. HandBounds'
      BY <1>1, <1>3, <2>1 DEF HandBounds
    <3> QED
      BY <2>1, <2>2, <2>4, <3>1, <3>2, NotesStayBounded DEF RoutineBounds
  <2>6. \A s \in Slots : DueBy(s)' + Editing' - edits' <= DueBy(s) + Editing - edits
    BY <1>2, <2>1, <2>3
  <2> QED
    BY <1>7, <2>1, <2>2, <2>5, <2>6, EditsMove
<1>11. CASE RemoveRoutine \/ ArchiveOwner
  <2>1. /\ active' = FALSE /\ nextRunAt' = None /\ wake' = None /\ Edit
        /\ kind' \in {kind, "removed"}
        /\ dropped' = dropped \cup Replaced(None)
        /\ UNCHANGED <<lastRunAt, clock, waker, editor, fired, putBack, blows>>
    BY <1>11 DEF RemoveRoutine, ArchiveOwner
  <2>2. RoutineBounds'
    <3>1. RowBounds'
      BY <1>1, <1>3, <2>1 DEF RowBounds
    <3>2. HandBounds'
      BY <1>1, <2>1 DEF HandBounds
    <3>3. dropped' \subseteq Slots /\ putBack' \subseteq Slots
      BY <1>1, <1>5, <2>1
    <3> QED
      BY <2>1, <3>1, <3>2, <3>3, NotesStayBounded DEF RoutineBounds
  <2>3. Editing' = Editing /\ \A s : DueBy(s)' = 0
    BY <2>1 DEF Editing, DueBy
  <2>4. \A s \in Slots : DueBy(s)' + Editing' - edits' <= DueBy(s) + Editing - edits
    BY <1>2, <1>6, <2>1, <2>3
  <2> QED
    BY <1>2, <2>1, <2>2, <2>4, EditsMove
<1>12. ASSUME NEW enabled \in BOOLEAN, SyncCheckIn(enabled)
       PROVE  RoutineBounds' /\ SlotCounts'
  <2> DEFINE date == IF enabled THEN SlotAfter(clock) ELSE None
  <2>1. /\ nextRunAt' = date /\ active' = enabled /\ Edit /\ wake' \in {date, wake}
        /\ dropped' = dropped \cup Replaced(date) /\ putBack' = putBack \cup Again(date)
        /\ UNCHANGED <<kind, lastRunAt, clock, waker, editor, fired>>
    BY <1>12 DEF SyncCheckIn
  <2>2. blows' = blows \/ Blow
    BY <1>12 DEF SyncCheckIn
  <2>3. date \in 0 .. Never
    BY <1>3
  <2> HIDE DEF date
  <2>4. RoutineBounds'
    <3>1. RowBounds'
      <4>1. active' \in BOOLEAN
        BY <2>1
      <4> QED
        BY <1>1, <2>1, <2>3, <4>1 DEF RowBounds
    <3>2. HandBounds'
      BY <1>1, <2>1 DEF HandBounds
    <3>3. dropped' \subseteq Slots /\ putBack' \subseteq Slots
      BY <1>1, <1>5, <2>1
    <3> QED
      BY <2>1, <2>2, <3>1, <3>2, <3>3, NotesStayBounded DEF RoutineBounds
  <2>5. Editing' = Editing
    BY <2>1 DEF Editing
  <2>6. \A s \in Slots : DueBy(s)' + Editing' - edits' <= DueBy(s) + Editing - edits
    BY <1>2, <1>6, <2>1, <2>5
  <2> QED
    BY <1>7, <2>1, <2>2, <2>4, <2>6, EditsMove
<1>13. ASSUME NEW input \in {"rename", "on", "off", "crons"}, ReadForEdit(input)
       PROVE  RoutineBounds' /\ SlotCounts'
  <2>1. /\ editor.pc = "idle" /\ Edit
        /\ UNCHANGED <<routineRow, clock, wake, waker, fired, putBack, dropped, blows>>
    BY <1>13 DEF ReadForEdit
  <2>2. /\ editor'.pc = "write" /\ editor' \in Editors
    <3> DEFINE on == input # "off" /\ (input = "on" \/ active)
               changed == (~active /\ on) \/ input = "crons"
               date == IF ~on THEN None
                       ELSE IF kind = "once"
                       THEN IF nextRunAt = None /\ ~lastRunAt THEN SlotAfter(clock) ELSE nextRunAt
                       ELSE IF changed \/ nextRunAt = None THEN SlotAfter(clock) ELSE nextRunAt
               sync == changed \/ active # on \/ (nextRunAt = None /\ date # None)
    <3>1. editor' = [pc |-> "write", input |-> input, set |-> date, sync |-> sync]
      BY <1>13 DEF ReadForEdit
    <3>2. date \in {None, SlotAfter(clock), nextRunAt}
      OBVIOUS
    <3>3. sync \in BOOLEAN
      OBVIOUS
    <3> HIDE DEF date, sync
    <3>4. date \in 0 .. Never
      BY <1>1, <1>3, <3>2
    <3> QED
      BY <3>1, <3>3, <3>4 DEF Editors
  <2>3. RoutineBounds'
    <3>1. RowBounds'
      BY <1>1, <2>1 DEF RowBounds, routineRow
    <3>2. HandBounds'
      BY <1>1, <2>1, <2>2 DEF HandBounds
    <3> QED
      BY <1>1, <2>1, <3>1, <3>2, NotesStayBounded DEF RoutineBounds
  <2>4. Editing = 0 /\ Editing' = 1 /\ \A s : DueBy(s)' = DueBy(s)
    BY <2>1, <2>2 DEF Editing, DueBy, routineRow
  <2>5. \A s \in Slots : DueBy(s)' + Editing' - edits' <= DueBy(s) + Editing - edits
    BY <1>2, <1>6, <2>1, <2>4
  <2> QED
    BY <1>2, <2>1, <2>3, <2>5, EditsMove
<1> QED
  BY <1>8, <1>9, <1>10, <1>11, <1>12, <1>13

LEMMA CountsHold == RoutineSpec => [](RoutineInv /\ RoutineBounds /\ SlotCounts)
<1>1. RoutineInv /\ RoutineBounds /\ SlotCounts /\ [RoutineNext]_routineVars
        => RoutineBounds' /\ SlotCounts'
  <2> SUFFICES ASSUME RoutineInv, RoutineBounds, SlotCounts, [RoutineNext]_routineVars
               PROVE  RoutineBounds' /\ SlotCounts'
    OBVIOUS
  <2>1. CASE UNCHANGED routineVars
    <3>1. RoutineBounds'
      BY <2>1 DEF routineVars, RoutineBounds, RowBounds, HandBounds, NoteBounds
    <3>2. Compensating' = Compensating /\ \A s : Claiming(s)' = Claiming(s) /\ DueBy(s)' = DueBy(s)
      BY <2>1 DEF routineVars, Compensating, Claiming, Claims, Undoes, DueBy
    <3>3. Editing' = Editing /\ UNCHANGED <<fired, edits, blows>>
      BY <2>1 DEF routineVars, Editing
    <3> QED
      BY <3>1, <3>2, <3>3 DEF SlotCounts, CountedSlot
  <2>2. ASSUME NEW w \in Wakers, TakeWake(w) \/ WakerStep(w) \/ TakeRoutineRun(w) \/ WakerDies(w)
        PROVE  RoutineBounds' /\ SlotCounts'
    <3>1. RoutineBounds'
      BY <2>2, WakersAreBounded
    <3> QED
      BY <2>2, <3>1, HandlersAreCounted, ClaimsAreCounted, UndosAreCounted, Zenon DEF WakerStep
  <2> QED
    BY <2>1, <2>2, EditsAreCounted, Zenon DEF RoutineNext
<1> QED
  BY <1>1, BoundsFirst, RoutinesHold, PTL DEF RoutineSpec

\* For any handlers, slots, edits and failures: every variable stays within its type.  A slot
\* has no more runs than edits and failures have made it due again, and one more; and never
\* fewer than none, however its claims are taken back.
THEOREM RoutineTypeCorrect == RoutineSpec => []RoutineTypeOK
<1>1. RoutineInv /\ RoutineBounds /\ SlotCounts => RoutineTypeOK
  <2> SUFFICES ASSUME RoutineInv, RoutineBounds, SlotCounts PROVE RoutineTypeOK
    OBVIOUS
  <2>1. ASSUME NEW s \in Slots PROVE fired[s] \in 0 .. MaxEdits + MaxBlows + 1
    <3>1. /\ IsFiniteSet(Claiming(s)) /\ Cardinality(Claiming(s)) <= fired[s]
          /\ fired[s] + DueBy(s) + Editing + Cardinality(Compensating) <= 1 + edits + blows
          /\ IsFiniteSet(Compensating)
      BY DEF SlotCounts, CountedSlot
    <3>2. Cardinality(Claiming(s)) \in Nat /\ Cardinality(Compensating) \in Nat
      BY <3>1, FS_CardinalityType
    <3>3. DueBy(s) \in Nat /\ Editing \in Nat /\ fired[s] \in Int
      BY DEF DueBy, Editing, RoutineInv, RoutineTypes
    <3>4. edits \in 0 .. MaxEdits /\ blows \in 0 .. MaxBlows /\ MaxEdits \in Nat /\ MaxBlows \in Nat
      BY RoutineAssumption DEF RoutineBounds, NoteBounds
    <3> QED
      BY <3>1, <3>2, <3>3, <3>4
  <2>2. fired \in [Slots -> 0 .. MaxEdits + MaxBlows + 1]
    BY <2>1 DEF RoutineInv, RoutineTypes
  <2> QED
    BY <2>2 DEF RoutineBounds, RowBounds, HandBounds, NoteBounds, BoundedWakers, Editors, RoutineTypeOK
<1> QED
  BY <1>1, CountsHold, PTL

-----------------------------------------------------------------------------
(* Cloud agents *)

PollPcs == {"idle", "claim", "decide", "launch", "reply", "finish", "release"}
PollRecs == [pc : PollPcs, current : BOOLEAN, seen : AgentRows, out : Results]

\* What a poll has read when it calls: a due agent, with or without a remote one.
SeenInv ==
  \A p \in Polls :
    /\ poll[p].pc # "idle" => poll[p].seen.due
    /\ poll[p].pc = "launch" => ~poll[p].seen.remote
    /\ poll[p].pc = "reply" => poll[p].seen.remote

AgentTypes == CloudAgentTypeOK /\ SeenInv

\* p would still pass its fence, and has claimed the lease itself.
Fenced(p) == lease = p /\ poll[p].current /\ poll[p].pc \in {"decide", "launch", "reply", "finish"}
NoneAt(pc) == \A p \in Polls : poll[p].pc # pc

\* What a fenced poll has read is the row, but for the marks it made itself.
ReadIsRow ==
  \A p \in Polls : Fenced(p) =>
    /\ agent = [poll[p].seen EXCEPT !.dispatched = agent.dispatched, !.sending = agent.sending]
    /\ poll[p].pc = "decide" => agent = poll[p].seen

\* No call reaches the provider without its mark in the row.
MarkedFirst ==
  /\ launched <=> runs > 0
  /\ launched => accepts /\ agent.dispatched
  /\ busy => launched
  /\ NoneAt("launch") \/ agent.dispatched
  /\ agent.status = "none" => agent = NoAgent /\ \A p \in Polls : poll[p].pc = "idle"
  /\ agent.sending => agent.followup
  /\ agent.followup => agent.due
  /\ agent.due \/ ~busy
  /\ agent.due \/ NoneAt("launch") \/ launched \/ ~accepts

\* The row knows all runs of the provider, except one whose follow-up is marked as being sent.
RunsKnown ==
  /\ ~agent.remote =>
       runs <= 1 /\ agent.generation = 0 /\ ~agent.followup /\ NoneAt("reply")
  /\ agent.remote =>
       /\ launched /\ agent.latest > 0 /\ agent.latest <= agent.generation + 1
       /\ agent.followup => agent.latest <= agent.generation
       /\ agent.latest = runs \/ (agent.sending /\ runs = agent.latest + 1 /\ NoneAt("reply"))
       /\ NoneAt("reply") \/ agent.sending
       /\ agent.followup /\ agent.latest = runs => ~busy

OneReply == \A p, q \in Polls : poll[p].pc = "reply" /\ poll[q].pc = "reply" => p = q

\* What a fenced poll is about to write is what the provider has.
ResultHolds(p) ==
  LET out == poll[p].out IN
  /\ out.remote => out.latest = runs /\ NoneAt("reply") /\ launched /\ out.latest <= agent.generation + 1
  /\ ~out.remote => out.ended /\ ~launched /\ ~agent.remote /\ (~accepts \/ NoneAt("launch"))
  /\ out.ended => ~busy
ResultInv == \A p \in Polls : Fenced(p) /\ poll[p].pc = "finish" => ResultHolds(p)

Strong == ReadIsRow /\ MarkedFirst /\ RunsKnown /\ OneReply /\ ResultInv
AgentInv == AgentTypes /\ (stale \/ Strong)

-----------------------------------------------------------------------------
(* The types *)

LEMMA NothingYet ==
  /\ NewAgent \in AgentRows /\ NoAgent \in AgentRows /\ NoPoll \in PollRecs
  /\ NoAgent.status = "none" /\ NoAgent.due = FALSE /\ NoAgent.cancel = FALSE
  /\ NoPoll.pc = "idle"
<1>1. 0 \in 0 .. MaxPrompts /\ 0 \in 0 .. MaxPrompts + 1 /\ 0 \in Nat
  BY CloudAgentAssumption
<1>2. NewAgent \in AgentRows
  BY <1>1 DEF NewAgent, AgentRows
<1>3. NoAgent \in AgentRows /\ NoAgent.status = "none" /\ NoAgent.due = FALSE /\ NoAgent.cancel = FALSE
  BY <1>2 DEF NoAgent, NewAgent, AgentRows
<1>4. NoResult \in Results
  BY <1>1 DEF NoResult, Results
<1>5. NoPoll \in PollRecs /\ NoPoll.pc = "idle"
  BY <1>2, <1>4 DEF NoPoll, PollRecs, PollPcs
<1> QED
  BY <1>2, <1>3, <1>5

LEMMA AgentTypesAre ==
  CloudAgentTypeOK <=>
    /\ agent \in AgentRows /\ lease \in Polls \cup {Free} /\ attached \in BOOLEAN
    /\ poll \in [Polls -> PollRecs]
    /\ accepts \in BOOLEAN /\ launched \in BOOLEAN /\ runs \in Nat /\ busy \in BOOLEAN
    /\ stale \in BOOLEAN /\ cancels \in 0 .. MaxCancels /\ troubles \in 0 .. MaxTroubles
    /\ agent.due <=> agent.status = "running" \/ agent.cancel
BY DEF CloudAgentTypeOK, PollRecs, PollPcs

LEMMA AgentStarts == CloudAgentInit => AgentInv
<1> SUFFICES ASSUME CloudAgentInit PROVE AgentInv
  OBVIOUS
<1>1. \A p \in Polls : poll[p].pc = "idle" /\ poll \in [Polls -> PollRecs]
  BY NothingYet DEF CloudAgentInit
<1>2. CloudAgentTypeOK
  <2>1. agent \in AgentRows /\ (agent.due <=> agent.status = "running" \/ agent.cancel)
    BY NothingYet DEF CloudAgentInit
  <2>2. attached \in BOOLEAN /\ accepts \in BOOLEAN /\ launched \in BOOLEAN /\ busy \in BOOLEAN /\ stale \in BOOLEAN
    BY Zenon DEF CloudAgentInit
  <2>3. 0 \in 0 .. MaxCancels /\ 0 \in 0 .. MaxTroubles
    BY CloudAgentAssumption
  <2>4. poll \in [Polls -> PollRecs]
    BY NothingYet DEF CloudAgentInit
  <2> QED
    BY <2>1, <2>2, <2>3, <2>4, AgentTypesAre DEF CloudAgentInit
<1>3. SeenInv
  BY <1>1 DEF SeenInv
<1>4. /\ ~agent.remote /\ ~agent.followup /\ ~agent.sending /\ ~agent.due /\ agent.generation = 0
      /\ ~launched /\ runs = 0 /\ ~busy /\ agent = NoAgent
  BY DEF CloudAgentInit, NoAgent, NewAgent
<1>5. Strong
  <2>1. \A p \in Polls : ~Fenced(p)
    BY <1>1 DEF Fenced
  <2>2. ReadIsRow /\ ResultInv /\ OneReply
    BY <1>1, <2>1 DEF ReadIsRow, ResultInv, OneReply
  <2>3. MarkedFirst
    BY <1>1, <1>4 DEF MarkedFirst, NoneAt
  <2>4. RunsKnown
    BY <1>1, <1>4 DEF RunsKnown, NoneAt
  <2> QED
    BY <2>2, <2>3, <2>4 DEF Strong
<1> QED
  BY <1>2, <1>3, <1>5 DEF AgentInv, AgentTypes

\* The types of a step that leaves the row alone and moves one poll.
LEMMA PollTyped ==
  ASSUME AgentTypes, NEW p \in Polls, NEW rec \in PollRecs, poll' = [poll EXCEPT ![p] = rec],
         agent' = agent, attached' = attached, accepts' = accepts,
         rec.pc # "idle" => rec.seen.due,
         rec.pc = "launch" => ~rec.seen.remote, rec.pc = "reply" => rec.seen.remote,
         lease' \in Polls \cup {Free}, launched' \in BOOLEAN, runs' \in Nat, busy' \in BOOLEAN,
         stale' \in BOOLEAN, cancels' = cancels, troubles' \in 0 .. MaxTroubles
  PROVE  /\ AgentTypes' /\ poll'[p] = rec
         /\ \A q \in Polls \ {p} : poll'[q] = poll[q]
<1> USE AgentTypesAre DEF AgentTypes
<1>1. poll' \in [Polls -> PollRecs] /\ poll'[p] = rec /\ \A q \in Polls \ {p} : poll'[q] = poll[q]
  OBVIOUS
<1>2. CloudAgentTypeOK'
  BY <1>1 DEF CloudAgentTypeOK, PollRecs, PollPcs
<1>3. SeenInv'
  BY <1>1 DEF SeenInv
<1> QED
  BY <1>1, <1>2, <1>3

-----------------------------------------------------------------------------
(* Steps that call nobody *)

\* Polls stop, lose their lease or version, or begin anew, and runs end: nothing is left to show.
LEMMA FewerAtWork ==
  ASSUME AgentTypes, Strong, agent' = agent, accepts' = accepts, launched' = launched, runs' = runs,
         busy' => busy,
         \A q \in Polls : poll'[q].pc = poll[q].pc \/ poll'[q].pc \in {"idle", "claim", "release"},
         \A q \in Polls : Fenced(q)' => Fenced(q) /\ poll'[q] = poll[q],
         agent.status = "none" => \A q \in Polls : poll'[q].pc = "idle"
  PROVE  Strong'
<1> USE DEF Strong
<1>1. ReadIsRow'
  BY DEF ReadIsRow
<1>2. (NoneAt("launch") => NoneAt("launch")') /\ (NoneAt("reply") => NoneAt("reply")')
  BY DEF NoneAt
<1>3. MarkedFirst'
  BY <1>2 DEF MarkedFirst
<1>4. RunsKnown'
  BY <1>2 DEF RunsKnown
<1>5. OneReply'
  BY DEF OneReply
<1>6. ASSUME NEW q \in Polls, Fenced(q)', poll'[q].pc = "finish" PROVE ResultHolds(q)'
  <2>1. poll'[q] = poll[q] /\ ResultHolds(q)
    BY <1>6 DEF ResultInv
  <2> QED
    BY <1>2, <2>1 DEF ResultHolds
<1>7. ResultInv'
  BY <1>6 DEF ResultInv
<1> QED
  BY <1>1, <1>3, <1>4, <1>5, <1>7

\* A poll stops or begins anew.
LEMMA PollRests ==
  ASSUME AgentInv, NEW p \in Polls, NEW rec \in PollRecs, poll' = [poll EXCEPT ![p] = rec],
         rec.pc = "idle" \/ (rec.pc \in {"claim", "release"} /\ rec.seen.due /\ agent.due),
         lease' \in {lease, Free}, UNCHANGED <<agent, attached, accepts, launched, runs, stale, cancels>>,
         busy' \in BOOLEAN, busy' => busy, troubles' \in 0 .. MaxTroubles
  PROVE  AgentInv'
<1>1. AgentTypes /\ CloudAgentTypeOK
  BY DEF AgentInv, AgentTypes
<1>2. AgentTypes' /\ poll'[p] = rec /\ \A q \in Polls \ {p} : poll'[q] = poll[q]
  <2>1. lease' \in Polls \cup {Free} /\ launched' \in BOOLEAN /\ runs' \in Nat /\ stale' \in BOOLEAN
    BY <1>1, AgentTypesAre
  <2> QED
    BY <1>1, <2>1, PollTyped
<1>3. ASSUME Strong PROVE Strong'
  <2>1. \A q \in Polls : poll'[q].pc = poll[q].pc \/ poll'[q].pc \in {"idle", "claim", "release"}
    BY <1>2
  <2>2. \A q \in Polls : Fenced(q)' => Fenced(q) /\ poll'[q] = poll[q]
    BY <1>2, CloudAgentAssumption DEF Fenced
  <2>3. agent.status = "none" => rec.pc = "idle"
    BY <1>3 DEF Strong, MarkedFirst, NoAgent, NewAgent
  <2>4. agent.status = "none" => \A q \in Polls : poll'[q].pc = "idle"
    BY <1>2, <1>3, <2>3 DEF Strong, MarkedFirst
  <2> QED
    BY <1>1, <1>3, <2>1, <2>2, <2>4, FewerAtWork
<1> QED
  BY <1>2, <1>3 DEF AgentInv

LEMMA PollIs ==
  ASSUME AgentInv, NEW p \in Polls
  PROVE  /\ poll[p] \in PollRecs /\ poll[p].seen \in AgentRows /\ poll[p].out \in Results
         /\ poll[p].pc # "idle" => poll[p].seen.due
         /\ poll[p].pc = "launch" => ~poll[p].seen.remote
         /\ poll[p].pc = "reply" => poll[p].seen.remote
         /\ AgentTypes /\ agent \in AgentRows
<1>1. AgentTypes /\ SeenInv
  BY DEF AgentInv, AgentTypes
<1>2. poll[p] \in PollRecs /\ agent \in AgentRows
  BY <1>1, AgentTypesAre DEF AgentTypes
<1> QED
  BY <1>1, <1>2 DEF PollRecs, SeenInv

LEMMA TroubleCounts == AgentTypes /\ (Trouble \/ UNCHANGED troubles) => troubles' \in 0 .. MaxTroubles
BY AgentTypesAre, CloudAgentAssumption DEF AgentTypes, Trouble

LEMMA ReadAgentKeeps ==
  ASSUME AgentInv, NEW p \in Polls, ReadAgent(p)
  PROVE  AgentInv'
<1> DEFINE rec == [NoPoll EXCEPT !.pc = "claim", !.current = TRUE, !.seen = agent]
<1>1. AgentTypes /\ agent \in AgentRows
  BY PollIs
<1>2. rec \in PollRecs /\ rec.pc = "claim" /\ rec.seen = agent
  BY <1>1, NothingYet DEF PollRecs, PollPcs
<1>3. poll' = [poll EXCEPT ![p] = rec] /\ agent.due
  BY DEF ReadAgent
<1>4. busy \in BOOLEAN /\ troubles' \in 0 .. MaxTroubles
  BY <1>1, AgentTypesAre DEF AgentTypes, ReadAgent
<1> HIDE DEF rec
<1> QED
  BY <1>2, <1>3, <1>4, PollRests DEF ReadAgent, cloud

\* The lease was free, so that the poll is the only one fenced.
LEMMA ClaimLeaseKeeps ==
  ASSUME AgentInv, NEW p \in Polls, ClaimLease(p)
  PROVE  AgentInv'
<1>1. /\ AgentTypes /\ CloudAgentTypeOK /\ poll[p] \in PollRecs /\ poll[p].seen.due
      /\ troubles \in 0 .. MaxTroubles /\ busy \in BOOLEAN /\ poll[p].pc = "claim"
  BY PollIs, AgentTypesAre DEF AgentTypes, ClaimLease
<1>2. CASE ~(poll[p].current /\ lease = Free)
  BY <1>1, <1>2, NothingYet, PollRests DEF ClaimLease, cloud
<1>3. CASE poll[p].current /\ lease = Free
  <2> DEFINE rec == [poll[p] EXCEPT !.pc = "decide"]
  <2>1. /\ poll' = [poll EXCEPT ![p] = rec] /\ lease' = p /\ stale' = (stale \/ poll[p].seen # agent)
        /\ UNCHANGED <<agent, attached, accepts, launched, runs, busy, cancels, troubles>>
    BY <1>1, <1>3 DEF ClaimLease, PollTo, cloud
  <2>2. rec \in PollRecs /\ rec.pc = "decide" /\ rec.seen = poll[p].seen
    BY <1>1 DEF PollRecs, PollPcs
  <2> HIDE DEF rec
  <2>3. AgentTypes' /\ poll'[p] = rec /\ \A q \in Polls \ {p} : poll'[q] = poll[q]
    <3>1. launched' \in BOOLEAN /\ runs' \in Nat /\ stale' \in BOOLEAN /\ busy' \in BOOLEAN
      BY <1>1, <2>1, AgentTypesAre
    <3> QED
      BY <1>1, <2>1, <2>2, <3>1, PollTyped
  <2>4. ASSUME ~stale' PROVE Strong'
    <3>1. Strong /\ poll[p].seen = agent
      BY <2>1, <2>4 DEF AgentInv
    <3> USE DEF Strong
    <3>2. \A q \in Polls : Fenced(q)' => q = p
      BY <2>1 DEF Fenced
    <3>3. (NoneAt("launch") => NoneAt("launch")') /\ (NoneAt("reply") => NoneAt("reply")')
      BY <2>2, <2>3 DEF NoneAt
    <3>4. ReadIsRow'
      <4>1. agent = [agent EXCEPT !.dispatched = agent.dispatched, !.sending = agent.sending]
        BY <1>1, AgentTypesAre DEF AgentRows
      <4> QED
        BY <2>1, <2>2, <2>3, <3>1, <3>2, <4>1 DEF ReadIsRow
    <3>5. MarkedFirst'
      BY <1>1, <2>1, <3>1, <3>3 DEF MarkedFirst
    <3>6. RunsKnown'
      BY <2>1, <3>1, <3>3 DEF RunsKnown
    <3>7. OneReply'
      BY <2>2, <2>3, <3>1 DEF OneReply
    <3>8. ResultInv'
      BY <2>2, <2>3, <3>2 DEF ResultInv
    <3> QED
      BY <3>4, <3>5, <3>6, <3>7, <3>8
  <2> QED
    BY <2>3, <2>4 DEF AgentInv
<1> QED
  BY <1>2, <1>3

LEMMA ReleaseKeeps ==
  ASSUME AgentInv, NEW p \in Polls, Release(p) \/ PollDies(p)
  PROVE  AgentInv'
<1>1. AgentTypes /\ CloudAgentTypeOK
  BY PollIs DEF AgentTypes
<1>2. lease' \in {lease, Free} /\ busy' = busy /\ busy \in BOOLEAN /\ troubles' \in 0 .. MaxTroubles
  BY <1>1, AgentTypesAre, TroubleCounts DEF Release, PollDies, Released, cloud
<1> QED
  BY <1>2, NothingYet, PollRests DEF Release, PollDies, cloud

\* Leases expire, runs end and the thread goes away beside the polls.
LEMMA OutsideKeeps ==
  ASSUME AgentInv, ExpireLease \/ RunEnds \/ Detach
  PROVE  AgentInv'
<1>1. AgentTypes /\ CloudAgentTypeOK /\ SeenInv
  BY DEF AgentInv, AgentTypes
<1>2. /\ lease' \in {lease, Free} /\ (busy' => busy) /\ busy' \in BOOLEAN /\ attached' \in BOOLEAN
      /\ troubles' \in 0 .. MaxTroubles
      /\ UNCHANGED <<agent, poll, accepts, launched, runs, stale, cancels>>
  <2>1. CASE ExpireLease
    BY <1>1, <2>1, AgentTypesAre, TroubleCounts DEF ExpireLease, cloud
  <2>2. CASE RunEnds
    BY <1>1, <2>2, AgentTypesAre DEF RunEnds
  <2>3. CASE Detach
    BY <1>1, <2>3, AgentTypesAre DEF Detach, cloud
  <2> QED
    BY <2>1, <2>2, <2>3
<1>3. AgentTypes'
  BY <1>1, <1>2 DEF AgentTypes, CloudAgentTypeOK, SeenInv
<1>4. ASSUME Strong PROVE Strong'
  <2>1. \A q \in Polls : Fenced(q)' => Fenced(q)
    BY <1>2, CloudAgentAssumption DEF Fenced
  <2>2. agent.status = "none" => \A q \in Polls : poll'[q].pc = "idle"
    BY <1>2, <1>4 DEF Strong, MarkedFirst
  <2> QED
    BY <1>1, <1>2, <1>4, <2>1, <2>2, FewerAtWork
<1> QED
  BY <1>2, <1>3, <1>4 DEF AgentInv

-----------------------------------------------------------------------------
(* Calls to the provider *)

\* An answer to p, or none, that does not change what the provider runs.
LEMMA AnswerKeeps ==
  ASSUME AgentTypes, Strong, AgentTypes', NEW p \in Polls,
         poll[p].pc \in {"decide", "launch", "reply"}, poll'[p].pc \in {"finish", "release"},
         poll'[p].current = poll[p].current, poll'[p].seen = poll[p].seen,
         \A q \in Polls \ {p} : poll'[q] = poll[q],
         agent' = agent, lease' = lease, accepts' = accepts, launched' = launched, runs' = runs,
         busy' => busy,
         Fenced(p) /\ poll'[p].pc = "finish" => ResultHolds(p)'
  PROVE  Strong'
<1> USE DEF Strong
<1>1. (NoneAt("launch") => NoneAt("launch")') /\ (NoneAt("reply") => NoneAt("reply")')
  BY DEF NoneAt
<1>2. \A q \in Polls : Fenced(q)' => Fenced(q)
  BY DEF Fenced
<1>3. ReadIsRow'
  <2>1. \A q \in Polls : poll'[q].seen = poll[q].seen /\ (poll'[q].pc = "decide" => poll[q].pc = "decide")
    OBVIOUS
  <2> QED
    BY <1>2, <2>1 DEF ReadIsRow
<1>4. agent.status # "none"
  BY DEF MarkedFirst
<1>5. MarkedFirst'
  BY <1>1, <1>4 DEF MarkedFirst
<1>6. RunsKnown'
  BY <1>1 DEF RunsKnown
<1>7. OneReply'
  BY DEF OneReply
<1>8. ASSUME NEW q \in Polls, Fenced(q)', poll'[q].pc = "finish" PROVE ResultHolds(q)'
  <2>1. CASE q = p
    BY <1>2, <1>8, <2>1
  <2>2. CASE q # p
    <3>1. poll'[q] = poll[q] /\ ResultHolds(q)
      BY <1>2, <1>8, <2>2 DEF ResultInv
    <3> QED
      BY <1>1, <3>1 DEF ResultHolds
  <2> QED
    BY <2>1, <2>2
<1>9. ResultInv'
  BY <1>8 DEF ResultInv
<1> QED
  BY <1>3, <1>5, <1>6, <1>7, <1>9

\* The record p has after it was answered, or not.
Answered(p, ended, latest, cancel) ==
  [poll[p] EXCEPT !.pc = "finish",
    !.out = [ended |-> ended, remote |-> latest > 0 \/ poll[p].seen.remote,
             latest |-> IF latest > 0 THEN latest ELSE poll[p].seen.latest, cancel |-> cancel]]
Unanswered(p) == [poll[p] EXCEPT !.pc = "release"]

LEMMA AnsweredIs ==
  ASSUME AgentInv, NEW p \in Polls, poll[p].pc # "idle",
         NEW ended \in BOOLEAN, NEW latest \in Nat, NEW cancel \in BOOLEAN
  PROVE  LET rec == Answered(p, ended, latest, cancel) IN
         /\ rec \in PollRecs /\ rec.pc = "finish" /\ rec.current = poll[p].current /\ rec.seen = poll[p].seen
         /\ rec.out.ended = ended /\ (rec.out.remote <=> latest > 0 \/ poll[p].seen.remote)
         /\ rec.out.latest = IF latest > 0 THEN latest ELSE poll[p].seen.latest
<1>1. poll[p] \in PollRecs /\ poll[p].seen \in AgentRows
  BY PollIs
<1>2. poll[p].seen.latest \in Nat /\ poll[p].seen.remote \in BOOLEAN
  BY <1>1 DEF AgentRows
<1> DEFINE out == [ended |-> ended, remote |-> latest > 0 \/ poll[p].seen.remote,
                   latest |-> IF latest > 0 THEN latest ELSE poll[p].seen.latest, cancel |-> cancel]
<1>3. out \in Results /\ out.ended = ended /\ (out.remote <=> latest > 0 \/ poll[p].seen.remote)
      /\ out.latest = IF latest > 0 THEN latest ELSE poll[p].seen.latest
  BY <1>2 DEF Results
<1> HIDE DEF out
<1> DEFINE rec == [poll[p] EXCEPT !.pc = "finish", !.out = out]
<1>4. rec \in PollRecs /\ rec.pc = "finish" /\ rec.current = poll[p].current /\ rec.seen = poll[p].seen
      /\ rec.out = out
  BY <1>1, <1>3 DEF PollRecs, PollPcs
<1>5. Answered(p, ended, latest, cancel) = rec
  BY DEF Answered, out
<1> QED
  BY <1>3, <1>4, <1>5

LEMMA UnansweredIs ==
  ASSUME AgentInv, NEW p \in Polls
  PROVE  LET rec == Unanswered(p) IN
         rec \in PollRecs /\ rec.pc = "release" /\ rec.current = poll[p].current /\ rec.seen = poll[p].seen
BY PollIs DEF Unanswered, PollRecs, PollPcs

\* Such a step as a whole.
LEMMA CallKeeps ==
  ASSUME AgentInv, NEW p \in Polls, poll[p].pc \in {"decide", "launch", "reply"},
         NEW rec \in PollRecs, poll' = [poll EXCEPT ![p] = rec],
         rec.pc \in {"finish", "release"}, rec.current = poll[p].current, rec.seen = poll[p].seen,
         UNCHANGED <<agent, lease, attached, accepts, launched, runs, stale, cancels>>,
         busy' \in BOOLEAN, busy' => busy, troubles' \in 0 .. MaxTroubles,
         Strong /\ Fenced(p) /\ rec.pc = "finish" => ResultHolds(p)'
  PROVE  AgentInv'
<1>1. AgentTypes /\ CloudAgentTypeOK /\ poll[p].seen.due
  BY PollIs DEF AgentTypes
<1>2. lease' \in Polls \cup {Free} /\ launched' \in BOOLEAN /\ runs' \in Nat /\ stale' \in BOOLEAN
  BY <1>1, AgentTypesAre
<1>3. AgentTypes' /\ poll'[p] = rec /\ \A q \in Polls \ {p} : poll'[q] = poll[q]
  BY <1>1, <1>2, PollTyped
<1>4. ASSUME Strong PROVE Strong'
  BY <1>1, <1>3, <1>4, AnswerKeeps
<1> QED
  BY <1>3, <1>4 DEF AgentInv

\* What a fenced poll that is about to call has read.
LEMMA FencedReads ==
  ASSUME AgentInv, Strong, NEW p \in Polls, Fenced(p)
  PROVE  /\ agent.due /\ agent.remote = poll[p].seen.remote /\ agent.latest = poll[p].seen.latest
         /\ agent.followup = poll[p].seen.followup /\ agent.cancel = poll[p].seen.cancel
         /\ poll[p].pc = "decide" => agent = poll[p].seen
         /\ \A q \in Polls : Fenced(q) => q = p
<1>1. poll[p].seen \in AgentRows /\ poll[p].seen.due /\ agent \in AgentRows
  BY PollIs DEF Fenced
<1>2. /\ agent = [poll[p].seen EXCEPT !.dispatched = agent.dispatched, !.sending = agent.sending]
      /\ poll[p].pc = "decide" => agent = poll[p].seen
  BY DEF Strong, ReadIsRow
<1>3. /\ agent.due = poll[p].seen.due /\ agent.remote = poll[p].seen.remote
      /\ agent.latest = poll[p].seen.latest /\ agent.followup = poll[p].seen.followup
      /\ agent.cancel = poll[p].seen.cancel
  BY <1>1, <1>2 DEF AgentRows
<1> QED
  BY <1>1, <1>2, <1>3 DEF Fenced

\* The answers and refusals of the provider that start nothing.
LEMMA AbandonKeeps ==
  ASSUME AgentInv, NEW p \in Polls, Abandon(p)
  PROVE  AgentInv'
<1> DEFINE rec == Answered(p, TRUE, 0, FALSE)
<1>1. poll' = [poll EXCEPT ![p] = rec]
  BY DEF Abandon, Result, Answered
<1>2. /\ AgentTypes /\ CloudAgentTypeOK /\ poll[p].pc = "decide" /\ poll[p].seen \in AgentRows
      /\ poll[p].seen.latest \in Nat
  BY PollIs DEF AgentTypes, Abandon, AgentRows
<1>3. /\ rec \in PollRecs /\ rec.pc = "finish" /\ rec.current = poll[p].current /\ rec.seen = poll[p].seen
      /\ rec.out.ended /\ (rec.out.remote <=> poll[p].seen.remote) /\ rec.out.latest = poll[p].seen.latest
  <2>1. TRUE \in BOOLEAN /\ FALSE \in BOOLEAN /\ 0 \in Nat /\ ~(0 > 0)
    OBVIOUS
  <2> QED
    BY <1>2, <2>1, AnsweredIs
<1> HIDE DEF rec
<1>4. ASSUME Strong, Fenced(p) PROVE ResultHolds(p)'
  <2>1. poll'[p] = rec /\ \A q \in Polls \ {p} : poll'[q] = poll[q]
    BY <1>1, <1>2, AgentTypesAre
  <2>2. agent = poll[p].seen
    BY <1>2, <1>4, FencedReads
  <2>3. (NoneAt("launch") => NoneAt("launch")') /\ (NoneAt("reply") => NoneAt("reply")')
    BY <1>3, <2>1 DEF NoneAt
  <2>4. CASE Unlaunched(p)
    <3>1. ~agent.remote /\ ~agent.dispatched
      BY <2>2, <2>4 DEF Unlaunched
    <3>2. NoneAt("launch") /\ ~launched /\ ~busy
      BY <1>4, <3>1 DEF Strong, MarkedFirst
    <3> QED
      BY <1>3, <2>1, <2>2, <2>3, <3>1, <3>2 DEF ResultHolds, Abandon, cloud
  <2>5. CASE poll[p].seen.remote /\ NotSent(p)
    <3>1. agent.remote /\ agent.followup /\ ~agent.sending
      BY <2>2, <2>5 DEF NotSent
    <3>2. agent.latest = runs /\ NoneAt("reply") /\ launched /\ ~busy /\ agent.latest <= agent.generation + 1
      BY <1>4, <3>1 DEF Strong, RunsKnown
    <3> QED
      BY <1>3, <2>1, <2>2, <2>3, <3>1, <3>2 DEF ResultHolds, Abandon, cloud
  <2> QED
    BY <2>4, <2>5 DEF Abandon
<1>5. UNCHANGED <<agent, lease, attached, accepts, launched, runs, stale, cancels, busy, troubles>>
  BY DEF Abandon, cloud
<1>6. busy' \in BOOLEAN /\ (busy' => busy) /\ troubles' \in 0 .. MaxTroubles
  BY <1>2, <1>5, AgentTypesAre
<1> QED
  BY <1>1, <1>2, <1>3, <1>4, <1>5, <1>6, CallKeeps

\* The poll asks for its run, and may cancel it.
LEMMA AskKeeps ==
  ASSUME AgentInv, NEW p \in Polls, CancelRemote(p) \/ Watch(p)
  PROVE  AgentInv'
<1>1. /\ AgentTypes /\ CloudAgentTypeOK /\ poll[p].pc = "decide" /\ poll[p].seen \in AgentRows
      /\ poll[p].seen.latest \in Nat /\ busy \in BOOLEAN /\ runs \in Nat
  BY PollIs, AgentTypesAre DEF AgentTypes, CancelRemote, Watch, AgentRows
<1>2. /\ poll[p].seen.remote /\ ~NotSent(p) /\ busy' \in {busy, FALSE}
      /\ UNCHANGED <<agent, lease, attached, accepts, launched, runs, stale, cancels>>
  BY DEF CancelRemote, Watch
<1>3. busy' \in BOOLEAN /\ (busy' => busy) /\ troubles' \in 0 .. MaxTroubles
  <2>1. Trouble \/ UNCHANGED troubles
    BY DEF CancelRemote, Watch
  <2>2. troubles' \in 0 .. MaxTroubles
    BY <1>1, <2>1, TroubleCounts
  <2>3. CASE busy' = busy
    BY <1>1, <2>2, <2>3
  <2>4. CASE busy' = FALSE
    BY <2>2, <2>4, Zenon
  <2>5. busy' = busy \/ busy' = FALSE
    BY <1>2
  <2> QED
    BY <2>3, <2>4, <2>5
<1>4. AskedFor(p) \in Nat /\ HasEnded(p) \in BOOLEAN
  BY <1>1 DEF AskedFor, HasEnded
<1>5. CASE poll' = [poll EXCEPT ![p] = Unanswered(p)]
  BY <1>1, <1>2, <1>3, <1>5, UnansweredIs, CallKeeps
<1>6. ASSUME NEW cancel \in BOOLEAN, ~Unresolved(p),
             poll' = [poll EXCEPT ![p] = Answered(p, HasEnded(p), AskedFor(p), cancel)]
      PROVE  AgentInv'
  <2> DEFINE rec == Answered(p, HasEnded(p), AskedFor(p), cancel)
  <2>1. /\ rec \in PollRecs /\ rec.pc = "finish" /\ rec.current = poll[p].current /\ rec.seen = poll[p].seen
        /\ rec.out.ended = HasEnded(p) /\ rec.out.remote
        /\ rec.out.latest = IF AskedFor(p) > 0 THEN AskedFor(p) ELSE poll[p].seen.latest
    BY <1>1, <1>2, <1>4, AnsweredIs
  <2>2. poll' = [poll EXCEPT ![p] = rec]
    BY <1>6
  <2> HIDE DEF rec
  <2>3. ASSUME Strong, Fenced(p) PROVE ResultHolds(p)'
    <3>1. poll'[p] = rec /\ \A q \in Polls \ {p} : poll'[q] = poll[q]
      BY <1>1, <2>2, AgentTypesAre
    <3>2. agent = poll[p].seen /\ agent.remote
      BY <1>1, <1>2, <2>3, FencedReads
    <3>3. (NoneAt("launch") => NoneAt("launch")') /\ (NoneAt("reply") => NoneAt("reply")')
      BY <2>1, <3>1 DEF NoneAt
    <3>4. /\ launched /\ agent.latest > 0 /\ agent.latest <= agent.generation + 1
          /\ agent.followup => agent.latest <= agent.generation
          /\ agent.latest = runs \/ (agent.sending /\ runs = agent.latest + 1 /\ NoneAt("reply"))
          /\ NoneAt("reply") \/ agent.sending
          /\ agent.sending => agent.followup
      BY <2>3, <3>2 DEF Strong, RunsKnown, MarkedFirst
    <3>5. agent.generation \in Nat /\ agent.latest \in Nat
      BY <1>1, <3>2, CloudAgentAssumption DEF AgentRows
    <3>6. AskedFor(p) = runs /\ NoneAt("reply") /\ runs > 0 /\ runs <= agent.generation + 1
      <4>1. CASE agent.sending
        BY <1>1, <1>6, <3>2, <3>4, <3>5, <4>1 DEF Unresolved, AskedFor
      <4>2. CASE ~agent.sending
        BY <1>1, <3>2, <3>4, <3>5, <4>2 DEF AskedFor
      <4> QED
        BY <4>1, <4>2
    <3>7. HasEnded(p) => ~busy'
      BY <1>1, <3>6 DEF HasEnded
    <3> QED
      BY <1>1, <1>2, <2>1, <3>1, <3>3, <3>4, <3>6, <3>7 DEF ResultHolds
  <2> QED
    BY <1>1, <1>2, <1>3, <2>1, <2>2, <2>3, CallKeeps
<1>7. \/ poll' = [poll EXCEPT ![p] = Unanswered(p)]
      \/ /\ ~Unresolved(p)
         /\ \E cancel \in BOOLEAN : poll' = [poll EXCEPT ![p] = Answered(p, HasEnded(p), AskedFor(p), cancel)]
  BY <1>4 DEF CancelRemote, Watch, PollTo, Result, Answered, Unanswered
<1> QED
  BY <1>5, <1>6, <1>7

\* The first creation is a run; a later one is the same, and a rejection is for good.
LEMMA LaunchKeeps ==
  ASSUME AgentInv, NEW p \in Polls, Launch(p)
  PROVE  AgentInv'
<1>1. /\ AgentTypes /\ CloudAgentTypeOK /\ poll[p].pc = "launch" /\ ~poll[p].seen.remote
      /\ poll[p].seen \in AgentRows /\ poll[p].seen.cancel \in BOOLEAN /\ poll[p].seen.due
      /\ busy \in BOOLEAN /\ runs \in Nat /\ launched \in BOOLEAN /\ accepts \in BOOLEAN /\ agent \in AgentRows
  BY PollIs, AgentTypesAre DEF AgentTypes, Launch, AgentRows
<1>2. UNCHANGED <<agent, lease, attached, accepts, stale, cancels>>
  BY DEF Launch
<1>3. troubles' \in 0 .. MaxTroubles
  <2>1. Trouble \/ UNCHANGED troubles
    BY DEF Launch
  <2> QED
    BY <1>1, <2>1, TroubleCounts
<1>4. CASE poll' = [poll EXCEPT ![p] = Unanswered(p)] /\ UNCHANGED <<launched, runs, busy>>
  BY <1>1, <1>2, <1>3, <1>4, UnansweredIs, CallKeeps
<1>5. ASSUME NEW ended \in BOOLEAN, NEW latest \in Nat, NEW cancel \in BOOLEAN,
             poll' = [poll EXCEPT ![p] = Answered(p, ended, latest, cancel)],
             UNCHANGED <<launched, runs, busy>>,
             \/ ~accepts /\ ended = TRUE /\ latest = 0
             \/ launched /\ latest = runs /\ ended = ~busy
      PROVE  AgentInv'
  <2> DEFINE rec == Answered(p, ended, latest, cancel)
  <2>1. /\ rec \in PollRecs /\ rec.pc = "finish" /\ rec.current = poll[p].current /\ rec.seen = poll[p].seen
        /\ rec.out.ended = ended /\ (rec.out.remote <=> latest > 0)
        /\ rec.out.latest = IF latest > 0 THEN latest ELSE poll[p].seen.latest
    BY <1>1, AnsweredIs
  <2>2. poll' = [poll EXCEPT ![p] = rec]
    BY <1>5
  <2> HIDE DEF rec
  <2>3. ASSUME Strong, Fenced(p) PROVE ResultHolds(p)'
    <3>1. poll'[p] = rec /\ \A q \in Polls \ {p} : poll'[q] = poll[q]
      BY <1>1, <2>2, AgentTypesAre
    <3>2. ~agent.remote
      BY <1>1, <2>3, FencedReads
    <3>3. NoneAt("reply") => NoneAt("reply")'
      BY <2>1, <3>1 DEF NoneAt
    <3>4. runs <= 1 /\ agent.generation = 0 /\ NoneAt("reply") /\ (launched <=> runs > 0)
          /\ (busy => launched) /\ (launched => accepts)
      BY <2>3, <3>2 DEF Strong, RunsKnown, MarkedFirst
    <3>5. CASE ~accepts /\ ended = TRUE /\ latest = 0
      <4>1. rec.out.ended /\ ~rec.out.remote /\ ~launched /\ ~busy
        BY <1>1, <2>1, <3>4, <3>5
      <4>2. launched' = launched /\ busy' = busy /\ accepts' = accepts /\ agent' = agent
        BY <1>2, <1>5
      <4>3. poll'[p].out = rec.out /\ ~accepts
        BY <3>1, <3>5
      <4> QED
        BY <3>2, <4>1, <4>2, <4>3 DEF ResultHolds
    <3>6. CASE launched /\ latest = runs /\ ended = ~busy
      <4>1. rec.out.remote /\ rec.out.latest = runs /\ (rec.out.ended => ~busy)
        BY <1>1, <2>1, <3>4, <3>6
      <4>2. launched' = launched /\ busy' = busy /\ runs' = runs /\ agent' = agent
        BY <1>2, <1>5
      <4>3. poll'[p].out = rec.out /\ NoneAt("reply")' /\ runs <= agent.generation + 1
        BY <1>1, <3>1, <3>3, <3>4
      <4> QED
        BY <3>6, <4>1, <4>2, <4>3 DEF ResultHolds
    <3> QED
      BY <1>5, <3>5, <3>6
  <2> QED
    BY <1>1, <1>2, <1>3, <1>5, <2>1, <2>2, <2>3, CallKeeps
<1>6. ASSUME accepts, ~launched, launched' = TRUE, runs' = 1, busy' = TRUE, NEW rec \in PollRecs,
             poll' = [poll EXCEPT ![p] = rec], rec.pc \in {"finish", "release"},
             rec.current = poll[p].current, rec.seen = poll[p].seen,
             rec.pc = "finish" => rec.out.remote /\ rec.out.latest = 1 /\ ~rec.out.ended
      PROVE  AgentInv'
  <2>1. AgentTypes' /\ poll'[p] = rec /\ \A q \in Polls \ {p} : poll'[q] = poll[q]
    <3>1. lease' \in Polls \cup {Free} /\ launched' \in BOOLEAN /\ runs' \in Nat /\ stale' \in BOOLEAN /\ busy' \in BOOLEAN
      BY <1>1, <1>2, <1>6, AgentTypesAre
    <3> QED
      BY <1>1, <1>2, <1>3, <1>6, <3>1, PollTyped
  <2>2. ASSUME Strong PROVE Strong'
    <3> USE DEF Strong
    <3>1. ~NoneAt("launch") /\ agent.dispatched /\ agent.due /\ agent.status # "none"
      BY <1>1, <1>6, <2>2 DEF NoneAt, MarkedFirst
    <3>2. ~agent.remote /\ agent.generation = 0 /\ ~agent.followup /\ NoneAt("reply")
      BY <1>6, <2>2 DEF RunsKnown
    <3>3. NoneAt("reply")'
      BY <1>6, <2>1, <3>2 DEF NoneAt
    <3>4. \A q \in Polls : Fenced(q)' => Fenced(q)
      BY <1>1, <1>2, <1>6, <2>1 DEF Fenced
    <3>5. ReadIsRow'
      <4>1. \A q \in Polls : poll'[q].seen = poll[q].seen /\ (poll'[q].pc = "decide" => poll[q].pc = "decide")
        BY <1>6, <2>1
      <4> QED
        BY <1>2, <2>2, <3>4, <4>1 DEF ReadIsRow
    <3>6. MarkedFirst'
      BY <1>2, <1>6, <2>2, <3>1, <3>2 DEF MarkedFirst
    <3>7. RunsKnown'
      BY <1>2, <1>6, <3>2, <3>3 DEF RunsKnown
    <3>8. OneReply'
      BY <3>3 DEF OneReply, NoneAt
    <3>9. ASSUME NEW q \in Polls, Fenced(q)', poll'[q].pc = "finish" PROVE ResultHolds(q)'
      <4>1. CASE q = p
        BY <1>2, <1>6, <2>1, <3>2, <3>3, <3>9, <4>1 DEF ResultHolds
      <4>2. CASE q # p
        BY <1>6, <2>1, <2>2, <3>1, <3>4, <3>9, <4>2 DEF ResultInv, ResultHolds
      <4> QED
        BY <4>1, <4>2
    <3> QED
      BY <3>5, <3>6, <3>7, <3>8, <3>9 DEF ResultInv
  <2> QED
    BY <1>2, <2>1, <2>2 DEF AgentInv
<1>10. ASSUME accepts, ~launched, launched' = TRUE, runs' = 1, busy' = TRUE,
              NEW ended \in BOOLEAN, NEW latest \in Nat, NEW cancel \in BOOLEAN,
              ended = ~busy', latest = runs',
              poll' = [poll EXCEPT ![p] = Answered(p, ended, latest, cancel)]
       PROVE  AgentInv'
  <2> DEFINE rec == Answered(p, ended, latest, cancel)
  <2>1. /\ rec \in PollRecs /\ rec.pc = "finish" /\ rec.current = poll[p].current /\ rec.seen = poll[p].seen
        /\ rec.out.ended = ended /\ (rec.out.remote <=> latest > 0 \/ poll[p].seen.remote)
        /\ rec.out.latest = IF latest > 0 THEN latest ELSE poll[p].seen.latest
    BY <1>1, AnsweredIs
  <2>2. poll' = [poll EXCEPT ![p] = rec]
    BY <1>10
  <2> HIDE DEF rec
  <2>3. ~ended
    BY <1>10, Zenon
  <2>4. latest = 1 /\ latest > 0
    BY <1>10
  <2>5. rec.out.remote /\ rec.out.latest = 1 /\ ~rec.out.ended
    BY <2>1, <2>3, <2>4
  <2> QED
    BY <1>6, <1>10, <2>1, <2>2, <2>5
<1>7. CASE accepts /\ ~launched /\ launched' = TRUE /\ runs' = 1 /\ busy' = TRUE
  <2>1. CASE poll' = [poll EXCEPT ![p] = Unanswered(p)]
    BY <1>6, <1>7, <2>1, UnansweredIs
  <2>2. CASE poll' = [poll EXCEPT ![p] = Answered(p, ~busy', runs', poll[p].seen.cancel)]
    BY <1>1, <1>7, <1>10, <2>2
  <2> QED
    BY <1>1, <1>7, <2>1, <2>2 DEF Launch, PollTo, Result, Answered, Unanswered
<1>8. CASE accepts /\ launched /\ UNCHANGED <<launched, runs, busy>>
  <2>1. CASE poll' = [poll EXCEPT ![p] = Answered(p, ~busy', runs', poll[p].seen.cancel)]
    BY <1>1, <1>5, <1>8, <2>1
  <2> QED
    BY <1>1, <1>4, <1>8, <2>1 DEF Launch, PollTo, Result, Answered, Unanswered
<1>9. CASE ~accepts /\ UNCHANGED <<launched, runs, busy>>
  <2>1. CASE poll' = [poll EXCEPT ![p] = Answered(p, TRUE, 0, FALSE)]
    BY <1>1, <1>5, <1>9, <2>1
  <2> QED
    BY <1>1, <1>4, <1>9, <2>1 DEF Launch, PollTo, Result, Answered, Unanswered
<1> QED
  BY <1>1, <1>4, <1>7, <1>8, <1>9 DEF Launch, PollTo, Unanswered

\* A follow-up: accepted as the one run that the row does not know, rejected or unanswered.
LEMMA SendReplyKeeps ==
  ASSUME AgentInv, NEW p \in Polls, SendReply(p)
  PROVE  AgentInv'
<1>1. /\ AgentTypes /\ CloudAgentTypeOK /\ poll[p].pc = "reply" /\ poll[p].seen.remote
      /\ poll[p].seen \in AgentRows /\ poll[p].seen.latest \in Nat /\ poll[p].seen.due
      /\ busy \in BOOLEAN /\ runs \in Nat /\ agent \in AgentRows /\ agent.generation \in Nat
      /\ agent.latest \in Nat
  BY PollIs, AgentTypesAre, CloudAgentAssumption DEF AgentTypes, SendReply, AgentRows
<1>2. UNCHANGED <<agent, lease, attached, accepts, launched, stale, cancels>>
  BY DEF SendReply
<1>3. troubles' \in 0 .. MaxTroubles
  <2>1. Trouble \/ UNCHANGED troubles
    BY DEF SendReply
  <2> QED
    BY <1>1, <2>1, TroubleCounts
<1>4. ASSUME Strong
      PROVE  /\ agent.remote /\ agent.sending /\ agent.followup /\ agent.due /\ launched /\ ~busy
             /\ agent.latest = runs /\ agent.latest > 0 /\ agent.latest <= agent.generation
             /\ agent.status # "none"
             /\ \A q \in Polls \ {p} : poll[q].pc # "reply"
  <2>1. ~NoneAt("reply")
    BY <1>1 DEF NoneAt
  <2>2. agent.remote
    BY <1>4, <2>1 DEF Strong, RunsKnown
  <2>3. /\ agent.sending /\ agent.latest = runs /\ launched /\ agent.latest > 0
        /\ agent.followup => agent.latest <= agent.generation
        /\ agent.followup /\ agent.latest = runs => ~busy
    BY <1>4, <2>1, <2>2 DEF Strong, RunsKnown
  <2>4. agent.followup /\ agent.due /\ agent.status # "none"
    BY <1>1, <1>4, <2>3 DEF Strong, MarkedFirst
  <2> QED
    BY <1>1, <1>4, <2>2, <2>3, <2>4 DEF Strong, OneReply
<1>5. CASE poll' = [poll EXCEPT ![p] = Unanswered(p)] /\ UNCHANGED <<runs, busy>>
  BY <1>1, <1>2, <1>3, <1>5, UnansweredIs, CallKeeps
<1>6. CASE poll' = [poll EXCEPT ![p] = Answered(p, TRUE, 0, FALSE)] /\ UNCHANGED <<runs, busy>>
  <2> DEFINE rec == Answered(p, TRUE, 0, FALSE)
  <2>1. /\ rec \in PollRecs /\ rec.pc = "finish" /\ rec.current = poll[p].current /\ rec.seen = poll[p].seen
        /\ rec.out.ended /\ rec.out.remote /\ rec.out.latest = poll[p].seen.latest
    <3>1. TRUE \in BOOLEAN /\ FALSE \in BOOLEAN /\ 0 \in Nat /\ ~(0 > 0)
      OBVIOUS
    <3>2. poll[p].pc # "idle"
      BY <1>1
    <3>3. /\ rec \in PollRecs /\ rec.pc = "finish" /\ rec.current = poll[p].current /\ rec.seen = poll[p].seen
          /\ rec.out.ended = TRUE /\ (rec.out.remote <=> 0 > 0 \/ poll[p].seen.remote)
          /\ rec.out.latest = IF 0 > 0 THEN 0 ELSE poll[p].seen.latest
      BY <3>1, <3>2, AnsweredIs
    <3> QED
      BY <1>1, <3>1, <3>3
  <2>2. poll' = [poll EXCEPT ![p] = rec]
    BY <1>6
  <2> HIDE DEF rec
  <2>3. ASSUME Strong, Fenced(p) PROVE ResultHolds(p)'
    <3>1. poll'[p] = rec /\ \A q \in Polls \ {p} : poll'[q] = poll[q]
      BY <1>1, <2>2, AgentTypesAre
    <3>2. agent.latest = poll[p].seen.latest
      BY <2>3, FencedReads
    <3>3. NoneAt("reply")'
      BY <1>4, <2>1, <2>3, <3>1 DEF NoneAt
    <3>4. launched /\ ~busy /\ rec.out.latest = runs /\ runs <= agent.generation + 1
      BY <1>1, <1>4, <2>1, <2>3, <3>2
    <3>5. launched' = launched /\ busy' = busy /\ runs' = runs /\ agent' = agent /\ accepts' = accepts
      BY <1>2, <1>6
    <3> QED
      BY <2>1, <3>1, <3>3, <3>4, <3>5 DEF ResultHolds
  <2>4. busy' \in BOOLEAN /\ (busy' => busy)
    BY <1>1, <1>6
  <2> QED
    BY <1>1, <1>2, <1>3, <1>6, <2>1, <2>2, <2>3, <2>4, CallKeeps
<1>7. ASSUME runs' = runs + 1, busy' = TRUE, NEW rec \in PollRecs,
             poll' = [poll EXCEPT ![p] = rec], rec.pc \in {"finish", "release"},
             rec.current = poll[p].current, rec.seen = poll[p].seen,
             rec.pc = "finish" => rec.out.remote /\ rec.out.latest = runs' /\ ~rec.out.ended
      PROVE  AgentInv'
  <2>1. AgentTypes' /\ poll'[p] = rec /\ \A q \in Polls \ {p} : poll'[q] = poll[q]
    <3>1. lease' \in Polls \cup {Free} /\ launched' \in BOOLEAN /\ runs' \in Nat /\ stale' \in BOOLEAN /\ busy' \in BOOLEAN
      BY <1>1, <1>2, <1>7, AgentTypesAre
    <3> QED
      BY <1>1, <1>2, <1>3, <1>7, <3>1, PollTyped
  <2>2. ASSUME Strong PROVE Strong'
    <3>1. /\ agent.remote /\ agent.sending /\ agent.followup /\ agent.due /\ launched
          /\ agent.latest = runs /\ agent.latest > 0 /\ agent.latest <= agent.generation
          /\ agent.status # "none" /\ \A q \in Polls \ {p} : poll[q].pc # "reply"
      BY <1>4, <2>2
    <3>2. NoneAt("reply")' /\ (NoneAt("launch") => NoneAt("launch")')
      BY <1>7, <2>1, <3>1 DEF NoneAt
    <3>3. \A q \in Polls : Fenced(q)' => Fenced(q)
      BY <1>1, <1>2, <1>7, <2>1 DEF Fenced
    <3>4. ReadIsRow'
      <4>1. \A q \in Polls : poll'[q].seen = poll[q].seen /\ (poll'[q].pc = "decide" => poll[q].pc = "decide")
        BY <1>7, <2>1
      <4> QED
        BY <1>2, <2>2, <3>3, <4>1 DEF Strong, ReadIsRow
    <3>5. MarkedFirst'
      <4>1. (launched' <=> runs' > 0) /\ (launched' => accepts' /\ agent'.dispatched)
        BY <1>1, <1>2, <1>7, <2>2, <3>1 DEF Strong, MarkedFirst
      <4> QED
        BY <1>2, <1>7, <2>2, <3>1, <3>2, <4>1 DEF Strong, MarkedFirst
    <3>6. RunsKnown'
      BY <1>1, <1>2, <1>7, <3>1, <3>2 DEF RunsKnown
    <3>7. OneReply'
      BY <3>2 DEF OneReply, NoneAt
    <3>8. ASSUME NEW q \in Polls, Fenced(q)', poll'[q].pc = "finish" PROVE ResultHolds(q)'
      <4>1. CASE q = p
        BY <1>1, <1>2, <1>7, <2>1, <3>1, <3>2, <3>8, <4>1 DEF ResultHolds
      <4>2. CASE q # p
        <5>1. ResultHolds(q)
          BY <2>1, <2>2, <3>3, <3>8, <4>2 DEF Strong, ResultInv
        <5> QED
          BY <1>1, <3>1, <5>1 DEF ResultHolds, NoneAt
      <4> QED
        BY <4>1, <4>2
    <3> QED
      BY <3>4, <3>5, <3>6, <3>7, <3>8 DEF Strong, ResultInv
  <2> QED
    BY <1>2, <2>1, <2>2 DEF AgentInv
<1>8. CASE runs' = runs + 1 /\ busy' = TRUE /\ poll' = [poll EXCEPT ![p] = Unanswered(p)]
  BY <1>7, <1>8, UnansweredIs
<1>9. ASSUME runs' = runs + 1, busy' = TRUE, NEW latest \in Nat, latest = runs',
             poll' = [poll EXCEPT ![p] = Answered(p, FALSE, latest, FALSE)]
      PROVE  AgentInv'
  <2> DEFINE rec == Answered(p, FALSE, latest, FALSE)
  <2>1. /\ rec \in PollRecs /\ rec.pc = "finish" /\ rec.current = poll[p].current /\ rec.seen = poll[p].seen
        /\ ~rec.out.ended /\ rec.out.remote
        /\ rec.out.latest = IF latest > 0 THEN latest ELSE poll[p].seen.latest
    <3>1. FALSE \in BOOLEAN
      OBVIOUS
    <3> QED
      BY <1>1, <3>1, AnsweredIs
  <2>2. poll' = [poll EXCEPT ![p] = rec]
    BY <1>9
  <2> HIDE DEF rec
  <2>3. latest > 0
    BY <1>1, <1>9
  <2> QED
    BY <1>7, <1>9, <2>1, <2>2, <2>3
<1>10. CASE runs' = runs + 1 /\ busy' = TRUE /\ poll' = [poll EXCEPT ![p] = Answered(p, FALSE, runs', FALSE)]
  <2>1. runs' \in Nat
    BY <1>1, <1>10
  <2> QED
    BY <1>9, <1>10, <2>1
<1>11. \/ poll' = [poll EXCEPT ![p] = Unanswered(p)] /\ UNCHANGED <<runs, busy>>
       \/ poll' = [poll EXCEPT ![p] = Answered(p, TRUE, 0, FALSE)] /\ UNCHANGED <<runs, busy>>
       \/ runs' = runs + 1 /\ busy' = TRUE /\ poll' = [poll EXCEPT ![p] = Unanswered(p)]
       \/ runs' = runs + 1 /\ busy' = TRUE /\ poll' = [poll EXCEPT ![p] = Answered(p, FALSE, runs', FALSE)]
  BY DEF SendReply, PollTo, Result, Answered, Unanswered
<1> QED
  BY <1>5, <1>6, <1>8, <1>10, <1>11

-----------------------------------------------------------------------------
(* Steps that write the row *)

LEMMA RowTyped ==
  ASSUME AgentTypes, agent' \in AgentRows, agent'.due <=> agent'.status = "running" \/ agent'.cancel,
         poll' \in [Polls -> PollRecs], lease' \in Polls \cup {Free},
         UNCHANGED <<attached, accepts, launched, runs, busy, stale, troubles>>,
         cancels' \in 0 .. MaxCancels, SeenInv'
  PROVE  AgentTypes'
<1>1. UNCHANGED attached /\ UNCHANGED accepts /\ UNCHANGED launched /\ UNCHANGED runs
      /\ UNCHANGED busy /\ UNCHANGED stale /\ UNCHANGED troubles
  OBVIOUS
<1> QED
  BY <1>1 DEF AgentTypes, CloudAgentTypeOK, PollRecs, PollPcs

\* With a new version every poll under way has an old one.
LEMMA VersionIs ==
  ASSUME AgentTypes, NEW f \in [Polls -> PollRecs], f = NewVersion
  PROVE  \A q \in Polls : ~f[q].current /\ f[q].pc = poll[q].pc /\ f[q].seen = poll[q].seen
BY AgentTypesAre DEF AgentTypes, NewVersion, PollRecs

LEMMA VersionTyped == AgentTypes => NewVersion \in [Polls -> PollRecs]
BY AgentTypesAre DEF AgentTypes, NewVersion, PollRecs

\* Nobody passes its fence any more, and nobody goes on to call.
LEMMA NobodyFenced ==
  ASSUME Strong, \A q \in Polls : ~Fenced(q)', \A q \in Polls : poll'[q].pc \in {poll[q].pc, "idle"}
  PROVE  /\ ReadIsRow' /\ ResultInv' /\ OneReply'
         /\ NoneAt("launch") => NoneAt("launch")'
         /\ NoneAt("reply") => NoneAt("reply")'
<1>1. ReadIsRow' /\ ResultInv'
  BY DEF ReadIsRow, ResultInv
<1>2. OneReply'
  BY DEF Strong, OneReply
<1>3. (NoneAt("launch") => NoneAt("launch")') /\ (NoneAt("reply") => NoneAt("reply")')
  BY DEF NoneAt
<1> QED
  BY <1>1, <1>2, <1>3

\* Where nothing has been launched there is nothing but idle polls.
LEMMA LaunchToolKeeps == AgentInv /\ LaunchTool => AgentInv'
<1> SUFFICES ASSUME AgentInv, LaunchTool PROVE AgentInv'
  OBVIOUS
<1>1. AgentTypes /\ CloudAgentTypeOK /\ SeenInv
  BY DEF AgentInv, AgentTypes
<1>2. agent' = NewAgent /\ agent.status = "none"
      /\ UNCHANGED <<lease, attached, poll, accepts, launched, runs, busy, stale, cancels, troubles>>
  BY DEF LaunchTool, cloud
<1>3. /\ NewAgent.due /\ NewAgent.status = "running" /\ ~NewAgent.remote /\ ~NewAgent.sending
      /\ ~NewAgent.followup /\ NewAgent.generation = 0 /\ ~NewAgent.dispatched
  BY DEF NewAgent
<1>4. AgentTypes'
  <2>1. poll' \in [Polls -> PollRecs] /\ lease' \in Polls \cup {Free} /\ cancels' \in 0 .. MaxCancels
    BY <1>1, <1>2, AgentTypesAre
  <2>2. SeenInv'
    BY <1>1, <1>2 DEF SeenInv
  <2>3. agent' \in AgentRows /\ (agent'.due <=> agent'.status = "running" \/ agent'.cancel)
    BY <1>2, <1>3, NothingYet
  <2> QED
    BY <1>1, <1>2, <2>1, <2>2, <2>3, RowTyped
<1>5. ASSUME Strong PROVE Strong'
  <2>1. agent = NoAgent /\ \A q \in Polls : poll[q].pc = "idle"
    BY <1>2, <1>5 DEF Strong, MarkedFirst
  <2>2. ~agent.dispatched
    BY <2>1 DEF NoAgent, NewAgent
  <2>3. ~launched /\ ~busy /\ ~(runs > 0)
    BY <1>5, <2>2 DEF Strong, MarkedFirst
  <2>4. \A q \in Polls : poll'[q].pc = "idle" /\ ~Fenced(q)'
    BY <1>2, <2>1 DEF Fenced
  <2>5. ReadIsRow' /\ ResultInv' /\ OneReply' /\ NoneAt("launch")' /\ NoneAt("reply")'
    BY <2>4 DEF ReadIsRow, ResultInv, OneReply, NoneAt
  <2>6. MarkedFirst'
    BY <1>1, <1>2, <1>3, <2>3, <2>5, AgentTypesAre DEF MarkedFirst
  <2>7. RunsKnown'
    BY <1>1, <1>2, <1>3, <2>3, <2>5, AgentTypesAre DEF RunsKnown
  <2> QED
    BY <2>5, <2>6, <2>7 DEF Strong
<1> QED
  BY <1>2, <1>4, <1>5 DEF AgentInv

LEMMA ReplyToolKeeps == AgentInv /\ ReplyTool => AgentInv'
<1> SUFFICES ASSUME AgentInv, ReplyTool PROVE AgentInv'
  OBVIOUS
<1>1. AgentTypes /\ CloudAgentTypeOK /\ SeenInv /\ agent \in AgentRows
  BY AgentTypesAre DEF AgentInv, AgentTypes
<1>2. /\ agent.status = "ended" /\ ~agent.followup /\ ~agent.cancel /\ agent.remote
      /\ agent.generation < MaxPrompts /\ poll' = NewVersion
      /\ UNCHANGED <<lease, attached, accepts, launched, runs, busy, stale, cancels, troubles>>
  BY DEF ReplyTool, cloud
<1>3. /\ agent' \in AgentRows
      /\ agent'.followup /\ ~agent'.sending /\ agent'.status = "running" /\ agent'.due
      /\ agent'.generation = agent.generation + 1 /\ agent'.remote = agent.remote
      /\ agent'.latest = agent.latest /\ agent'.dispatched = agent.dispatched
  <2>1. agent.generation + 1 \in 0 .. MaxPrompts
    BY <1>1, <1>2, CloudAgentAssumption DEF AgentRows
  <2>2. agent' = [agent EXCEPT !.followup = TRUE, !.sending = FALSE, !.status = "running",
                               !.generation = @ + 1, !.due = TRUE]
    BY DEF ReplyTool
  <2> QED
    BY <1>1, <2>1, <2>2 DEF AgentRows
<1>4. /\ poll' \in [Polls -> PollRecs]
      /\ \A q \in Polls : ~poll'[q].current /\ poll'[q].pc = poll[q].pc /\ poll'[q].seen = poll[q].seen
  BY <1>1, <1>2, VersionIs, VersionTyped
<1>5. AgentTypes'
  <2>1. lease' \in Polls \cup {Free} /\ cancels' \in 0 .. MaxCancels
    BY <1>1, <1>2, AgentTypesAre
  <2>2. SeenInv'
    BY <1>1, <1>4 DEF SeenInv
  <2> QED
    BY <1>1, <1>2, <1>3, <1>4, <2>1, <2>2, RowTyped
<1>6. ASSUME Strong PROVE Strong'
  <2>1. ~agent.due
    BY <1>1, <1>2, AgentTypesAre
  <2>2. ~busy /\ ~agent.sending
    BY <1>2, <1>6, <2>1 DEF Strong, MarkedFirst
  <2>3. launched /\ agent.latest > 0 /\ agent.latest <= agent.generation + 1 /\ agent.latest = runs /\ NoneAt("reply")
    BY <1>2, <1>6, <2>2 DEF Strong, RunsKnown
  <2>4. /\ ReadIsRow' /\ ResultInv' /\ OneReply'
        /\ NoneAt("launch") => NoneAt("launch")'
        /\ NoneAt("reply") => NoneAt("reply")'
    BY <1>4, <1>6, NobodyFenced DEF Fenced
  <2>5. MarkedFirst'
    BY <1>2, <1>3, <1>6, <2>2, <2>4 DEF Strong, MarkedFirst
  <2>6. RunsKnown'
    <3>1. agent.generation \in Nat /\ agent.latest \in Nat
      BY <1>1, CloudAgentAssumption DEF AgentRows
    <3>2. agent'.latest <= agent'.generation + 1 /\ agent'.latest <= agent'.generation /\ agent'.latest > 0
      BY <1>3, <2>3, <3>1
    <3> QED
      BY <1>2, <1>3, <2>2, <2>3, <2>4, <3>2 DEF RunsKnown
  <2> QED
    BY <2>4, <2>5, <2>6 DEF Strong
<1> QED
  BY <1>2, <1>5, <1>6 DEF AgentInv

LEMMA CancelToolKeeps == AgentInv /\ CancelTool => AgentInv'
<1> SUFFICES ASSUME AgentInv, CancelTool PROVE AgentInv'
  OBVIOUS
<1>1. AgentTypes /\ CloudAgentTypeOK /\ SeenInv /\ agent \in AgentRows
  BY AgentTypesAre DEF AgentInv, AgentTypes
<1>2. /\ agent.status # "none" /\ poll' = NewVersion /\ cancels < MaxCancels /\ cancels' = cancels + 1
      /\ UNCHANGED <<lease, attached, accepts, launched, runs, busy, stale, troubles>>
  BY DEF CancelTool, cloud
<1>3. /\ agent' \in AgentRows /\ agent'.cancel /\ agent'.due
      /\ agent'.status = agent.status /\ agent'.followup = agent.followup /\ agent'.sending = agent.sending
      /\ agent'.generation = agent.generation /\ agent'.remote = agent.remote
      /\ agent'.latest = agent.latest /\ agent'.dispatched = agent.dispatched
  <2>1. agent' = [agent EXCEPT !.cancel = TRUE, !.due = TRUE]
    BY DEF CancelTool
  <2> QED
    BY <1>1, <2>1 DEF AgentRows
<1>4. /\ poll' \in [Polls -> PollRecs]
      /\ \A q \in Polls : ~poll'[q].current /\ poll'[q].pc = poll[q].pc /\ poll'[q].seen = poll[q].seen
  BY <1>1, <1>2, VersionIs, VersionTyped
<1>5. AgentTypes'
  <2>1. lease' \in Polls \cup {Free} /\ cancels' \in 0 .. MaxCancels
    BY <1>1, <1>2, CloudAgentAssumption, AgentTypesAre
  <2>2. SeenInv'
    BY <1>1, <1>4 DEF SeenInv
  <2> QED
    BY <1>1, <1>2, <1>3, <1>4, <2>1, <2>2, RowTyped
<1>6. ASSUME Strong PROVE Strong'
  <2>1. /\ ReadIsRow' /\ ResultInv' /\ OneReply'
        /\ NoneAt("launch") => NoneAt("launch")'
        /\ NoneAt("reply") => NoneAt("reply")'
    BY <1>4, <1>6, NobodyFenced DEF Fenced
  <2>2. MarkedFirst'
    BY <1>2, <1>3, <1>6, <2>1 DEF Strong, MarkedFirst
  <2>3. RunsKnown'
    BY <1>2, <1>3, <1>6, <2>1 DEF Strong, RunsKnown
  <2> QED
    BY <2>1, <2>2, <2>3 DEF Strong
<1> QED
  BY <1>2, <1>5, <1>6 DEF AgentInv

\* The intent of a launch: the poll that is fenced has read the row as it is.
LEMMA MarkLaunchKeeps ==
  ASSUME AgentInv, NEW p \in Polls, MarkLaunch(p)
  PROVE  AgentInv'
<1>1. /\ AgentTypes /\ CloudAgentTypeOK /\ SeenInv /\ poll[p].pc = "decide" /\ poll[p] \in PollRecs
      /\ poll[p].seen.due /\ ~poll[p].seen.remote /\ agent \in AgentRows /\ busy \in BOOLEAN
      /\ troubles \in 0 .. MaxTroubles /\ cancels \in 0 .. MaxCancels /\ lease \in Polls \cup {Free}
  BY PollIs, AgentTypesAre DEF AgentTypes, MarkLaunch
<1>2. UNCHANGED <<lease, attached, accepts, launched, runs, busy, stale, cancels, troubles>>
  BY DEF MarkLaunch, cloud
<1>3. CASE ~Fence(p)
  <2>1. poll' = [poll EXCEPT ![p] = Unanswered(p)] /\ agent' = agent
    BY <1>3 DEF MarkLaunch, PollTo, Unanswered
  <2>2. troubles' \in 0 .. MaxTroubles /\ busy' \in BOOLEAN /\ (busy' => busy)
    BY <1>1, <1>2
  <2> QED
    BY <1>1, <1>2, <2>1, <2>2, UnansweredIs, CallKeeps
<1>4. CASE Fence(p)
  <2> DEFINE rec == [poll[p] EXCEPT !.pc = "launch"]
  <2>1. poll' = [poll EXCEPT ![p] = rec] /\ agent' = [agent EXCEPT !.dispatched = TRUE]
    BY <1>4 DEF MarkLaunch, PollTo
  <2>2. rec \in PollRecs /\ rec.pc = "launch" /\ rec.seen = poll[p].seen /\ rec.current = poll[p].current
    BY <1>1 DEF PollRecs, PollPcs
  <2> HIDE DEF rec
  <2>3. poll' \in [Polls -> PollRecs] /\ poll'[p] = rec /\ \A q \in Polls \ {p} : poll'[q] = poll[q]
    BY <1>1, <2>1, <2>2, AgentTypesAre
  <2>4. /\ agent' \in AgentRows /\ agent'.dispatched
        /\ agent'.cancel = agent.cancel /\ agent'.due = agent.due
        /\ agent'.status = agent.status /\ agent'.followup = agent.followup /\ agent'.sending = agent.sending
        /\ agent'.generation = agent.generation /\ agent'.remote = agent.remote /\ agent'.latest = agent.latest
    BY <1>1, <2>1 DEF AgentRows
  <2>5. AgentTypes'
    <3>1. SeenInv'
      BY <1>1, <2>2, <2>3 DEF SeenInv
    <3>2. agent'.due <=> agent'.status = "running" \/ agent'.cancel
      BY <1>1, <2>4, AgentTypesAre
    <3> QED
      BY <1>1, <1>2, <2>3, <2>4, <3>1, <3>2, RowTyped
  <2>6. ASSUME Strong PROVE Strong'
    <3>1. Fenced(p) /\ \A q \in Polls : Fenced(q)' => q = p
      BY <1>1, <1>2, <1>4 DEF Fence, Fenced
    <3>2. agent.due /\ ~agent.remote /\ agent = poll[p].seen
      BY <1>1, <2>6, <3>1, FencedReads
    <3>3. agent.status # "none"
      BY <1>1, <2>6 DEF Strong, MarkedFirst
    <3>4. NoneAt("reply") => NoneAt("reply")'
      BY <2>2, <2>3 DEF NoneAt
    <3>5. ReadIsRow'
      <4>1. agent' = [agent EXCEPT !.dispatched = agent'.dispatched, !.sending = agent'.sending]
        BY <1>1, <2>1 DEF AgentRows
      <4> QED
        BY <2>2, <2>3, <3>1, <3>2, <4>1 DEF ReadIsRow
    <3>6. MarkedFirst'
      BY <1>2, <2>4, <2>6, <3>2, <3>3 DEF Strong, MarkedFirst
    <3>7. RunsKnown'
      BY <1>2, <2>4, <2>6, <3>2, <3>4 DEF Strong, RunsKnown
    <3>8. OneReply'
      BY <2>2, <2>3, <2>6 DEF Strong, OneReply
    <3>9. ResultInv'
      BY <2>2, <2>3, <3>1 DEF ResultInv
    <3> QED
      BY <3>5, <3>6, <3>7, <3>8, <3>9 DEF Strong
  <2> QED
    BY <1>2, <2>5, <2>6 DEF AgentInv
<1> QED
  BY <1>3, <1>4

\* The intent of a follow-up: nobody else sends one, and the row knows every run so far.
LEMMA MarkReplyKeeps ==
  ASSUME AgentInv, NEW p \in Polls, MarkReply(p)
  PROVE  AgentInv'
<1>1. /\ AgentTypes /\ CloudAgentTypeOK /\ SeenInv /\ poll[p].pc = "decide" /\ poll[p] \in PollRecs
      /\ poll[p].seen.due /\ poll[p].seen.remote /\ agent \in AgentRows /\ busy \in BOOLEAN
      /\ troubles \in 0 .. MaxTroubles /\ cancels \in 0 .. MaxCancels /\ lease \in Polls \cup {Free}
      /\ NotSent(p)
  BY PollIs, AgentTypesAre DEF AgentTypes, MarkReply
<1>2. UNCHANGED <<lease, attached, accepts, launched, runs, busy, stale, cancels, troubles>>
  BY DEF MarkReply, cloud
<1>3. CASE ~Fence(p)
  <2>1. poll' = [poll EXCEPT ![p] = Unanswered(p)] /\ agent' = agent
    BY <1>3 DEF MarkReply, PollTo, Unanswered
  <2>2. troubles' \in 0 .. MaxTroubles /\ busy' \in BOOLEAN /\ (busy' => busy)
    BY <1>1, <1>2
  <2> QED
    BY <1>1, <1>2, <2>1, <2>2, UnansweredIs, CallKeeps
<1>4. CASE Fence(p)
  <2> DEFINE rec == [poll[p] EXCEPT !.pc = "reply"]
  <2>1. poll' = [poll EXCEPT ![p] = rec] /\ agent' = [agent EXCEPT !.sending = TRUE]
    BY <1>4 DEF MarkReply, PollTo
  <2>2. rec \in PollRecs /\ rec.pc = "reply" /\ rec.seen = poll[p].seen /\ rec.current = poll[p].current
    BY <1>1 DEF PollRecs, PollPcs
  <2> HIDE DEF rec
  <2>3. poll' \in [Polls -> PollRecs] /\ poll'[p] = rec /\ \A q \in Polls \ {p} : poll'[q] = poll[q]
    BY <1>1, <2>1, <2>2, AgentTypesAre
  <2>4. /\ agent' \in AgentRows /\ agent'.sending
        /\ agent'.cancel = agent.cancel /\ agent'.due = agent.due
        /\ agent'.status = agent.status /\ agent'.followup = agent.followup /\ agent'.dispatched = agent.dispatched
        /\ agent'.generation = agent.generation /\ agent'.remote = agent.remote /\ agent'.latest = agent.latest
    BY <1>1, <2>1 DEF AgentRows
  <2>5. AgentTypes'
    <3>1. SeenInv'
      BY <1>1, <2>2, <2>3 DEF SeenInv
    <3>2. agent'.due <=> agent'.status = "running" \/ agent'.cancel
      BY <1>1, <2>4, AgentTypesAre
    <3> QED
      BY <1>1, <1>2, <2>3, <2>4, <3>1, <3>2, RowTyped
  <2>6. ASSUME Strong PROVE Strong'
    <3>1. Fenced(p) /\ \A q \in Polls : Fenced(q)' => q = p
      BY <1>1, <1>2, <1>4 DEF Fence, Fenced
    <3>2. agent.due /\ agent.remote /\ agent = poll[p].seen /\ agent.followup /\ ~agent.sending
      BY <1>1, <2>6, <3>1, FencedReads DEF NotSent
    <3>3. agent.status # "none"
      BY <1>1, <2>6 DEF Strong, MarkedFirst
    <3>4. /\ launched /\ agent.latest > 0 /\ agent.latest <= agent.generation + 1
          /\ agent.latest <= agent.generation /\ agent.latest = runs /\ ~busy /\ NoneAt("reply")
      BY <2>6, <3>2 DEF Strong, RunsKnown
    <3>5. NoneAt("launch") => NoneAt("launch")'
      BY <2>2, <2>3 DEF NoneAt
    <3>6. ReadIsRow'
      <4>1. agent' = [agent EXCEPT !.dispatched = agent'.dispatched, !.sending = agent'.sending]
        BY <1>1, <2>1 DEF AgentRows
      <4> QED
        BY <2>2, <2>3, <3>1, <3>2, <4>1 DEF ReadIsRow
    <3>7. MarkedFirst'
      BY <1>2, <2>4, <2>6, <3>2, <3>3, <3>5 DEF Strong, MarkedFirst
    <3>8. RunsKnown'
      BY <1>2, <2>4, <3>2, <3>4 DEF RunsKnown
    <3>9. OneReply'
      BY <2>3, <3>4 DEF OneReply, NoneAt
    <3>10. ResultInv'
      BY <2>2, <2>3, <3>1 DEF ResultInv
    <3> QED
      BY <3>6, <3>7, <3>8, <3>9, <3>10 DEF Strong
  <2> QED
    BY <1>2, <2>5, <2>6 DEF AgentInv
<1> QED
  BY <1>3, <1>4

\* A fenced poll writes what it was told; whoever else is under way has an old version.
LEMMA FinishPollKeeps ==
  ASSUME AgentInv, NEW p \in Polls, FinishPoll(p)
  PROVE  AgentInv'
<1>1. /\ AgentTypes /\ CloudAgentTypeOK /\ SeenInv /\ poll[p].pc = "finish" /\ poll[p] \in PollRecs
      /\ poll[p].out \in Results /\ agent \in AgentRows /\ busy \in BOOLEAN /\ attached \in BOOLEAN
      /\ troubles \in 0 .. MaxTroubles /\ cancels \in 0 .. MaxCancels /\ lease \in Polls \cup {Free}
  BY PollIs, AgentTypesAre DEF AgentTypes, FinishPoll
<1>2. UNCHANGED <<attached, accepts, launched, runs, busy, stale, cancels, troubles>>
  BY DEF FinishPoll, cloud
<1>3. lease' \in {lease, Free} /\ (lease = p => lease' = Free)
  BY DEF FinishPoll, Released
<1>4. CASE ~Fence(p)
  <2>1. poll' = [poll EXCEPT ![p] = NoPoll] /\ agent' = agent
    BY <1>4 DEF FinishPoll
  <2>2. troubles' \in 0 .. MaxTroubles /\ busy' \in BOOLEAN /\ (busy' => busy)
    BY <1>1, <1>2
  <2> QED
    BY <1>1, <1>2, <1>3, <2>1, <2>2, NothingYet, PollRests
<1>5. CASE Fence(p)
  <2> DEFINE out == poll[p].out
             canceling == ~out.ended /\ (~attached \/ out.cancel \/ poll[p].seen.cancel)
             woken == IF attached /\ out.ended THEN agent.generation + 1 ELSE agent.woken
             status == IF out.ended THEN "ended" ELSE "running"
             due == ~out.ended
  <2>1. /\ poll' = [NewVersion EXCEPT ![p] = NoPoll]
        /\ agent' = [agent EXCEPT !.status = status, !.remote = out.remote, !.latest = out.latest,
                       !.cancel = canceling, !.followup = FALSE, !.sending = FALSE, !.due = due,
                       !.woken = woken]
    BY <1>5 DEF FinishPoll
  <2>2. /\ out.ended \in BOOLEAN /\ out.remote \in BOOLEAN /\ out.latest \in Nat
        /\ canceling \in BOOLEAN /\ (canceling => ~out.ended)
        /\ status \in {"none", "running", "ended"} /\ (status = "running" <=> ~out.ended) /\ status # "none"
        /\ due \in BOOLEAN /\ (due <=> ~out.ended)
    BY <1>1 DEF Results
  <2>3. woken \in 0 .. MaxPrompts + 1
    BY <1>1, CloudAgentAssumption DEF AgentRows
  <2> HIDE DEF canceling, woken, status, due
  <2>4. /\ agent' \in AgentRows /\ ~agent'.followup /\ ~agent'.sending
        /\ agent'.dispatched = agent.dispatched /\ agent'.generation = agent.generation
        /\ agent'.status = status /\ agent'.remote = out.remote /\ agent'.latest = out.latest
        /\ agent'.cancel = canceling /\ agent'.due = due
    BY <1>1, <2>1, <2>2, <2>3 DEF AgentRows
  <2>5. /\ poll' \in [Polls -> PollRecs] /\ poll'[p] = NoPoll
        /\ \A q \in Polls \ {p} : poll'[q].pc = poll[q].pc /\ poll'[q].seen = poll[q].seen
    BY <1>1, <2>1, NothingYet, VersionIs, VersionTyped
  <2>6. AgentTypes'
    <3>1. SeenInv'
      BY <1>1, <2>5, NothingYet DEF SeenInv
    <3>2. agent'.due <=> agent'.status = "running" \/ agent'.cancel
      BY <2>2, <2>4
    <3>3. lease' \in Polls \cup {Free} /\ cancels' \in 0 .. MaxCancels
      BY <1>1, <1>2, <1>3
    <3> QED
      BY <1>1, <1>2, <2>4, <2>5, <3>1, <3>2, <3>3, RowTyped
  <2>7. ASSUME Strong PROVE Strong'
    <3>1. Fenced(p) /\ \A q \in Polls : ~Fenced(q)'
      BY <1>1, <1>3, <1>5, CloudAgentAssumption DEF Fence, Fenced
    <3>2. ResultHolds(p)
      BY <1>1, <2>7, <3>1 DEF Strong, ResultInv
    <3>3. /\ ReadIsRow' /\ ResultInv' /\ OneReply'
          /\ NoneAt("launch") => NoneAt("launch")'
          /\ NoneAt("reply") => NoneAt("reply")'
      BY <2>5, <2>7, <3>1, NothingYet, NobodyFenced
    <3>4. MarkedFirst'
      BY <1>2, <2>2, <2>4, <2>7, <3>2, <3>3 DEF Strong, MarkedFirst, ResultHolds
    <3>5. RunsKnown'
      <4>1. CASE out.remote
        <5>1. launched /\ runs > 0 /\ out.latest = runs /\ out.latest <= agent.generation + 1 /\ NoneAt("reply")
          BY <2>7, <3>2, <4>1 DEF Strong, MarkedFirst, ResultHolds
        <5> QED
          BY <1>2, <2>4, <3>3, <4>1, <5>1 DEF RunsKnown
      <4>2. CASE ~out.remote
        <5>1. runs <= 1 /\ agent.generation = 0 /\ NoneAt("reply")
          BY <2>7, <3>2, <4>2 DEF Strong, RunsKnown, ResultHolds
        <5> QED
          BY <1>2, <2>4, <3>3, <4>2, <5>1 DEF RunsKnown
      <4> QED
        BY <4>1, <4>2
    <3> QED
      BY <3>3, <3>4, <3>5 DEF Strong
  <2> QED
    BY <1>2, <2>6, <2>7 DEF AgentInv
<1> QED
  BY <1>4, <1>5

-----------------------------------------------------------------------------
(* The theorems *)

LEMMA AgentPreserves == AgentInv /\ [CloudAgentNext]_agentVars => AgentInv'
<1> SUFFICES ASSUME AgentInv, [CloudAgentNext]_agentVars PROVE AgentInv'
  OBVIOUS
<1>1. CASE LaunchTool
  BY <1>1, LaunchToolKeeps
<1>2. CASE ReplyTool
  BY <1>2, ReplyToolKeeps
<1>3. CASE CancelTool
  BY <1>3, CancelToolKeeps
<1>4. CASE ExpireLease \/ RunEnds \/ Detach
  BY <1>4, OutsideKeeps
<1>5. ASSUME NEW p \in Polls, ReadAgent(p) \/ PollStep(p) \/ PollDies(p) PROVE AgentInv'
  <2>1. CASE ReadAgent(p)
    BY <2>1, ReadAgentKeeps
  <2>2. CASE ClaimLease(p)
    BY <2>2, ClaimLeaseKeeps
  <2>3. CASE Abandon(p)
    BY <2>3, AbandonKeeps
  <2>4. CASE MarkLaunch(p)
    BY <2>4, MarkLaunchKeeps
  <2>5. CASE Launch(p)
    BY <2>5, LaunchKeeps
  <2>6. CASE MarkReply(p)
    BY <2>6, MarkReplyKeeps
  <2>7. CASE SendReply(p)
    BY <2>7, SendReplyKeeps
  <2>8. CASE CancelRemote(p) \/ Watch(p)
    BY <2>8, AskKeeps
  <2>9. CASE FinishPoll(p)
    BY <2>9, FinishPollKeeps
  <2>10. CASE Release(p) \/ PollDies(p)
    BY <2>10, ReleaseKeeps
  <2> QED
    BY <1>5, <2>1, <2>2, <2>3, <2>4, <2>5, <2>6, <2>7, <2>8, <2>9, <2>10 DEF PollStep
<1>6. CASE UNCHANGED agentVars
  <2>1. UNCHANGED agent /\ UNCHANGED lease /\ UNCHANGED attached /\ UNCHANGED poll /\ UNCHANGED accepts
        /\ UNCHANGED launched /\ UNCHANGED runs /\ UNCHANGED busy /\ UNCHANGED stale
        /\ UNCHANGED cancels /\ UNCHANGED troubles
    BY <1>6 DEF agentVars
  <2>2. AgentTypes'
    BY <2>1 DEF AgentInv, AgentTypes, CloudAgentTypeOK, SeenInv
  <2>3. ASSUME Strong PROVE Strong'
    <3>1. (\A q \in Polls : Fenced(q)' <=> Fenced(q)) /\ (\A pc : NoneAt(pc)' <=> NoneAt(pc))
      BY <2>1 DEF Fenced, NoneAt
    <3>2. ReadIsRow' /\ MarkedFirst' /\ RunsKnown' /\ OneReply'
      BY <2>1, <2>3, <3>1 DEF Strong, ReadIsRow, MarkedFirst, RunsKnown, OneReply, Fenced, NoneAt
    <3>3. ResultInv'
      BY <2>1, <2>3, <3>1 DEF Strong, ResultInv, ResultHolds
    <3> QED
      BY <3>2, <3>3 DEF Strong
  <2> QED
    BY <2>1, <2>2, <2>3 DEF AgentInv
<1> QED
  BY <1>1, <1>2, <1>3, <1>4, <1>5, <1>6 DEF CloudAgentNext

LEMMA AgentHolds == CloudAgentSpec => []AgentInv
BY AgentStarts, AgentPreserves, PTL DEF CloudAgentSpec

\* The row, the lease and the polls of a cloud agent stay within their types, and a row is due
\* exactly while it runs or a cancellation waits, for any number of polls.  (pollCloudAgent)
THEOREM CloudAgentTypeCorrect == CloudAgentSpec => []CloudAgentTypeOK
<1>1. AgentInv => CloudAgentTypeOK
  BY DEF AgentInv, AgentTypes
<1> QED
  BY <1>1, AgentHolds, PTL

\* However polls overlap, stall, die and lose answers, the provider has at most one run for the
\* launch and one for each follow-up.  (pollCloudAgent)
THEOREM PromptedOnceAlways == CloudAgentSpec => []PromptedOnce
<1>1. AgentInv => PromptedOnce
  <2> SUFFICES ASSUME AgentInv, ~stale PROVE runs <= agent.generation + 1
    BY DEF PromptedOnce
  <2>1. Strong /\ AgentTypes /\ agent \in AgentRows
    BY AgentTypesAre DEF AgentInv, AgentTypes
  <2>2. agent.generation \in Nat /\ agent.latest \in Nat
    BY <2>1, CloudAgentAssumption DEF AgentRows
  <2>3. agent.sending => agent.followup
    BY <2>1 DEF Strong, MarkedFirst
  <2> QED
    BY <2>1, <2>2, <2>3 DEF Strong, RunsKnown
<1> QED
  BY <1>1, AgentHolds, PTL

\* Once the row asks for no more polls, the provider runs nothing for it.  (finishPoll)
THEOREM NothingLeftRunningAlways == CloudAgentSpec => []NothingLeftRunning
<1>1. AgentInv => NothingLeftRunning
  BY DEF AgentInv, Strong, MarkedFirst, NothingLeftRunning
<1> QED
  BY <1>1, AgentHolds, PTL

=============================================================================
