-------------------------------- MODULE Outcomes --------------------------------
(***************************************************************************)
(* The outcome of a delegated run goes back to the bot that asked for it.  *)
(* The worker returns it as soon as the run has ended, and the reconciler  *)
(* returns whatever is still owed, a batch of the oldest at a time; both   *)
(* may be at it for the same run.                                          *)
(***************************************************************************)
EXTENDS Naturals, Sequences, SequencesExt, FiniteSets

CONSTANTS
  Delegated,   \* runs that another bot's message started
  OwedBatch,   \* batchSize of the reconciler
  MaxErrors    \* bound: errors and crashes

ASSUME OutcomesAssumption == IsFiniteSet(Delegated) /\ OwedBatch \in Nat \ {0} /\ MaxErrors \in Nat

VARIABLES
  ending,    \* Run.status; "swept" is a run cancelled by the stuck-work sweep
  told,      \* runs whose bot sent its result itself, in its turn
  callers,   \* runs whose caller can still be addressed
  byAge,     \* the runs by updatedAt, oldest first
  notes,     \* outcome messages in the caller's thread, per run
  returned,  \* botOutcomeReturnedAt is set
  giving,    \* where the worker and the reconciler are in returnBotMessageOutcome
  errors

outcomesVars == <<ending, told, callers, byAge, notes, returned, giving, errors>>

Givers == {"worker", "reconciler"}
Ended == {"completed", "failed"}

OutcomesTypeOK ==
  /\ ending \in [Delegated -> Ended \cup {"running", "waiting", "swept"}]
  /\ told \subseteq Delegated /\ callers \subseteq Delegated /\ returned \subseteq Delegated
  /\ byAge \in SetToSeqs(Delegated)
  /\ notes \in [Delegated -> 0 .. 2]
  /\ giving \in [Givers \X Delegated -> {"idle", "look", "send", "mark", "bump"}]
  /\ errors \in 0 .. MaxErrors
  /\ \A d \in returned : ending[d] \in Ended

OutcomesInit ==
  /\ ending = [d \in Delegated |-> "running"]
  /\ told = {} /\ returned = {} /\ callers = Delegated
  /\ byAge \in SetToSeqs(Delegated)
  /\ notes = [d \in Delegated |-> 0]
  /\ giving = [w \in Givers \X Delegated |-> "idle"]
  /\ errors = 0

\* A write to the run moves its updatedAt: it goes from its place to the end.
PlaceOf(d) == CHOOSE i \in DOMAIN byAge : byAge[i] = d
Touched(d) == Append(RemoveAt(byAge, PlaceOf(d)), d)
GivingTo(w, d, pc) == giving' = [giving EXCEPT ![<<w, d>>] = pc]

--------------------------------------------------------------------------------
(* The delegated run and its caller *)

\* message_bot with the intent "result", before the turn ends.
Tell(d) ==
  /\ ending[d] = "running" /\ d \in callers
  /\ told' = told \cup {d}
  /\ UNCHANGED <<ending, callers, byAge, notes, returned, giving, errors>>

\* finalizeRun, and the return that follows in the same invocation.
EndRun(d, as) ==
  /\ ending[d] = "running"
  /\ ending' = [ending EXCEPT ![d] = as]
  /\ byAge' = Touched(d)
  /\ GivingTo("worker", d, "look")
  /\ UNCHANGED <<told, callers, notes, returned, errors>>

\* The run waits for its user, and is continued or given up.
Move(d, from, to) ==
  /\ ending[d] = from
  /\ ending' = [ending EXCEPT ![d] = to]
  /\ byAge' = Touched(d)
  /\ UNCHANGED <<told, callers, notes, returned, giving, errors>>

\* The caller is archived.
LoseCaller(d) ==
  /\ d \in callers
  /\ callers' = callers \ {d}
  /\ UNCHANGED <<ending, told, byAge, notes, returned, giving, errors>>

--------------------------------------------------------------------------------
(* returnBotMessageOutcome *)

Unreturned == {d \in Delegated : d \notin returned /\ ending[d] \in Ended \cup {"swept"}}

Older(d, e) == \E i, j \in DOMAIN byAge : i < j /\ byAge[i] = d /\ byAge[j] = e
Oldest(n, ds) == {d \in ds : Cardinality({e \in ds : Older(e, d)}) < n}

\* The next round starts when the last one is over.
Round ==
  /\ Unreturned # {} /\ \A d \in Delegated : giving["reconciler", d] = "idle"
  /\ giving' = [g \in DOMAIN giving |->
       IF g[1] = "reconciler" /\ g[2] \in Oldest(OwedBatch, Unreturned) THEN "look" ELSE giving[g]]
  /\ UNCHANGED <<ending, told, callers, byAge, notes, returned, errors>>

\* Not returned: the reconciler moves the run to the end of the line.
NotReturned(w, d) == GivingTo(w, d, IF w = "reconciler" THEN "bump" ELSE "idle")

\* An explicit result needs no automatic one, and a caller that is gone gets none.
LookAt(w, d) ==
  /\ giving[w, d] = "look"
  /\ IF d \in told THEN GivingTo(w, d, "mark")
     ELSE IF d \in callers THEN GivingTo(w, d, "send")
     ELSE NotReturned(w, d)
  /\ UNCHANGED <<ending, told, callers, byAge, notes, returned, errors>>

\* Mutant: sent again unless it has been marked as returned.
ReplayedMutantMarked(d) == d \in returned

\* The key auto-outcome:<run> is looked up under the locks of both threads.
Replayed(d) == notes[d] > 0

\* messageBot with allowTerminalSource.
SendOutcome(w, d) ==
  /\ giving[w, d] = "send"
  /\ IF Replayed(d)
     THEN GivingTo(w, d, "mark") /\ UNCHANGED notes
     ELSE IF ending[d] \in Ended /\ d \in callers
     THEN GivingTo(w, d, "mark") /\ notes' = [notes EXCEPT ![d] = @ + 1]
     ELSE NotReturned(w, d) /\ UNCHANGED notes
  /\ UNCHANGED <<ending, told, callers, byAge, returned, errors>>

\* markBotOutcomeReturned
Mark(w, d) ==
  /\ giving[w, d] = "mark"
  /\ returned' = IF ending[d] \in Ended THEN returned \cup {d} ELSE returned
  /\ byAge' = Touched(d)
  /\ GivingTo(w, d, "idle")
  /\ UNCHANGED <<ending, told, callers, notes, errors>>

\* Mutant: what could not be returned keeps its place in the line.
BumpMutantStays(d) ==
  /\ giving["reconciler", d] = "bump"
  /\ GivingTo("reconciler", d, "idle")
  /\ UNCHANGED <<ending, told, callers, byAge, notes, returned, errors>>

Bump(d) ==
  /\ giving["reconciler", d] = "bump"
  /\ byAge' = IF d \in returned THEN byAge ELSE Touched(d)
  /\ GivingTo("reconciler", d, "idle")
  /\ UNCHANGED <<ending, told, callers, notes, returned, errors>>

\* A statement fails, or its answer is lost after it took effect.
ReturnFails(w, d) ==
  /\ giving[w, d] \in {"look", "send", "mark"} /\ errors < MaxErrors
  /\ errors' = errors + 1
  /\ NotReturned(w, d)
  /\ UNCHANGED <<ending, told, callers, byAge, notes, returned>>

\* The process of the workers and of the reconciler dies.
ReturnersDie ==
  /\ \E g \in DOMAIN giving : giving[g] # "idle"
  /\ errors < MaxErrors /\ errors' = errors + 1
  /\ giving' = [g \in DOMAIN giving |-> "idle"]
  /\ UNCHANGED <<ending, told, callers, byAge, notes, returned>>

Give(w, d) == LookAt(w, d) \/ SendOutcome(w, d) \/ Mark(w, d)

OutcomesNext ==
  \/ \E d \in Delegated :
       \/ Tell(d) \/ LoseCaller(d) \/ Bump(d)
       \/ \E as \in Ended : EndRun(d, as)
       \/ Move(d, "running", "waiting") \/ Move(d, "waiting", "running")
       \/ Move(d, "waiting", "swept")
       \/ \E w \in Givers : Give(w, d) \/ ReturnFails(w, d)
  \/ Round \/ ReturnersDie

\* The reconciler makes its rounds, and an invocation goes on.
OutcomesFairness ==
  /\ WF_outcomesVars(Round)
  /\ \A d \in Delegated :
       WF_outcomesVars(Bump(d)) /\ \A w \in Givers : WF_outcomesVars(Give(w, d))

OutcomesSpec == OutcomesInit /\ [][OutcomesNext]_outcomesVars /\ OutcomesFairness

--------------------------------------------------------------------------------
\* The caller gets one outcome, whoever returns it how often: never both the bot's own
\* result and an automatic one, and never two of these.  (returnBotMessageOutcome,
\* messageBot's delivery key)
OutcomeOnce == \A d \in Delegated : notes[d] + (IF d \in told THEN 1 ELSE 0) <= 1

\* A run that completed or failed returns its outcome as long as somebody can be told,
\* even if the process dies in between and older runs can never return theirs.  (A run that
\* ended stays so.)  (reconcileOnce, outcomes)
OutcomeArrives ==
  \A d \in Delegated :
    <>[](ending[d] \in Ended => notes[d] > 0 \/ d \in told \/ d \notin callers)

\* "A delegated wait the stuck sweep gave up on still owes its caller an answer, and the
\* status line it left is that answer."  (job-reconciler.ts:259; messageBot sends it for
\* completed and failed runs only)
SweptWaitAnswers ==
  \A d \in Delegated :
    ending[d] = "swept" ~> (notes[d] > 0 \/ d \in told \/ d \notin callers)
================================================================================
