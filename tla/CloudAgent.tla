-------------------------------- MODULE CloudAgent --------------------------------
(***************************************************************************)
(* One cloud agent: the row that holds what its user wants of it, and the  *)
(* polls that carry that out at the provider under a lease.  The provider  *)
(* is external: it creates an agent once per idempotency key, runs one     *)
(* prompt at a time, and rejects a request for good or fails without an    *)
(* answer; it accepts a creation always or never.  The version that a poll *)
(* compares is a mark on the polls that still have the current one.        *)
(***************************************************************************)
EXTENDS Naturals, FiniteSets

CONSTANTS
  Polls,        \* cloud_agent.poll jobs that may run at the same time
  MaxPrompts,   \* bound: follow-ups
  MaxCancels,   \* bound: cancel requests
  MaxTroubles   \* bound: calls without an answer, crashes and stalls past the lease

Free == "none"

ASSUME CloudAgentAssumption ==
  Free \notin Polls /\ MaxPrompts \in Nat /\ MaxCancels \in Nat /\ MaxTroubles \in Nat

VARIABLES
  agent,       \* the row
  lease,       \* the poll whose leaseToken is stored
  attached,    \* the card, the membership and the bot are still there
  poll,        \* the locals of each poll
  accepts, launched, runs, busy,  \* the provider: whether it creates the agent and has, its
               \* runs, and whether the last one runs
  stale,       \* history: a poll claimed the lease with a row read before another's mark
  cancels, troubles

agentVars == <<agent, lease, attached, poll, accepts, launched, runs, busy, stale, cancels,
               troubles>>
cloud == <<accepts, launched, runs, busy>>

AgentRows ==
  [status : {"none", "running", "ended"}, remote : BOOLEAN, dispatched : BOOLEAN, cancel : BOOLEAN,
   followup : BOOLEAN, sending : BOOLEAN, latest : Nat,
   generation : 0 .. MaxPrompts, woken : 0 .. MaxPrompts + 1, due : BOOLEAN]
Results == [ended : BOOLEAN, remote : BOOLEAN, latest : Nat, cancel : BOOLEAN]

\* As the tool stores it, with its card.  woken is wakeGeneration + 1.
NewAgent ==
  [status |-> "running", remote |-> FALSE, dispatched |-> FALSE, cancel |-> FALSE,
   followup |-> FALSE, sending |-> FALSE, latest |-> 0, generation |-> 0, woken |-> 0, due |-> TRUE]
NoAgent == [NewAgent EXCEPT !.status = "none", !.due = FALSE]
NoResult == [ended |-> FALSE, remote |-> FALSE, latest |-> 0, cancel |-> FALSE]
NoPoll == [pc |-> "idle", current |-> FALSE, seen |-> NewAgent, out |-> NoResult]

CloudAgentTypeOK ==
  /\ agent \in AgentRows /\ lease \in Polls \cup {Free} /\ attached \in BOOLEAN
  /\ poll \in [Polls -> [pc : {"idle", "claim", "decide", "launch", "reply", "finish", "release"},
                         current : BOOLEAN, seen : AgentRows, out : Results]]
  /\ accepts \in BOOLEAN /\ launched \in BOOLEAN /\ runs \in Nat /\ busy \in BOOLEAN
  /\ stale \in BOOLEAN /\ cancels \in 0 .. MaxCancels /\ troubles \in 0 .. MaxTroubles
  /\ agent.due <=> agent.status = "running" \/ agent.cancel

CloudAgentInit ==
  /\ agent = NoAgent /\ lease = Free /\ attached = TRUE
  /\ poll = [p \in Polls |-> NoPoll]
  /\ accepts \in BOOLEAN /\ launched = FALSE /\ runs = 0 /\ busy = FALSE
  /\ stale = FALSE /\ cancels = 0 /\ troubles = 0

Trouble == troubles < MaxTroubles /\ troubles' = troubles + 1

\* The version is incremented: every poll under way has an old one.
NewVersion == [p \in Polls |-> [poll[p] EXCEPT !.current = FALSE]]

--------------------------------------------------------------------------------
(* The user and the provider *)

\* cloud_agent_launch, once for its operation; the reconciler finds it if the poll is not
\* queued.
LaunchTool ==
  /\ agent.status = "none" /\ attached
  /\ agent' = NewAgent
  /\ UNCHANGED <<lease, attached, poll, cloud, stale, cancels, troubles>>

\* cloud_agent_reply, by the version it has read.
ReplyTool ==
  /\ agent.status = "ended" /\ ~agent.followup /\ ~agent.cancel /\ agent.remote
  /\ agent.generation < MaxPrompts
  /\ agent' = [agent EXCEPT !.followup = TRUE, !.sending = FALSE, !.status = "running",
                            !.generation = @ + 1, !.due = TRUE]
  /\ poll' = NewVersion
  /\ UNCHANGED <<lease, attached, cloud, stale, cancels, troubles>>

CancelTool ==
  /\ agent.status # "none" /\ cancels < MaxCancels /\ cancels' = cancels + 1
  /\ agent' = [agent EXCEPT !.cancel = TRUE, !.due = TRUE]
  /\ poll' = NewVersion
  /\ UNCHANGED <<lease, attached, cloud, stale, troubles>>

\* The thread is cleared, the bot archived or the user removed.
Detach ==
  /\ attached
  /\ attached' = FALSE
  /\ UNCHANGED <<agent, lease, poll, cloud, stale, cancels, troubles>>

RunEnds ==
  /\ busy
  /\ busy' = FALSE
  /\ UNCHANGED <<agent, lease, attached, poll, accepts, launched, runs, stale, cancels, troubles>>

--------------------------------------------------------------------------------
(* pollCloudAgent *)

Stop(p) == ~attached \/ poll[p].seen.cancel
Unlaunched(p) == ~poll[p].seen.remote /\ ~poll[p].seen.dispatched

\* Mutant: a follow-up without an answer is sent again.
NotSentMutantResends(p) == poll[p].seen.followup

NotSent(p) == poll[p].seen.followup /\ ~poll[p].seen.sending

PollTo(p, pc) == poll' = [poll EXCEPT ![p].pc = pc]
Result(p, ended, latest, cancel) ==
  poll' = [poll EXCEPT ![p].pc = "finish",
    ![p].out = [ended |-> ended, remote |-> latest > 0 \/ poll[p].seen.remote,
                latest |-> IF latest > 0 THEN latest ELSE poll[p].seen.latest, cancel |-> cancel]]

\* fence: the version and the lease are the poll's own.
Fence(p) == poll[p].current /\ lease = p

ReadAgent(p) ==
  /\ poll[p].pc = "idle" /\ agent.due
  /\ poll' = [poll EXCEPT ![p] = [NoPoll EXCEPT !.pc = "claim", !.current = TRUE, !.seen = agent]]
  /\ UNCHANGED <<agent, lease, attached, cloud, stale, cancels, troubles>>

ClaimLease(p) ==
  /\ poll[p].pc = "claim"
  /\ IF poll[p].current /\ lease = Free
     THEN /\ lease' = p /\ PollTo(p, "decide")
          /\ stale' = (stale \/ poll[p].seen # agent)
     ELSE poll' = [poll EXCEPT ![p] = NoPoll] /\ UNCHANGED <<lease, stale>>
  /\ UNCHANGED <<agent, attached, cloud, cancels, troubles>>

\* Nothing has reached the provider that would have to be stopped there.
Abandon(p) ==
  /\ poll[p].pc = "decide" /\ Stop(p)
  /\ Unlaunched(p) \/ (poll[p].seen.remote /\ NotSent(p))
  /\ Result(p, TRUE, 0, FALSE)
  /\ UNCHANGED <<agent, lease, attached, cloud, stale, cancels, troubles>>

\* The intent is written before the call.
MarkLaunch(p) ==
  /\ poll[p].pc = "decide" /\ ~poll[p].seen.remote /\ ~(Stop(p) /\ Unlaunched(p))
  /\ IF Fence(p)
     THEN agent' = [agent EXCEPT !.dispatched = TRUE] /\ PollTo(p, "launch")
     ELSE PollTo(p, "release") /\ UNCHANGED agent
  /\ UNCHANGED <<lease, attached, cloud, stale, cancels, troubles>>

\* The creation is accepted, once for its key; rejected; or unanswered.
Launch(p) ==
  /\ poll[p].pc = "launch"
  /\ \/ /\ accepts /\ launched' = TRUE
        /\ IF launched THEN UNCHANGED <<runs, busy>> ELSE runs' = 1 /\ busy' = TRUE
        /\ \/ Result(p, ~busy', runs', poll[p].seen.cancel) /\ UNCHANGED troubles
           \/ Trouble /\ PollTo(p, "release")
     \/ /\ ~accepts /\ Result(p, TRUE, 0, FALSE)
        /\ UNCHANGED <<launched, runs, busy, troubles>>
     \/ Trouble /\ PollTo(p, "release") /\ UNCHANGED <<launched, runs, busy>>
  /\ UNCHANGED <<agent, lease, attached, accepts, stale, cancels>>

MarkReply(p) ==
  /\ poll[p].pc = "decide" /\ poll[p].seen.remote /\ ~Stop(p) /\ NotSent(p)
  /\ IF Fence(p)
     THEN agent' = [agent EXCEPT !.sending = TRUE] /\ PollTo(p, "reply")
     ELSE PollTo(p, "release") /\ UNCHANGED agent
  /\ UNCHANGED <<lease, attached, cloud, stale, cancels, troubles>>

\* A follow-up has no key: it is accepted as a new run, rejected, or unanswered.
SendReply(p) ==
  /\ poll[p].pc = "reply"
  /\ \/ /\ ~busy /\ runs' = runs + 1 /\ busy' = TRUE
        /\ \/ Result(p, FALSE, runs', FALSE) /\ UNCHANGED troubles
           \/ Trouble /\ PollTo(p, "release")
     \/ Result(p, TRUE, 0, FALSE) /\ UNCHANGED <<runs, busy, troubles>>
     \/ Trouble /\ PollTo(p, "release") /\ UNCHANGED <<runs, busy>>
  /\ UNCHANGED <<agent, lease, attached, accepts, launched, stale, cancels>>

\* What a poll is told of the run it asks for: its own one, or the last.
AskedFor(p) == IF poll[p].seen.sending \/ poll[p].seen.latest = 0 THEN runs ELSE poll[p].seen.latest
HasEnded(p) == AskedFor(p) < runs \/ ~busy'

\* Mutant: the end of the run before confirms the cancellation.
UnresolvedMutantSettles(p) == FALSE

\* A follow-up is under way and no new run has appeared: it may still.
Unresolved(p) ==
  poll[p].seen.followup /\ poll[p].seen.sending /\ AskedFor(p) = poll[p].seen.latest

\* The run is cancelled, at once or later, unless the provider does not answer.
CancelRemote(p) ==
  /\ poll[p].pc = "decide" /\ poll[p].seen.remote /\ Stop(p) /\ ~NotSent(p)
  /\ busy' \in (IF AskedFor(p) = runs THEN {busy, FALSE} ELSE {busy})
  /\ \/ /\ IF Unresolved(p) THEN PollTo(p, "release") ELSE Result(p, HasEnded(p), AskedFor(p), ~HasEnded(p))
        /\ UNCHANGED troubles
     \/ Trouble /\ PollTo(p, "release")
  /\ UNCHANGED <<agent, lease, attached, accepts, launched, runs, stale, cancels>>

Watch(p) ==
  /\ poll[p].pc = "decide" /\ poll[p].seen.remote /\ ~Stop(p) /\ ~NotSent(p)
  /\ busy' = busy
  /\ \/ /\ IF Unresolved(p) THEN PollTo(p, "release") ELSE Result(p, HasEnded(p), AskedFor(p), FALSE)
        /\ UNCHANGED troubles
     \/ Trouble /\ PollTo(p, "release")
  /\ UNCHANGED <<agent, lease, attached, accepts, launched, runs, stale, cancels>>

Released(p) == IF lease = p THEN Free ELSE lease

\* finishPoll: the row, its card and the wake of the bot in one transaction.
FinishPoll(p) ==
  LET out == poll[p].out
      canceling == ~out.ended /\ (~attached \/ out.cancel \/ poll[p].seen.cancel) IN
  /\ poll[p].pc = "finish"
  /\ IF Fence(p)
     THEN /\ agent' = [agent EXCEPT
               !.status = IF out.ended THEN "ended" ELSE "running",
               !.remote = out.remote, !.latest = out.latest, !.cancel = canceling,
               !.followup = FALSE, !.sending = FALSE, !.due = ~out.ended,
               !.woken = IF attached /\ out.ended THEN agent.generation + 1 ELSE @]
          /\ poll' = [NewVersion EXCEPT ![p] = NoPoll]
     ELSE poll' = [poll EXCEPT ![p] = NoPoll] /\ UNCHANGED agent
  /\ lease' = Released(p)
  /\ UNCHANGED <<attached, cloud, stale, cancels, troubles>>

\* retryPoll, or a lost fence; then the lease is released.
Release(p) ==
  /\ poll[p].pc = "release"
  /\ lease' = Released(p) /\ poll' = [poll EXCEPT ![p] = NoPoll]
  /\ UNCHANGED <<agent, attached, cloud, stale, cancels, troubles>>

PollDies(p) ==
  /\ poll[p].pc # "idle" /\ Trouble
  /\ poll' = [poll EXCEPT ![p] = NoPoll]
  /\ UNCHANGED <<agent, lease, attached, cloud, stale, cancels>>

\* Mutant: only a lease that was released can be claimed.
ExpireLeaseMutantNever == FALSE /\ UNCHANGED agentVars

\* leaseExpiresAt passes, after a crash or while the poll is stalled.
ExpireLease ==
  /\ lease # Free
  /\ \/ poll[lease].pc \in {"idle", "claim"} /\ UNCHANGED troubles
     \/ poll[lease].pc \notin {"idle", "claim"} /\ Trouble
  /\ lease' = Free
  /\ UNCHANGED <<agent, attached, poll, cloud, stale, cancels>>

PollStep(p) ==
  \/ ClaimLease(p) \/ Abandon(p) \/ MarkLaunch(p) \/ Launch(p) \/ MarkReply(p) \/ SendReply(p)
  \/ CancelRemote(p) \/ Watch(p) \/ FinishPoll(p) \/ Release(p)

CloudAgentNext ==
  \/ LaunchTool \/ ReplyTool \/ CancelTool \/ Detach \/ RunEnds \/ ExpireLease
  \/ \E p \in Polls : ReadAgent(p) \/ PollStep(p) \/ PollDies(p)

\* Polls of a due row are queued again and again, a poll goes on, leases of the dead expire,
\* and what a provider runs ends.
CloudAgentFairness ==
  /\ WF_agentVars(\E p \in Polls : ReadAgent(p)) /\ WF_agentVars(ExpireLease)
  /\ WF_agentVars(RunEnds)
  /\ \A p \in Polls : WF_agentVars(PollStep(p))

CloudAgentSpec == CloudAgentInit /\ [][CloudAgentNext]_agentVars /\ CloudAgentFairness

--------------------------------------------------------------------------------
\* The user's prompts start one run each at the provider, however polls overlap, stall, die
\* and lose answers, unless a poll claimed the lease with a row it had read before another
\* poll marked the prompt as sent.  (pollCloudAgent)
PromptedOnce == stale \/ runs <= agent.generation + 1

\* Nothing is left running at the provider once the row needs no more polls: a cancelled,
\* failed or abandoned agent was stopped, with the same exception.  (pollCloudAgent)
NothingLeftRunning == stale \/ agent.due \/ ~busy

\* Every prompt comes to an end that wakes its bot, even if the user cancels or polls die:
\* unless the bot is gone, or the follow-up never arrived, which a poll cannot tell from one
\* that is late.  (pollCloudAgent, finishPoll)
AgentWakes ==
  \A g \in 0 .. MaxPrompts :
    agent.status # "none" /\ agent.generation = g ~>
      \/ agent.woken > g \/ ~attached
      \/ agent.sending /\ agent.latest = runs /\ \A p \in Polls : poll[p].pc # "reply"
================================================================================
