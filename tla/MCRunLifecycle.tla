---------------------------- MODULE MCRunLifecycle ----------------------------
(* RunLifecycle on small instances. Each .cfg picks the sets and bounds.     *)
EXTENDS RunLifecycle, Integers, TLC

CONSTANTS c1, c2, p1, p2

\* Two invocations inside one worker process (runs.leaseOwner is its pid), or in
\* two processes.
Shared == (c1 :> p1) @@ (c2 :> p1)
Apart == (c1 :> p1) @@ (c2 :> p2)
Single == c1 :> p1

NoWakes == {}

Symmetry == Permutations(Runs)

\* What of a state the actions can tell apart. The lease columns of a run that
\* has ended and the jobs pending for it are never read again, and a fence is
\* only compared: with the fence of the same run elsewhere, and with MaxFence.
Capped(f) == IF f < MaxFence THEN f ELSE MaxFence

RowSeen(r) ==
  IF Active(r) THEN [run[r] EXCEPT !.fence = Capped(@)]
  ELSE [run[r] EXCEPT !.fence = 0, !.owner = NoProc, !.live = FALSE, !.ckpt = "none", !.fails = 0]

FenceSeen(c) ==
  LET r == cont[c].run IN
  IF r = NoRun \/ ~Active(r) THEN <<>> ELSE <<Capped(cont[c].fence), cont[c].fence - run[r].fence>>

ContSeen(c) == <<[cont[c] EXCEPT !.fence = 0], FenceSeen(c)>>

View == <<[r \in Runs |-> RowSeen(r)], [c \in Conts |-> ContSeen(c)],
          row, sent, {r \in jobs : Active(r)}, ctl, userHolds, faults>>

\* The same with every job, for the liveness runs: no step of the system is then
\* hidden, so the fair behaviours of the quotient are those of the system.
LiveView == <<View, jobs>>

\* Two bounds at once: two invocations, a fault and the user for one run; one invocation
\* that is neither lost nor disturbed for several runs of the conversation.
Used == {r \in Runs : run[r] # NoRow}
Together ==
  \/ Cardinality(Used) <= 1
  \/ faults = 0 /\ ~userHolds /\ ctl = NoRun /\ cont[c2] = Idle /\ \A r \in Runs : run[r].fence <= 1
=============================================================================
