-------------------------------- MODULE Outcome --------------------------------
(***************************************************************************)
(* What a thread promises its user, with no worker, lease, job or retry in *)
(* sight.  Work is accepted; it goes on or waits for the user, back and    *)
(* forth; it ends once.  Messages left over when work ends are answered by *)
(* a continuation accepted in the same step, and only when nothing else is *)
(* going on.  Stop and clear end everything at once.                       *)
(*                                                                         *)
(* RunLifecycle implements it: see Promise there.                           *)
(***************************************************************************)
CONSTANT Works        \* identities of pieces of work

VARIABLE phase        \* phase[w]: what the user sees of w

Open == {"working", "waiting"}
Ended == {"completed", "failed", "cancelled"}

TypeOK == phase \in [Works -> {"none"} \cup Open \cup Ended]

Init == phase = [w \in Works |-> "none"]

\* The thread is idle once the steps so far (p) are counted.
Quiet(p) == \A w \in Works : p[w] \notin Open

\* A message, reaction or background trigger is accepted as new work.
Accept(w) ==
  /\ phase[w] = "none"
  /\ phase' = [phase EXCEPT ![w] = "working"]

\* The work asks a question or for a hand at the screen.
Park(w) ==
  /\ phase[w] = "working"
  /\ phase' = [phase EXCEPT ![w] = "waiting"]

\* The user answers, releases the screen or changes the subject, or a delivery
\* that was late continues the work unasked.
Resume(w) ==
  /\ phase[w] = "waiting"
  /\ phase' = [phase EXCEPT ![w] = "working"]

\* Work ends as p says. What it left over is taken up by new work in the same
\* step, and only when the thread falls quiet.
EndWith(p) ==
  \/ phase' = p
  \/ /\ Quiet(p)
     /\ \E n \in Works : p[n] = "none" /\ phase' = [p EXCEPT ![n] = "working"]

Deliver(w) ==
  /\ phase[w] = "working"
  /\ \E outcome \in {"completed", "failed"} : EndWith([phase EXCEPT ![w] = outcome])

\* Work nobody came back to is given up.
GiveUp(w) ==
  /\ phase[w] \in Open
  /\ EndWith([phase EXCEPT ![w] = "cancelled"])

\* Stop and clear: everything open is cancelled, nothing else changes.
CancelAll ==
  phase' = [w \in Works |-> IF phase[w] \in Open THEN "cancelled" ELSE phase[w]]

Next ==
  \/ \E w \in Works : Accept(w) \/ Park(w) \/ Resume(w) \/ Deliver(w) \/ GiveUp(w)
  \/ CancelAll

Spec == Init /\ [][Next]_phase
=============================================================================
