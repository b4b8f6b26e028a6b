--------------------------------- MODULE Outbox ---------------------------------
(***************************************************************************)
(* The messaging outbox: rows of messaging_outbound are written by the     *)
(* mirror, by confirmations and by agent-connection requests, and drained  *)
(* by jobs that may run concurrently (messaging-delivery.ts).  A connect   *)
(* invite is sent under the lock of its agent_connections row, against     *)
(* which answers and revocations race (agent-connections.ts, router.ts).   *)
(*                                                                         *)
(* One recipient: the identity with its consecutive-outbound counter, and  *)
(* one pair of bots.  The messaging provider is external: it accepts or    *)
(* refuses a message, and its answer may be lost.                          *)
(***************************************************************************)
EXTENDS Naturals, FiniteSets

CONSTANTS
  NRows,        \* bound: rows ever written, numbered in the order of createdAt
  Drains,       \* concurrent executions of drain
  NoDrain,
  MaxAttempts,  \* MESSAGING_OUTBOUND_MAX_ATTEMPTS
  Cap,          \* MESSAGING_DM_OUTBOUND_CAP
  MaxFaults,    \* bound: provider errors, database errors, timeouts and crashes
  MaxInbound    \* bound: replies of the recipient

ASSUME NoDrainAssumption == NoDrain \notin Drains
ASSUME FiniteDrains == IsFiniteSet(Drains)
ASSUME OutboxBounds ==
  /\ NRows \in Nat /\ MaxAttempts \in Nat \ {0} /\ Cap \in Nat
  /\ MaxFaults \in Nat /\ MaxInbound \in Nat

VARIABLES
  out,        \* messaging_outbound
  created,    \* rows written so far
  conn,       \* agent_connections.status of the pair
  lock,       \* the drain whose transaction holds the connection row, or NoDrain
  drain,      \* the local state of each drain
  job,        \* a messaging.deliver job is pending
  linked,     \* the recipient's messaging_identities row exists
  since,      \* messaging_identities.outboundSinceInbound
  inbound,    \* replies so far
  faults,     \* disturbances so far
  accepted,   \* per row, how often the provider accepted it
  doubt,      \* per row, how often an accepted send ended in an error
  unanswered  \* messages the recipient got since their last reply

vars == <<out, created, conn, lock, drain, job, linked, since, inbound, faults,
          accepted, doubt, unanswered>>

\* The provider's side, and what the drains were told of it.
provider == <<accepted, doubt, unanswered>>

Rows == 1..NRows
Kinds == {"dm", "group", "invite"}

\* due says that nextAttemptAt is null or has passed; handle that providerHandle
\* is set. A deleted row's identity is not used again.
Row == [status: {"none", "pending", "sent", "failed", "deleted"}, kind: Kinds,
        attempts: Nat, due: BOOLEAN, handle: BOOLEAN]

NewRow(kind) == [status |-> "pending", kind |-> kind, attempts |-> 0, due |-> TRUE, handle |-> FALSE]
NoRow == [NewRow("dm") EXCEPT !.status = "none"]

\* Where a drain stands with its row: claimed; free to be sent; waiting for the
\* connection row; sending under its lock, or after its transaction expired;
\* accepted with the handle still to be written, or the counter; in error.
Phases == {"idle", "loop", "claimed", "sending", "invite", "inviting", "expired",
           "answered", "sent", "count", "caught"}

\* todo is what is left of the snapshot, as <<row, attempts>>; tries the attempts
\* the snapshot gives the current row.
Drain == [pc: Phases, todo: SUBSET (Rows \X Nat), row: {0} \cup Rows, tries: Nat]
Idle == [pc |-> "idle", todo |-> {}, row |-> 0, tries |-> 0]

TypeOK ==
  /\ out \in [Rows -> Row]
  /\ created \in 0..NRows
  /\ conn \in {"none", "pending", "approved", "declined", "revoked"}
  /\ lock \in Drains \cup {NoDrain}
  /\ drain \in [Drains -> Drain]
  /\ \A d \in Drains : drain[d].pc \notin {"idle", "loop"} => drain[d].row \in Rows
  /\ job \in BOOLEAN /\ linked \in BOOLEAN
  /\ since \in Nat /\ inbound \in Nat /\ faults \in Nat
  /\ accepted \in [Rows -> Nat] /\ doubt \in [Rows -> Nat] /\ unanswered \in Nat

Init ==
  /\ out = [k \in Rows |-> NoRow]
  /\ created = 0
  /\ conn = "none"
  /\ lock = NoDrain
  /\ drain = [d \in Drains |-> Idle]
  /\ job = FALSE
  /\ linked = TRUE
  /\ since = 0 /\ inbound = 0 /\ faults = 0
  /\ accepted = [k \in Rows |-> 0]
  /\ doubt = [k \in Rows |-> 0]
  /\ unanswered = 0

-----------------------------------------------------------------------------
(* Shared vocabulary. *)

Fault == faults < MaxFaults /\ faults' = faults + 1
NoFault == faults' = faults

\* jobs.enqueue(messagingDeliverJob()), whose failure is only logged.
Enqueue ==
  \/ job' = TRUE /\ NoFault
  \/ ~job /\ job' = job /\ Fault

\* The next row of the table, written over rows, a state of the table.
Insert(rows, kind) ==
  /\ created < NRows
  /\ created' = created + 1
  /\ out' = [rows EXCEPT ![created + 1] = NewRow(kind)]

\* The table without some of its rows.
Deleted(kind) == [NewRow(kind) EXCEPT !.status = "deleted"]
Without(rows) == [k \in Rows |-> IF k \in rows THEN Deleted(out[k].kind) ELSE out[k]]

\* The rows of the invite's idempotency key: at most one is left at a time.
Invites == {k \in Rows : out[k].kind = "invite" /\ out[k].status \notin {"none", "deleted"}}

\* The drain works on its row, is done with it, or gives up the whole job.
Goto(d, pc) == drain' = [drain EXCEPT ![d] = [@ EXCEPT !.pc = pc]]
Continue(d) == drain' = [drain EXCEPT ![d] = [@ EXCEPT !.pc = "loop", !.row = 0, !.tries = 0]]
GiveUp(d) == drain' = [drain EXCEPT ![d] = Idle]

\* An updateMany of a row by id: a row deleted meanwhile stays so.
Update(k, row) == out' = [out EXCEPT ![k] = IF out[k].status = "deleted" THEN out[k] ELSE row]

\* The provider accepts row k; the sender of row k gets an error nonetheless.
Accept(k) ==
  /\ accepted' = [accepted EXCEPT ![k] = accepted[k] + 1]
  /\ unanswered' = IF out[k].kind = "group" THEN unanswered ELSE unanswered + 1

Doubt(k) == doubt' = [doubt EXCEPT ![k] = doubt[k] + 1]

-----------------------------------------------------------------------------
(* The writers of the outbox. *)

\* The mirror copies a bot message, or a confirmation or an intro is written.
Post(kind) ==
  /\ Insert(out, kind)
  /\ Enqueue
  /\ UNCHANGED <<conn, lock, drain, linked, since, inbound, provider>>

\* A confirmation of a new cycle replaces the row of the same key.
Rewrite(k) ==
  /\ out[k].kind = "dm" /\ out[k].status \notin {"none", "deleted"}
  /\ Insert(Without({k}), "dm")
  /\ Enqueue
  /\ UNCHANGED <<conn, lock, drain, linked, since, inbound, provider>>

\* connectAgent: the pair's row becomes pending, and one transaction that locks
\* it replaces the invite.
Connect ==
  /\ linked
  /\ conn \notin {"pending", "approved"}
  /\ lock = NoDrain
  /\ conn' = "pending"
  /\ Insert(Without(Invites), "invite")
  /\ Enqueue
  /\ UNCHANGED <<lock, drain, linked, since, inbound, provider>>

\* The target's owner answers by text, in the app (accepting tells the requester)
\* or through the bot. The update waits for the row's lock.
Respond(answer) ==
  /\ conn = "pending" /\ lock = NoDrain
  /\ conn' = answer
  /\ UNCHANGED <<out, created, job, faults>>
  /\ UNCHANGED <<lock, drain, linked, since, inbound, provider>>

\* Revoking cancels the invites that are not delivered, the claimed ones too.
RevokeMutantUnlocked ==
  /\ conn # "none"
  /\ conn' = "revoked"
  /\ out' = Without({k \in Invites : \/ out[k].status = "pending"
                                     \/ out[k].status = "sent" /\ ~out[k].handle})
  /\ UNCHANGED <<created, lock, drain, job, linked, since, inbound, faults, provider>>

Revoke ==
  /\ conn # "none" /\ lock = NoDrain
  /\ conn' = "revoked"
  /\ out' = Without({k \in Invites : \/ out[k].status = "pending"
                                     \/ out[k].status = "sent" /\ ~out[k].handle})
  /\ UNCHANGED <<created, lock, drain, job, linked, since, inbound, faults, provider>>

\* Any reply ends the streak of unanswered messages.
Inbound ==
  /\ linked /\ inbound < MaxInbound
  /\ inbound' = inbound + 1
  /\ since' = 0 /\ unanswered' = 0
  /\ UNCHANGED <<out, created, conn, lock, drain, job, linked, faults, accepted, doubt>>

\* identities.unlink deletes the identity; rows addressed to it cannot be sent.
Unlink ==
  /\ linked /\ linked' = FALSE
  /\ UNCHANGED <<out, created, conn, lock, drain, job, since, inbound, faults, provider>>

\* The status of the provider is written as it came.
WebhookMutantVerbatim(k, status) ==
  /\ out[k].handle /\ out[k].status \notin {"deleted", status}
  /\ out' = [out EXCEPT ![k] = [@ EXCEPT !.status = "DELIVERED"]]
  /\ UNCHANGED <<created, conn, lock, drain, job, linked, since, inbound, faults, provider>>

\* applyMessagingOutboundStatus: a status webhook finds the row by its handle.
Webhook(k, status) ==
  /\ out[k].handle /\ out[k].status \notin {"deleted", status}
  /\ out' = [out EXCEPT ![k] = [@ EXCEPT !.status = status]]
  /\ UNCHANGED <<created, conn, lock, drain, job, linked, since, inbound, faults, provider>>

-----------------------------------------------------------------------------
(* One execution of drain. *)

\* The job starts: the pending rows that are due are read, once.
Start(d) ==
  /\ drain[d].pc = "idle"
  /\ job /\ job' = FALSE
  /\ drain' = [drain EXCEPT ![d] = [Idle EXCEPT !.pc = "loop", !.todo =
       {<<k, out[k].attempts>> : k \in {r \in Rows : out[r].status = "pending" /\ out[r].due}}]]
  /\ UNCHANGED <<out, created, conn, lock, linked, since, inbound, faults, provider>>

Finish(d) ==
  /\ drain[d].pc = "loop" /\ drain[d].todo = {}
  /\ GiveUp(d)
  /\ UNCHANGED <<out, created, conn, lock, job, linked, since, inbound, faults, provider>>

\* The claim without its compare.
claimableMutantAny(k) == out[k].status # "deleted"

\* The claim compares the status alone.
claimable(k) == out[k].status = "pending"

\* The next row of the snapshot, oldest first, is claimed before it is sent.
Claim(d) ==
  /\ drain[d].pc = "loop"
  /\ \E next \in drain[d].todo :
       /\ \A other \in drain[d].todo : next[1] <= other[1]
       /\ LET k == next[1]  rest == drain[d].todo \ {next} IN
          IF claimable(k)
          THEN /\ out' = [out EXCEPT ![k] = [@ EXCEPT !.status = "sent", !.due = TRUE]]
               /\ drain' = [drain EXCEPT ![d] =
                    [pc |-> "claimed", todo |-> rest, row |-> k, tries |-> next[2]]]
          ELSE drain' = [drain EXCEPT ![d] = [@ EXCEPT !.todo = rest]] /\ UNCHANGED out
  /\ UNCHANGED <<created, conn, lock, job, linked, since, inbound, faults, provider>>

\* The recipient is looked up. Without one the row fails; at the cap it is given
\* back; writing either to a row deleted meanwhile is an error.
Check(d) ==
  /\ drain[d].pc = "claimed"
  /\ LET k == drain[d].row
         direct == out[k].kind # "group"
         refused == direct /\ (~linked \/ since >= Cap) IN
     \/ /\ refused /\ out[k].status # "deleted"
        /\ out' = [out EXCEPT ![k] = [@ EXCEPT !.status = IF linked THEN "pending" ELSE "failed"]]
        /\ Continue(d)
     \/ refused /\ out[k].status = "deleted" /\ Goto(d, "caught") /\ UNCHANGED out
     \/ ~refused /\ Goto(d, IF out[k].kind = "invite" THEN "invite" ELSE "sending") /\ UNCHANGED out
  /\ UNCHANGED <<created, conn, lock, job, linked, since, inbound, faults, provider>>

\* The provider takes the message; or refuses it, or its answer is lost.
Send(d) ==
  /\ drain[d].pc = "sending"
  /\ Accept(drain[d].row) /\ Goto(d, "sent")
  /\ UNCHANGED <<out, created, conn, lock, job, linked, since, inbound, faults, doubt>>

SendFails(d) ==
  /\ drain[d].pc \in {"claimed", "sending"}
  /\ Fault
  /\ Goto(d, "caught")
  /\ \/ UNCHANGED provider
     \/ drain[d].pc = "sending" /\ Accept(drain[d].row) /\ Doubt(drain[d].row)
  /\ UNCHANGED <<out, created, conn, lock, job, linked, since, inbound>>

\* The handle is recorded, then the recipient's counter.
Record(d) ==
  /\ drain[d].pc = "sent"
  /\ LET k == drain[d].row IN
     /\ Update(k, [out[k] EXCEPT !.handle = TRUE])
     /\ IF out[k].kind = "group" THEN Continue(d) ELSE Goto(d, "count")
  /\ UNCHANGED <<created, conn, lock, job, linked, since, inbound, faults, provider>>

Count(d) ==
  /\ drain[d].pc = "count" /\ linked
  /\ since' = since + 1
  /\ Continue(d)
  /\ UNCHANGED <<out, created, conn, lock, job, linked, inbound, faults, provider>>

\* Either write fails, the second certainly if the recipient was unlinked.
WriteFails(d) ==
  /\ drain[d].pc \in {"sent", "count"}
  /\ IF drain[d].pc = "count" /\ ~linked THEN NoFault ELSE Fault
  /\ Goto(d, "caught")
  /\ Doubt(drain[d].row)
  /\ UNCHANGED <<out, created, conn, lock, job, linked, since, inbound, accepted, unanswered>>

\* Any error sends the row back to pending, with a retry, until the attempts are
\* exhausted. If the retry cannot be enqueued the job itself is retried.
Caught(d) ==
  /\ drain[d].pc = "caught"
  /\ LET k == drain[d].row
         attempts == drain[d].tries + 1
         exhausted == attempts >= MaxAttempts IN
     /\ Update(k, [out[k] EXCEPT !.attempts = attempts, !.due = exhausted,
                                 !.status = IF exhausted THEN "failed" ELSE "pending"])
     /\ \/ Continue(d) /\ job' = (job \/ ~exhausted) /\ NoFault
        \/ ~exhausted /\ GiveUp(d) /\ job' = TRUE /\ Fault
  /\ UNCHANGED <<created, conn, lock, linked, since, inbound, provider>>

-----------------------------------------------------------------------------
(* sendConnectInvite: the send inside a transaction that holds the pair's row. *)

Unlock(d) == lock' = IF lock = d THEN NoDrain ELSE lock

\* With the row locked, only a pending connection's invite that still exists is
\* sent; another one fails.
LockInvite(d) ==
  /\ drain[d].pc = "invite" /\ lock = NoDrain
  /\ LET k == drain[d].row
         wanted == conn = "pending" /\ out[k].status # "deleted" IN
     /\ lock' = IF wanted THEN d ELSE NoDrain
     /\ IF wanted THEN Goto(d, "inviting") ELSE Continue(d)
     /\ IF conn = "pending" THEN UNCHANGED out ELSE Update(k, [out[k] EXCEPT !.status = "failed"])
  /\ UNCHANGED <<created, conn, job, linked, since, inbound, faults, provider>>

\* The send has no timeout of its own, the transaction has: when it expires the
\* lock is gone and the send goes on.
Timeout(d) ==
  /\ drain[d].pc = "inviting"
  /\ Fault
  /\ Unlock(d) /\ Goto(d, "expired")
  /\ UNCHANGED <<out, created, conn, job, linked, since, inbound, provider>>

\* Accepted in time, or after the transaction expired and with it the claim's
\* last step: the row stays claimed.
SendInvite(d) ==
  /\ drain[d].pc \in {"inviting", "expired"}
  /\ Accept(drain[d].row)
  /\ \/ drain[d].pc = "inviting" /\ Goto(d, "answered") /\ UNCHANGED doubt
     \/ drain[d].pc = "expired" /\ Continue(d) /\ Doubt(drain[d].row)
  /\ UNCHANGED <<out, created, conn, lock, job, linked, since, inbound, faults>>

\* Delivered invites are not counted.
CommitInviteMutantUncounted(d) ==
  /\ drain[d].pc = "answered"
  /\ Update(drain[d].row, [out[drain[d].row] EXCEPT !.handle = TRUE])
  /\ Unlock(d) /\ Continue(d)
  /\ UNCHANGED <<created, conn, job, linked, since, inbound, faults, provider>>

\* The handle is recorded and the transaction commits.
CommitInvite(d) ==
  /\ drain[d].pc = "answered"
  /\ Update(drain[d].row, [out[drain[d].row] EXCEPT !.handle = TRUE])
  /\ Unlock(d) /\ Goto(d, "count")
  /\ UNCHANGED <<created, conn, job, linked, since, inbound, faults, provider>>

\* A refusal, a lost answer or a failed commit leave the row claimed for good.
HoldInvite(d) ==
  /\ drain[d].pc \in {"invite", "inviting", "expired", "answered"}
  /\ Fault
  /\ Unlock(d) /\ Continue(d)
  /\ \/ drain[d].pc # "answered" /\ UNCHANGED provider
     \/ drain[d].pc \in {"inviting", "expired"} /\ Accept(drain[d].row) /\ Doubt(drain[d].row)
     \/ drain[d].pc = "answered" /\ Doubt(drain[d].row) /\ UNCHANGED <<accepted, unanswered>>
  /\ UNCHANGED <<out, created, conn, job, linked, since, inbound>>

-----------------------------------------------------------------------------
(* Time, crashes and recovery. *)

\* nextAttemptAt passes.
Due(k) ==
  /\ ~out[k].due
  /\ out' = [out EXCEPT ![k] = [@ EXCEPT !.due = TRUE]]
  /\ UNCHANGED <<created, conn, lock, drain, job, linked, since, inbound, faults, provider>>

\* The process dies, or the database refuses the snapshot, a claim or the write of
\* a failed attempt. The job may be retried; the row stays claimed.
Crash(d) ==
  /\ drain[d].pc # "idle"
  /\ Fault
  /\ GiveUp(d) /\ Unlock(d)
  /\ job' \in {job, TRUE}
  /\ UNCHANGED <<out, created, conn, linked, since, inbound, provider>>

\* The sweep looks for rows that were never tried.
ReconcileMutantFresh ==
  /\ ~job /\ job' = TRUE
  /\ \E k \in Rows : out[k].status = "pending" /\ out[k].attempts = 0
  /\ UNCHANGED <<out, created, conn, lock, drain, linked, since, inbound, faults, provider>>

\* reconcileOnce enqueues a drain while a pending row is due.
Reconcile ==
  /\ ~job /\ job' = TRUE
  /\ \E k \in Rows : out[k].status = "pending" /\ out[k].due
  /\ UNCHANGED <<out, created, conn, lock, drain, linked, since, inbound, faults, provider>>

-----------------------------------------------------------------------------
Write ==
  \/ \E kind \in {"dm", "group"} : Post(kind)
  \/ \E k \in Rows : Rewrite(k) \/ \E s \in {"sent", "failed"} : Webhook(k, s)
  \/ Connect \/ Revoke \/ \E answer \in {"approved", "declined"} : Respond(answer)
  \/ Inbound \/ Unlink

\* What a drain does when nothing goes wrong.
Advance(d) ==
  \/ Finish(d) \/ Claim(d) \/ Check(d) \/ Send(d) \/ Record(d) \/ Count(d)
  \/ drain[d].pc = "count" /\ ~linked /\ WriteFails(d)
  \/ Caught(d) \/ LockInvite(d) \/ SendInvite(d) \/ CommitInvite(d)

Disturb(d) == SendFails(d) \/ WriteFails(d) \/ Timeout(d) \/ HoldInvite(d) \/ Crash(d)

Next ==
  \/ Write
  \/ \E d \in Drains : Start(d) \/ Advance(d) \/ Disturb(d)
  \/ \E k \in Rows : Due(k)
  \/ Reconcile

Spec == Init /\ [][Next]_vars

\* Drains run on, pending jobs are executed, time passes, the reconciler sweeps.
Fairness ==
  /\ \A d \in Drains : WF_vars(Advance(d))
  /\ WF_vars(\E d \in Drains : Start(d))
  /\ \A k \in Rows : WF_vars(Due(k))
  /\ WF_vars(Reconcile)

LiveSpec == Spec /\ Fairness

-----------------------------------------------------------------------------
(* Properties. *)

Working(d) == drain[d].pc \notin {"idle", "loop"}

\* A row is accepted again only after an accepted send ended in an error: neither
\* concurrent drains nor retries deliver a message twice when its outcome is known
\* (the claim of drain, messaging-delivery.ts).
DuplicatesAreDoubted == \A k \in Rows : accepted[k] <= 1 + doubt[k]

\* While a drain holds the pair's row, the invite it sends is wanted: no answer
\* and no revocation passes between the check and the send (sendConnectInvite).
InviteUnderLock ==
  \A d \in Drains : drain[d].pc \in {"inviting", "answered"} =>
    lock = d /\ conn = "pending" /\ out[drain[d].row].status # "deleted"

\* What makes these inductive. Rows not yet written are blank; a drain works alone on
\* a written row, which is not pending; a row that may be sent again, or is about to
\* be sent, owes its acceptances to errors; only invites take the invite's path.
Unsent == {"claimed", "sending", "invite", "inviting", "expired", "caught"}
Inviting == {"invite", "inviting", "expired", "answered"}

Blank == \A k \in Rows : k > created => out[k] = NoRow /\ accepted[k] = 0

OneWorker ==
  \A d \in Drains : Working(d) =>
    /\ drain[d].row <= created /\ out[drain[d].row].status # "pending"
    /\ \A e \in Drains : Working(e) /\ drain[e].row = drain[d].row => e = d

Owed ==
  \A k \in Rows :
    (out[k].status = "pending" \/ \E d \in Drains : drain[d].pc \in Unsent /\ drain[d].row = k)
      => accepted[k] <= doubt[k]

InvitesOnly ==
  \A d \in Drains : drain[d].pc \in Inviting => out[drain[d].row].kind = "invite"

IInv ==
  /\ TypeOK /\ Blank /\ OneWorker /\ Owed /\ InvitesOnly
  /\ DuplicatesAreDoubted /\ InviteUnderLock

\* The vendor's cap on messages without a reply is kept by the counter: whatever the
\* recipient got since their last reply is counted, is about to be counted by a
\* drain, or was lost to a disturbance, so the cap is passed by no more than these
\* (the increments of drain, the reset of messaging-inbound.ts).
CapAccounted ==
  linked => unanswered <= since + faults
              + Cardinality({d \in Drains : drain[d].pc \in {"answered", "sent", "count"}})

\* No row stays pending or comes back forever, unless its recipient is at the cap:
\* a lost enqueue, a backoff or a crash only delays it (reconcileOnce), and retries
\* end when the attempts are exhausted (drain).
OutboxSettles ==
  \A k \in Rows :
    <>[](out[k].status = "pending" => linked /\ since >= Cap /\ out[k].kind # "group")

\* messaging-delivery.ts, sendConnectInvite: any failure after the provider call
\* keeps the claim, so that the invite is not duplicated. The recipient's counter
\* is written after it, and a failure there sends the row back to pending.
InviteAtMostOnce ==
  \A k \in Rows : out[k].kind = "invite" => accepted[k] <= 1

\* messaging-delivery.ts, sendConnectInvite: a revocation cannot commit between
\* the pending check and the send. It can when the transaction expires first.
NoInviteAfterRevoke ==
  [][\A k \in Rows : out[k].kind = "invite" /\ accepted'[k] > accepted[k] => conn # "revoked"]_vars
=============================================================================
