------------------------------- MODULE ThreadView -------------------------------
(***************************************************************************)
(* What a client shows of a thread: the snapshot it fetched, refreshed at  *)
(* any time, and the events of the feed applied to it one by one           *)
(* (runThreadSubscription and the snapshot code of the web client).        *)
(* Refreshes and the stream are separate requests, answered in any order.  *)
(***************************************************************************)
EXTENDS Feed

CONSTANTS MaxBreaks   \* bound: requests that fail and streams that break

ASSUME ViewAssumption == MaxBreaks \in Nat

VARIABLES
  phase,    \* "open": the first snapshot is awaited; "head": it failed, the head is asked
            \* for; "live"; "again": the stream broke and a refresh is awaited
  head,     \* the cursor the first stream starts from
  cursor,   \* the last event received, or head
  shown,    \* a snapshot of this thread is on screen
  view,     \* the snapshot: its cursor, and the events it reflects
  ready,    \* events are applied to the snapshot; before that they are kept in pending
  pending,
  request,  \* the requests for a snapshot: the first one, and the refreshes
  newest,   \* the one started last: only its answer is shown
  breaks

clientVars == <<phase, head, cursor, shown, view, ready, pending, request, newest, breaks>>
viewVars == <<feedVars, clientVars>>

Snap == [cursor : 0 .. MaxEvents, has : SUBSET Events]
Requests == {"initial", "refresh"}
NoSnap == [cursor |-> 0, has |-> {}]
NoRequest == [at |-> "none", snap |-> NoSnap]
Asked == [at |-> "asked", snap |-> NoSnap]

ViewTypeOK ==
  /\ FeedTypeOK
  /\ phase \in {"open", "head", "live", "again"}
  /\ head \in 0 .. MaxEvents /\ cursor \in 0 .. MaxEvents
  /\ shown \in BOOLEAN /\ ready \in BOOLEAN /\ (ready => shown)
  /\ view \in Snap /\ pending \subseteq Events
  /\ request \in [Requests -> [at : {"none", "asked", "read"}, snap : Snap]]
  /\ newest \in Requests
  /\ breaks \in 0 .. MaxBreaks

\* A thread is opened, with nothing of it on screen.
ViewInit ==
  /\ FeedInit
  /\ phase = "open" /\ head = 0 /\ cursor = 0
  /\ shown = FALSE /\ view = NoSnap /\ ready = FALSE /\ pending = {}
  /\ request = [k \in Requests |-> IF k = "initial" THEN Asked ELSE NoRequest]
  /\ newest = "initial" /\ breaks = 0

BreakOff == breaks < MaxBreaks /\ breaks' = breaks + 1

--------------------------------------------------------------------------------
(* Snapshots *)

\* threadSnapshot: the messages and the cursor of one commit.
Snapshots == {[cursor |-> Latest(log), has |-> log]}

\* The server reads under a share lock of the thread's row: no transaction is open.
Answer(k) ==
  /\ request[k].at = "asked" /\ writing = {}
  /\ \E snap \in Snapshots : request' = [request EXCEPT ![k] = [at |-> "read", snap |-> snap]]
  /\ UNCHANGED <<feedVars, phase, head, cursor, shown, view, ready, pending, newest, breaks>>

\* mergeThreadSnapshot: a refresh started before the stream caught up wipes nothing newer.
Merged(snap) == IF shown /\ view.cursor > snap.cursor THEN view ELSE snap

\* loadInitial answers: its cursor is the head even if a later refresh took its place.
InitialArrives ==
  LET snap == request["initial"].snap
      commits == newest = "initial"
  IN
  /\ phase = "open" /\ request["initial"].at = "read"
  /\ request' = [request EXCEPT !["initial"] = NoRequest]
  /\ view' = IF commits THEN Merged(snap) ELSE view
  /\ shown' = (shown \/ commits) /\ ready' = shown'
  /\ head' = snap.cursor /\ cursor' = snap.cursor
  /\ phase' = "live"
  /\ UNCHANGED <<feedVars, pending, newest, breaks>>

InitialFails ==
  /\ phase = "open" /\ BreakOff
  /\ request' = [request EXCEPT !["initial"] = NoRequest]
  /\ phase' = "head"
  /\ UNCHANGED <<feedVars, head, cursor, shown, view, ready, pending, newest>>

\* Mutant: the events are applied to whatever is on screen.
HeadArrivesMutantReady ==
  /\ phase = "head"
  /\ head' = Latest(log) /\ cursor' = Latest(log)
  /\ ready' = TRUE
  /\ phase' = "live"
  /\ UNCHANGED <<feedVars, shown, view, pending, request, newest, breaks>>

\* loadHead, tried until it answers.
HeadArrives ==
  /\ phase = "head"
  /\ head' = Latest(log) /\ cursor' = Latest(log)
  /\ ready' = shown
  /\ phase' = "live"
  /\ UNCHANGED <<feedVars, shown, view, pending, request, newest, breaks>>

\* After a send, after some events, and while no snapshot is there.  The answer of one
\* that is still under way is dropped when it comes.
Refresh ==
  /\ phase # "again"
  /\ IF request["refresh"].at = "none" THEN UNCHANGED breaks ELSE BreakOff
  /\ request' = [request EXCEPT !["refresh"] = Asked]
  /\ newest' = "refresh"
  /\ UNCHANGED <<feedVars, phase, head, cursor, shown, view, ready, pending>>

Resumed == IF phase = "again" THEN "live" ELSE phase

RefreshArrives ==
  /\ request["refresh"].at = "read"
  /\ request' = [request EXCEPT !["refresh"] = NoRequest]
  /\ view' = Merged(request["refresh"].snap) /\ shown' = TRUE
  /\ phase' = Resumed
  /\ UNCHANGED <<feedVars, head, cursor, ready, pending, newest, breaks>>

RefreshFails ==
  /\ request["refresh"].at # "none" /\ BreakOff
  /\ request' = [request EXCEPT !["refresh"] = NoRequest]
  /\ phase' = Resumed
  /\ UNCHANGED <<feedVars, head, cursor, shown, view, ready, pending, newest>>

Apply(snap, es) == [cursor |-> IF es = {} THEN snap.cursor ELSE Latest(es), has |-> snap.has \cup es]

\* What was received before the snapshot was there, and is not part of it.
Buffered == {e \in pending : e > view.cursor}

\* The loop that waits for a snapshot finds one.
BecomeReady ==
  /\ phase \in {"live", "again"} /\ ~ready /\ shown
  /\ ready' = TRUE /\ view' = Apply(view, Buffered) /\ pending' = {}
  /\ UNCHANGED <<feedVars, phase, head, cursor, shown, request, newest, breaks>>

--------------------------------------------------------------------------------
(* The stream *)

Subscribe ==
  /\ phase = "live"
  /\ Follow(cursor)
  /\ UNCHANGED clientVars

Receive(e) ==
  /\ phase = "live" /\ Yield(e)
  /\ cursor' = IF e > cursor THEN e ELSE cursor
  /\ IF ready THEN view' = Apply(view, {e}) /\ UNCHANGED pending
     ELSE pending' = pending \cup {e} /\ UNCHANGED view
  /\ UNCHANGED <<phase, head, shown, ready, request, newest, breaks>>

\* Reconnect from the last event received, once a refresh has been tried.
StreamBreaks ==
  /\ phase = "live" /\ Break /\ BreakOff
  /\ phase' = "again"
  /\ request' = [request EXCEPT !["refresh"] = Asked] /\ newest' = "refresh"
  /\ UNCHANGED <<head, cursor, shown, view, ready, pending>>

Server == \/ Begin \/ \E e \in Events : Commit(e) \/ Abort(e) \/ Signal(e) \/ LoseSignal(e)
          \/ Disconnect \/ Reconnect
          \/ Observe \/ Read \/ EndBatch \/ Wake \/ CatchUp

ViewNext ==
  \/ Server /\ UNCHANGED clientVars
  \/ \E k \in Requests : Answer(k)
  \/ InitialArrives \/ InitialFails \/ HeadArrives
  \/ Refresh \/ RefreshArrives \/ RefreshFails \/ BecomeReady
  \/ Subscribe \/ \E e \in Events : Receive(e)
  \/ StreamBreaks

ViewSpec == ViewInit /\ [][ViewNext]_viewVars
\* Transactions end, a reader gets its turn at the lock of the thread, requests are
\* answered, timers fire; nobody has to send a signal.
StreamRuns == Observe \/ Read \/ EndBatch \/ CatchUp
WriterEnds == \E e \in Events : Commit(e) \/ Abort(e)

ViewFairness ==
  /\ WF_viewVars(StreamRuns /\ UNCHANGED clientVars)
  /\ WF_viewVars(WriterEnds /\ UNCHANGED clientVars)
  /\ WF_viewVars(Subscribe) /\ WF_viewVars(\E e \in Events : Receive(e))
  /\ WF_viewVars(~shown /\ Refresh) /\ SF_viewVars(Answer("refresh"))
  /\ WF_viewVars(RefreshArrives) /\ WF_viewVars(BecomeReady)

--------------------------------------------------------------------------------
\* What the client has received, or the stream has passed over, is on screen or waits
\* for the snapshot: what the view lacks will still be sent, whatever refresh replaced
\* it in between.  (runThreadSubscription, threadSnapshot, mergeThreadSnapshot)
ViewWhole ==
  phase \in {"live", "again"} =>
    \A e \in log : head < e /\ e <= cursor => e \in view.has \cup pending

\* An event appended once the client follows the thread gets on its screen, even if every
\* signal is lost and the stream breaks.  (followThreadEvents, waitForChange's timer)
ViewArrives ==
  \A e \in Events : (phase = "live" /\ e > head /\ e \in log) ~> (ready /\ e \in view.has)
================================================================================
