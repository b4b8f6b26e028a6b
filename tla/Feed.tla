---------------------------------- MODULE Feed ----------------------------------
(***************************************************************************)
(* The event feed of one thread: the rows writers append under the lock of *)
(* the thread, the signals that announce them, and one stream that follows *)
(* the thread (followThreadEvents).  A signal carries nothing the stream   *)
(* relies on: it only wakes a stream that waits, and it may be lost.       *)
(*                                                                         *)
(* ThreadView composes this with the client at the other end.              *)
(***************************************************************************)
EXTENDS Naturals, FiniteSets

CONSTANTS
  MaxEvents,  \* bound: events appended to the thread
  Batch       \* EVENT_BATCH_SIZE

ASSUME FeedAssumption == MaxEvents \in Nat \ {0} /\ Batch \in Nat \ {0}

Events == 1 .. MaxEvents

VARIABLES
  log,        \* sequence numbers of the committed events
  writing,    \* sequence numbers given to transactions still open
  owed,       \* committed events whose signal has not been sent
  unsignalled,\* history: events whose writer died before it sent the signal
  listening,  \* the fan-out's LISTEN connection is up
  reader      \* the stream: where it is, the last event it yielded, what it has read
              \* and not yielded, whether that filled a batch, and whether the latch
              \* moved since the stream last looked at it

feedVars == <<log, writing, owed, unsignalled, listening, reader>>

Off == [pc |-> "off", seq |-> 0, todo |-> {}, full |-> FALSE, moved |-> FALSE]

FeedTypeOK ==
  /\ log \subseteq Events /\ writing \subseteq Events
  /\ owed \subseteq log /\ unsignalled \subseteq log
  /\ listening \in BOOLEAN
  /\ reader \in [pc : {"off", "observe", "read", "yield", "park"}, seq : 0 .. MaxEvents,
                 todo : SUBSET Events, full : BOOLEAN, moved : BOOLEAN]

FeedInit ==
  /\ \E n \in 0 .. 1 : log = 1 .. n
  /\ writing = {} /\ owed = {} /\ unsignalled = {}
  /\ listening \in BOOLEAN
  /\ reader = Off

Latest(seqs) == IF seqs = {} THEN 0 ELSE CHOOSE e \in seqs : \A f \in seqs : f <= e

--------------------------------------------------------------------------------
(* Writers *)

\* Mutant: the sequence number is handed out without keeping the thread's row locked.
BeginMutantUnlocked ==
  LET seq == Latest(log \cup writing) + 1 IN
  /\ seq \in Events
  /\ writing' = writing \cup {seq}
  /\ UNCHANGED <<log, owed, unsignalled, listening, reader>>

\* The increment of nextEventSeq locks the thread's row until the transaction ends.
Begin ==
  LET seq == Latest(log) + 1 IN
  /\ writing = {} /\ seq \in Events
  /\ writing' = {seq}
  /\ UNCHANGED <<log, owed, unsignalled, listening, reader>>

Commit(e) ==
  /\ e \in writing
  /\ writing' = writing \ {e} /\ log' = log \cup {e} /\ owed' = owed \cup {e}
  /\ UNCHANGED <<unsignalled, listening, reader>>

Abort(e) ==
  /\ e \in writing
  /\ writing' = writing \ {e}
  /\ UNCHANGED <<log, owed, unsignalled, listening, reader>>

\* The latch of a stream that is there.
Moved == [reader EXCEPT !.moved = @ \/ reader.pc # "off"]

\* pg_notify: lost on a fan-out that does not listen.
Signal(e) ==
  /\ e \in owed
  /\ owed' = owed \ {e}
  /\ reader' = IF listening THEN Moved ELSE reader
  /\ UNCHANGED <<log, writing, unsignalled, listening>>

\* The writer dies, or its notification fails.
LoseSignal(e) ==
  /\ e \in owed
  /\ owed' = owed \ {e} /\ unsignalled' = unsignalled \cup {e}
  /\ UNCHANGED <<log, writing, listening, reader>>

Disconnect == listening /\ listening' = FALSE /\ UNCHANGED <<log, writing, owed, unsignalled, reader>>

\* notifySubscribersToCatchUp: whatever was announced meanwhile is lost.
Reconnect ==
  ~listening /\ listening' = TRUE /\ reader' = Moved /\ UNCHANGED <<log, writing, owed, unsignalled>>

--------------------------------------------------------------------------------
(* The stream *)

Follow(cursor) ==
  /\ reader.pc = "off"
  /\ reader' = [Off EXCEPT !.pc = "observe", !.seq = cursor]
  /\ UNCHANGED <<log, writing, owed, unsignalled, listening>>

\* The generation of the latch is read before the rows are.
Observe ==
  /\ reader.pc = "observe"
  /\ reader' = [reader EXCEPT !.pc = "read", !.moved = FALSE]
  /\ UNCHANGED <<log, writing, owed, unsignalled, listening>>

After(seq) == {e \in log : e > seq}
First(n, seqs) == {e \in seqs : Cardinality({f \in seqs : f < e}) < n}

Read ==
  LET found == First(Batch, After(reader.seq)) IN
  /\ reader.pc = "read"
  /\ reader' = [reader EXCEPT !.pc = "yield", !.todo = found, !.full = Cardinality(found) = Batch]
  /\ UNCHANGED <<log, writing, owed, unsignalled, listening>>

\* Event e goes to the client.
Yield(e) ==
  /\ reader.pc = "yield" /\ e \in reader.todo
  /\ \A f \in reader.todo : e <= f
  /\ reader' = [reader EXCEPT !.seq = e, !.todo = @ \ {e}]
  /\ UNCHANGED <<log, writing, owed, unsignalled, listening>>

\* A full batch is followed by another; otherwise the stream waits, unless the latch has
\* moved since it was looked at.
EndBatch ==
  /\ reader.pc = "yield" /\ reader.todo = {}
  /\ reader' = [reader EXCEPT !.pc = IF reader.full THEN "read"
                                     ELSE IF reader.moved THEN "observe" ELSE "park"]
  /\ UNCHANGED <<log, writing, owed, unsignalled, listening>>

Wake ==
  /\ reader.pc = "park" /\ reader.moved
  /\ reader' = [reader EXCEPT !.pc = "observe"]
  /\ UNCHANGED <<log, writing, owed, unsignalled, listening>>

\* Mutant: no timer runs beside the latch.
CatchUpMutantNever == FALSE /\ UNCHANGED feedVars

\* The catch-up timer of waitForChange.
CatchUp ==
  /\ reader.pc = "park"
  /\ reader' = [reader EXCEPT !.pc = "observe"]
  /\ UNCHANGED <<log, writing, owed, unsignalled, listening>>

\* The request is aborted or the connection breaks.
Break ==
  /\ reader.pc # "off"
  /\ reader' = Off
  /\ UNCHANGED <<log, writing, owed, unsignalled, listening>>

================================================================================
