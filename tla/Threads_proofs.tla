----------------------------- MODULE Threads_proofs -----------------------------
(***************************************************************************)
(* What holds of one thread for every instance: a client shows every event *)
(* it received (ThreadView), the summary and the messages after it are the *)
(* conversation and cleared memory is purged (Compaction), and nothing a   *)
(* private answer can have influenced leaves a channel run (Mirror).       *)
(***************************************************************************)
EXTENDS ThreadView, Compaction, Mirror, Integers, FiniteSetTheorems, TLAPS

-----------------------------------------------------------------------------
(* What the client shows *)

StreamPcs == {"off", "observe", "read", "yield", "park"}
Readers == [pc : StreamPcs, seq : 0 .. MaxEvents, todo : SUBSET Events, full : BOOLEAN, moved : BOOLEAN]
Asks == [at : {"none", "asked", "read"}, snap : Snap]

\* Nobody else numbers an event while a transaction is open, so a commit comes after everything.
LogInv == \E n \in 0 .. MaxEvents : log = 1 .. n /\ writing \subseteq {n + 1}

\* The stream is where the client is, and what it has read is what comes next.
ReaderInv ==
  /\ reader.pc # "off" => phase = "live" /\ reader.seq = cursor
  /\ reader.todo \subseteq After(reader.seq)
  /\ \A e \in reader.todo, f \in log : reader.seq < f /\ f < e => f \in reader.todo

\* A snapshot has all the events up to its cursor.
WholeSnap(snap, events) ==
  snap.cursor \in events \cup {0} /\ \A e \in events : e <= snap.cursor => e \in snap.has

RequestInv == \A k \in Requests : WholeSnap(request[k].snap, log)

\* Once events are applied the snapshot reaches as far as they do; before that they are all kept,
\* and the snapshot has no gap.
ClientInv ==
  /\ cursor \in log \cup {0} /\ head \in Nat /\ head <= cursor /\ view.cursor \in log \cup {0}
  /\ pending \subseteq log /\ \A e \in pending : head < e /\ e <= cursor
  /\ phase \in {"open", "head"} => ~ready /\ cursor = head /\ head = 0
  /\ ~ready => WholeSnap(view, log) /\ \A e \in log : head < e /\ e <= cursor => e \in pending
  /\ ready => cursor = head \/ cursor <= view.cursor
  /\ ready => \A e \in log : head < e /\ e <= cursor => e \in view.has

ViewInv == ViewTypeOK /\ LogInv /\ ReaderInv /\ RequestInv /\ ClientInv

-----------------------------------------------------------------------------
(* Sequence numbers *)

LEMMA LatestIs ==
  ASSUME NEW seqs \in SUBSET Nat, NEW e \in seqs, \A f \in seqs : f <= e
  PROVE  Latest(seqs) = e
<1>1. \A x \in seqs : (\A f \in seqs : f <= x) => x = e
  OBVIOUS
<1>2. seqs # {}
  OBVIOUS
<1> DEFINE top == CHOOSE x \in seqs : \A f \in seqs : f <= x
<1>3. top \in seqs /\ \A f \in seqs : f <= top
  OBVIOUS
<1>4. top = e
  BY <1>1, <1>3
<1> QED
  BY <1>2, <1>4 DEF Latest

LEMMA LatestOfLog ==
  ASSUME NEW n \in Nat, log = 1 .. n
  PROVE  Latest(log) = n
<1>1. CASE n = 0
  <2>1. log = {}
    BY <1>1
  <2> QED
    BY <2>1, <1>1 DEF Latest
<1>2. CASE n # 0
  <2>1. log \in SUBSET Nat /\ n \in log /\ \A f \in log : f <= n
    BY <1>2
  <2> QED
    BY <2>1, LatestIs
<1> QED
  BY <1>1, <1>2

LEMMA LatestInLog ==
  ASSUME LogInv
  PROVE  Latest(log) \in log \cup {0} /\ \A e \in log : e <= Latest(log)
<1>1. PICK n \in 0 .. MaxEvents : log = 1 .. n
  BY DEF LogInv
<1>2. n \in Nat
  BY <1>1, FeedAssumption
<1>3. Latest(log) = n
  BY <1>1, <1>2, LatestOfLog
<1> QED
  BY <1>1, <1>2, <1>3

\* A batch leaves out nothing before its last event.
LEMMA FirstIsPrefix ==
  ASSUME NEW seqs, IsFiniteSet(seqs), seqs \subseteq Nat, NEW n \in Nat,
         NEW e \in First(n, seqs), NEW f \in seqs, f < e
  PROVE  f \in First(n, seqs)
<1> DEFINE below(x) == {g \in seqs : g < x}
<1>0. e \in Nat /\ f \in Nat /\ seqs \subseteq Nat
  BY DEF First
<1>1. below(e) \subseteq seqs /\ below(f) \subseteq below(e)
  <2>1. \A g \in seqs : g < f => g < e
    BY <1>0
  <2> QED
    BY <2>1
<1>2. IsFiniteSet(below(e))
  BY <1>1, FS_Subset
<1>3. IsFiniteSet(below(f)) /\ Cardinality(below(f)) <= Cardinality(below(e))
  BY <1>1, <1>2, FS_Subset
<1>4. Cardinality(below(e)) \in Nat /\ Cardinality(below(f)) \in Nat
  BY <1>2, <1>3, FS_CardinalityType
<1>5. Cardinality(below(e)) < n
  BY DEF First
<1>6. Cardinality(below(f)) < n
  BY <1>3, <1>4, <1>5
<1> QED
  BY <1>6 DEF First

-----------------------------------------------------------------------------
(* Parts of the state *)

LEMMA NothingAsked ==
  /\ NoSnap \in Snap /\ NoRequest \in Asks /\ Asked \in Asks /\ Off \in Readers
  /\ NoSnap.cursor = 0 /\ NoSnap.has = {} /\ NoRequest.snap = NoSnap /\ Asked.snap = NoSnap
  /\ Off.pc = "off" /\ Off.seq = 0 /\ Off.todo = {}
<1>1. 0 \in 0 .. MaxEvents
  BY FeedAssumption
<1> QED
  BY <1>1, Zenon DEF NoSnap, NoRequest, Asked, Off, Snap, Asks, Readers, StreamPcs

LEMMA ViewTypes ==
  ViewTypeOK <=>
    /\ log \subseteq Events /\ writing \subseteq Events
    /\ owed \subseteq log /\ unsignalled \subseteq log /\ listening \in BOOLEAN
    /\ reader \in Readers
    /\ phase \in {"open", "head", "live", "again"}
    /\ head \in 0 .. MaxEvents /\ cursor \in 0 .. MaxEvents
    /\ shown \in BOOLEAN /\ ready \in BOOLEAN /\ (ready => shown)
    /\ view \in Snap /\ pending \subseteq Events
    /\ request \in [Requests -> Asks] /\ newest \in Requests /\ breaks \in 0 .. MaxBreaks
BY Zenon DEF ViewTypeOK, FeedTypeOK, Readers, StreamPcs, Asks

\* A step of the server that leaves the client alone, and may append the event e.
LEMMA ServerKeeps ==
  ASSUME ViewInv, UNCHANGED clientVars, log \subseteq log', LogInv', FeedTypeOK',
         \A e \in log' \ log, f \in log \cup {0} : f < e,
         reader'.pc # "off" <=> reader.pc # "off", reader'.seq = reader.seq,
         reader'.todo \subseteq After(reader.seq),
         \A e \in reader'.todo, f \in log : reader.seq < f /\ f < e => f \in reader'.todo
  PROVE  ViewInv'
<1>1. ViewTypeOK'
  BY DEF ViewInv, ViewTypeOK, clientVars
<1> USE DEF ViewInv, clientVars
<1>2. log \subseteq Nat /\ log' \subseteq Nat
  BY FeedAssumption DEF FeedTypeOK, Events, ViewTypeOK
<1>3. ReaderInv'
  <2>1. reader'.pc # "off" => phase' = "live" /\ reader'.seq = cursor'
    BY DEF ReaderInv
  <2>2. reader'.todo \subseteq After(reader.seq)'
    BY DEF After
  <2>3. \A e \in reader'.todo, f \in log' : reader'.seq < f /\ f < e => f \in reader'.todo
    <3> SUFFICES ASSUME NEW e \in reader'.todo, NEW f \in log', reader'.seq < f, f < e
                 PROVE  f \in reader'.todo
      OBVIOUS
    <3>1. e \in log
      BY DEF After
    <3>2. f \in log
      BY <3>1, <1>2
    <3> QED
      BY <3>2
  <2> QED
    BY <2>1, <2>2, <2>3 DEF ReaderInv, After
<1>4. \A e \in log' \ log, f \in log \cup {0} : ~(e <= f)
  BY <1>2
<1>5. ASSUME NEW snap, WholeSnap(snap, log) PROVE WholeSnap(snap, log')
  BY <1>4, <1>5 DEF WholeSnap
<1>6. RequestInv'
  BY <1>5 DEF RequestInv
<1>7. ClientInv'
  <2>1. \A e \in log' : e <= cursor => e \in log
    BY <1>4 DEF ClientInv
  <2> QED
    BY <1>2, <1>5, <2>1 DEF ClientInv
<1> QED
  BY <1>1, <1>3, <1>6, <1>7

\* A step of the client's that leaves the feed alone.
LEMMA LogStays ==
  ASSUME ViewInv, UNCHANGED feedVars
  PROVE  FeedTypeOK' /\ LogInv' /\ log' = log
BY DEF ViewInv, ViewTypeOK, feedVars, FeedTypeOK, LogInv

LEMMA ViewStarts == ViewInit => ViewInv
<1> SUFFICES ASSUME ViewInit PROVE ViewInv
  OBVIOUS
<1>1. PICK n \in 0 .. 1 : log = 1 .. n
  BY DEF ViewInit, FeedInit
<1>2. n \in 0 .. MaxEvents /\ log \subseteq Events
  BY <1>1, FeedAssumption DEF Events
<1>3. request \in [Requests -> Asks] /\ \A k \in Requests : request[k].snap = NoSnap
  BY NothingAsked DEF ViewInit
<1>4. ViewTypeOK
  <2>1. listening \in BOOLEAN /\ shown \in BOOLEAN /\ ready \in BOOLEAN /\ (ready => shown)
    BY Zenon DEF ViewInit, FeedInit
  <2>2. 0 \in 0 .. MaxEvents /\ 0 \in 0 .. MaxBreaks
    BY FeedAssumption, ViewAssumption
  <2>3. newest \in Requests
    BY DEF ViewInit, Requests
  <2> QED
    BY <1>2, <1>3, <2>1, <2>2, <2>3, NothingAsked, ViewTypes DEF ViewInit, FeedInit
<1>5. LogInv
  BY <1>1, <1>2 DEF ViewInit, FeedInit, LogInv
<1>6. ReaderInv
  BY NothingAsked DEF ViewInit, FeedInit, ReaderInv
<1>7. WholeSnap(NoSnap, log)
  BY <1>1, NothingAsked DEF WholeSnap
<1>8. RequestInv
  BY <1>3, <1>7 DEF RequestInv
<1>9. ClientInv
  BY <1>1, <1>7, NothingAsked DEF ViewInit, ClientInv
<1> QED
  BY <1>4, <1>5, <1>6, <1>8, <1>9 DEF ViewInv

-----------------------------------------------------------------------------
(* Writers and signals *)

LEMMA WritersKeep ==
  ASSUME ViewInv, UNCHANGED clientVars, Begin \/ \E e \in Events : Commit(e) \/ Abort(e)
  PROVE  ViewInv'
<1> USE DEF ViewInv
<1>1. PICK n \in 0 .. MaxEvents : log = 1 .. n /\ writing \subseteq {n + 1}
  BY DEF LogInv
<1>2. n \in Nat /\ MaxEvents \in Nat /\ Latest(log) = n
  <2>1. n \in Nat /\ MaxEvents \in Nat
    BY <1>1, FeedAssumption
  <2> QED
    BY <2>1, <1>1, LatestOfLog
<1>3. reader' = reader /\ FeedTypeOK /\ ReaderInv
  BY DEF Begin, Commit, Abort, ViewTypeOK
<1>4. CASE Begin
  <2>1. FeedTypeOK'
    BY <1>3, <1>4 DEF Begin, FeedTypeOK
  <2>2. LogInv'
    BY <1>1, <1>2, <1>4 DEF Begin, LogInv
  <2> QED
    BY <1>3, <1>4, <2>1, <2>2, ServerKeeps DEF Begin, ReaderInv
<1>5. ASSUME NEW e \in Events, Abort(e) PROVE ViewInv'
  <2>1. FeedTypeOK'
    BY <1>3, <1>5 DEF Abort, FeedTypeOK
  <2>2. LogInv'
    BY <1>1, <1>5 DEF Abort, LogInv
  <2> QED
    BY <1>3, <1>5, <2>1, <2>2, ServerKeeps DEF Abort, ReaderInv
<1>6. ASSUME NEW e \in Events, Commit(e) PROVE ViewInv'
  <2>1. FeedTypeOK'
    BY <1>3, <1>6 DEF Commit, FeedTypeOK
  <2>2. e = n + 1 /\ n + 1 \in 0 .. MaxEvents /\ writing' = {} /\ log' = log \cup {e}
    BY <1>1, <1>2, <1>6 DEF Commit, Events
  <2>3. log' = 1 .. (n + 1)
    BY <1>1, <1>2, <2>2
  <2>4. LogInv'
    BY <2>2, <2>3 DEF LogInv
  <2>5. \A f \in log' \ log, g \in log \cup {0} : g < f
    BY <1>1, <1>2, <2>2
  <2>6. log \subseteq log' /\ reader.todo \subseteq After(reader.seq)
    BY <1>3, <2>2 DEF ReaderInv
  <2> QED
    BY <1>3, <2>1, <2>4, <2>5, <2>6, ServerKeeps DEF ReaderInv
<1> QED
  BY <1>4, <1>5, <1>6

\* A signal or a new connection moves the latch and nothing else.
LEMMA SignalsKeep ==
  ASSUME ViewInv, UNCHANGED clientVars,
         Disconnect \/ Reconnect \/ \E e \in Events : Signal(e) \/ LoseSignal(e)
  PROVE  ViewInv'
<1> USE DEF ViewInv
<1>1. log' = log /\ writing' = writing /\ owed' \subseteq owed /\ unsignalled' \subseteq log
      /\ listening' \in BOOLEAN
  BY DEF Disconnect, Reconnect, Signal, LoseSignal, ViewTypeOK, FeedTypeOK
<1>2. reader' = reader \/ reader' = Moved
  BY DEF Disconnect, Reconnect, Signal, LoseSignal
<1>3. reader \in Readers
  BY ViewTypes
<1>4. Moved \in Readers /\ Moved.pc = reader.pc /\ Moved.seq = reader.seq /\ Moved.todo = reader.todo
  BY <1>3 DEF Moved, Readers
<1>5. FeedTypeOK'
  BY <1>1, <1>2, <1>3, <1>4 DEF ViewTypeOK, FeedTypeOK, Readers, StreamPcs
<1>6. LogInv'
  BY <1>1 DEF LogInv
<1> QED
  BY <1>1, <1>2, <1>4, <1>5, <1>6, ServerKeeps DEF ReaderInv

-----------------------------------------------------------------------------
(* The stream *)

LEMMA ReadKeeps ==
  ASSUME ViewInv, UNCHANGED clientVars, Read
  PROVE  ViewInv'
<1> USE DEF ViewInv
<1> DEFINE later == After(reader.seq)
           found == First(Batch, later)
<1>1. reader \in Readers /\ reader.pc = "read" /\ log \subseteq Events
  BY ViewTypes DEF Read
<1>2. reader' = [reader EXCEPT !.pc = "yield", !.todo = found, !.full = Cardinality(found) = Batch]
  BY DEF Read
<1>3. later \subseteq Nat /\ IsFiniteSet(later) /\ found \subseteq later /\ later \subseteq log
  <2>1. IsFiniteSet(Events)
    BY FS_Interval, FeedAssumption DEF Events
  <2>2. later \subseteq Events
    BY <1>1 DEF After
  <2>3. Events \subseteq Nat
    BY FeedAssumption DEF Events
  <2> QED
    BY <2>1, <2>2, <2>3, FS_Subset DEF After, First
<1>4. \A e \in found, f \in later : f < e => f \in found
  BY <1>3, FirstIsPrefix, FeedAssumption
<1>5. reader'.pc = "yield" /\ reader'.seq = reader.seq /\ reader'.todo = found
      /\ reader' \in Readers
  <2>1. found \in SUBSET Events /\ (Cardinality(found) = Batch) \in BOOLEAN
    BY <1>1, <1>3
  <2> HIDE DEF found
  <2> QED
    BY <1>1, <1>2, <2>1 DEF Readers, StreamPcs
<1>6. FeedTypeOK' /\ LogInv'
  BY <1>5 DEF Read, ViewTypeOK, FeedTypeOK, LogInv, Readers, StreamPcs
<1> QED
  BY <1>1, <1>3, <1>4, <1>5, <1>6, ServerKeeps DEF Read, After

LEMMA StreamKeeps ==
  ASSUME ViewInv, UNCHANGED clientVars, Observe \/ EndBatch \/ Wake \/ CatchUp
  PROVE  ViewInv'
<1> USE DEF ViewInv
<1>1. reader \in Readers /\ reader.pc # "off"
  BY ViewTypes DEF Observe, EndBatch, Wake, CatchUp
<1>2. reader' \in Readers /\ reader'.pc # "off" /\ reader'.seq = reader.seq /\ reader'.todo = reader.todo
  BY <1>1 DEF Observe, EndBatch, Wake, CatchUp, Readers, StreamPcs
<1>3. FeedTypeOK' /\ LogInv'
  BY <1>2 DEF Observe, EndBatch, Wake, CatchUp, ViewTypeOK, FeedTypeOK, LogInv, Readers, StreamPcs
<1> QED
  BY <1>1, <1>2, <1>3, ServerKeeps DEF Observe, EndBatch, Wake, CatchUp, ReaderInv

-----------------------------------------------------------------------------
(* Snapshots *)

\* An answer holds the events committed so far.
LEMMA AnswerKeeps ==
  ASSUME ViewInv, NEW k \in Requests, Answer(k)
  PROVE  ViewInv'
<1> USE DEF ViewInv
<1> DEFINE snap == [cursor |-> Latest(log), has |-> log]
<1>1. request' = [request EXCEPT ![k] = [at |-> "read", snap |-> snap]]
  BY DEF Answer, Snapshots
<1>2. WholeSnap(snap, log)
  BY LatestInLog DEF WholeSnap
<1>3. snap \in Snap
  <2>1. log \subseteq Events /\ Events \subseteq 0 .. MaxEvents /\ 0 \in 0 .. MaxEvents
    BY FeedAssumption, ViewTypes DEF Events
  <2> QED
    BY <2>1, LatestInLog DEF Snap
<1> HIDE DEF snap
<1>4. request \in [Requests -> Asks] /\ [at |-> "read", snap |-> snap] \in Asks
  BY <1>3, ViewTypes DEF Asks
<1>5. request' \in [Requests -> Asks] /\ RequestInv'
  <2>1. \A j \in Requests : request'[j].snap = IF j = k THEN snap ELSE request[j].snap
    BY <1>1, <1>4
  <2> QED
    BY <1>1, <1>2, <1>4, <2>1 DEF RequestInv, Answer, feedVars
<1>6. ViewTypeOK'
  BY <1>5, LogStays DEF Answer, ViewTypeOK, Asks
<1>7. ReaderInv' /\ ClientInv' /\ LogInv'
  BY LogStays DEF Answer, feedVars, ReaderInv, ClientInv, LogInv, After
<1> QED
  BY <1>5, <1>6, <1>7

\* A request ends or is made, and the client has what it had.
LEMMA RequestsKeep ==
  ASSUME ViewInv, UNCHANGED <<feedVars, head, cursor, shown, view, ready, pending>>,
         NEW k \in Requests, NEW ask \in {Asked, NoRequest}, request' = [request EXCEPT ![k] = ask],
         phase' \in {"open", "head", "live", "again"},
         phase' \in {"open", "head"} <=> phase \in {"open", "head"},
         reader.pc # "off" => phase' = "live",
         newest' \in Requests, breaks' \in 0 .. MaxBreaks
  PROVE  ViewInv'
<1> USE DEF ViewInv
<1>1. request \in [Requests -> Asks] /\ ask \in Asks /\ ask.snap = NoSnap
  BY NothingAsked, ViewTypes
<1>2. WholeSnap(NoSnap, log)
  BY NothingAsked, FeedAssumption DEF WholeSnap, LogInv
<1>3. request' \in [Requests -> Asks] /\ RequestInv'
  <2>1. \A j \in Requests : request'[j].snap = IF j = k THEN NoSnap ELSE request[j].snap
    BY <1>1
  <2> QED
    BY <1>1, <1>2, <2>1 DEF RequestInv, feedVars
<1>4. ViewTypeOK'
  BY <1>3, LogStays DEF ViewTypeOK, Asks
<1>5. ReaderInv' /\ ClientInv' /\ LogInv'
  BY LogStays DEF feedVars, ReaderInv, ClientInv, After
<1> QED
  BY <1>3, <1>4, <1>5

LEMMA FailuresKeep ==
  ASSUME ViewInv, InitialFails \/ Refresh \/ RefreshFails
  PROVE  ViewInv'
<1> USE DEF ViewInv
<1>1. /\ phase \in {"open", "head", "live", "again"} /\ newest \in Requests
      /\ breaks \in 0 .. MaxBreaks /\ "initial" \in Requests /\ "refresh" \in Requests
  BY ViewTypes DEF Requests
<1>2. BreakOff => breaks' \in 0 .. MaxBreaks
  BY <1>1, ViewAssumption DEF BreakOff
<1>3. reader.pc # "off" => phase = "live"
  BY DEF ReaderInv
<1>4. CASE InitialFails
  BY <1>1, <1>2, <1>3, <1>4, RequestsKeep DEF InitialFails
<1>5. CASE Refresh
  BY <1>1, <1>2, <1>3, <1>5, RequestsKeep DEF Refresh
<1>6. CASE RefreshFails
  BY <1>1, <1>2, <1>3, <1>6, RequestsKeep DEF RefreshFails, Resumed
<1> QED
  BY <1>4, <1>5, <1>6

\* A request that was answered is over.
LEMMA RequestOver ==
  ASSUME ViewInv, UNCHANGED feedVars, NEW k \in Requests, request' = [request EXCEPT ![k] = NoRequest]
  PROVE  request' \in [Requests -> Asks] /\ RequestInv'
<1> USE DEF ViewInv
<1>1. request \in [Requests -> Asks] /\ NoRequest \in Asks /\ NoRequest.snap = NoSnap
  BY NothingAsked, ViewTypes
<1>2. WholeSnap(NoSnap, log)
  BY NothingAsked, FeedAssumption DEF WholeSnap, LogInv
<1>3. \A j \in Requests : request'[j].snap = IF j = k THEN NoSnap ELSE request[j].snap
  BY <1>1
<1> QED
  BY <1>1, <1>2, <1>3 DEF RequestInv, feedVars

LEMMA SnapIs ==
  ASSUME ViewInv, NEW k \in Requests
  PROVE  request[k].snap \in Snap /\ request[k].snap.cursor \in Nat /\ WholeSnap(request[k].snap, log)
<1>1. request[k] \in Asks
  BY ViewTypes DEF ViewInv
<1>2. request[k].snap \in Snap
  BY <1>1 DEF Asks
<1> QED
  BY <1>2, FeedAssumption DEF Snap, ViewInv, RequestInv

LEMMA MergedIs ==
  ASSUME ViewInv, NEW snap \in Snap, WholeSnap(snap, log)
  PROVE  /\ Merged(snap) \in Snap /\ view.cursor \in Nat /\ snap.cursor \in Nat
         /\ Merged(snap) = view \/ (Merged(snap) = snap /\ (shown => view.cursor <= snap.cursor))
<1>1. view \in Snap
  BY ViewTypes DEF ViewInv
<1>2. view.cursor \in Nat /\ snap.cursor \in Nat
  BY <1>1, FeedAssumption DEF Snap
<1> QED
  BY <1>1, <1>2 DEF Merged

LEMMA NothingKept ==
  ASSUME ViewInv, phase \in {"open", "head"}
  PROVE  pending = {} /\ ~ready /\ WholeSnap(view, log)
<1>1. ~ready /\ cursor = head /\ WholeSnap(view, log)
  BY DEF ViewInv, ClientInv
<1>2. cursor \in Nat /\ pending \subseteq Nat
  BY FeedAssumption, ViewTypes DEF ViewInv, Events
<1>3. \A e \in pending : head < e /\ e <= cursor
  BY DEF ViewInv, ClientInv
<1> QED
  BY <1>1, <1>2, <1>3

LEMMA InitialArrivesKeeps ==
  ASSUME ViewInv, InitialArrives
  PROVE  ViewInv'
<1> USE DEF ViewInv
<1> DEFINE snap == request["initial"].snap
<1>1. /\ UNCHANGED feedVars /\ phase = "open" /\ phase' = "live" /\ head' = snap.cursor /\ cursor' = snap.cursor
      /\ request' = [request EXCEPT !["initial"] = NoRequest]
      /\ view' = (IF newest = "initial" THEN Merged(snap) ELSE view)
      /\ shown' = (shown \/ newest = "initial") /\ ready' = shown' /\ UNCHANGED <<pending, newest, breaks>>
  BY DEF InitialArrives
<1>2. "initial" \in Requests
  BY DEF Requests
<1>3. snap \in Snap /\ snap.cursor \in Nat /\ WholeSnap(snap, log)
  BY <1>2, SnapIs
<1> HIDE DEF snap
<1>4. Merged(snap) \in Snap /\ Merged(snap).cursor \in log \cup {0}
  BY <1>3, MergedIs DEF ClientInv, WholeSnap
<1>5. request' \in [Requests -> Asks] /\ RequestInv'
  BY <1>1, <1>2, RequestOver
<1>6. snap.cursor \in 0 .. MaxEvents /\ snap.cursor \in log \cup {0}
  BY <1>3 DEF Snap, WholeSnap
<1>7. ViewTypeOK'
  <2>1. shown' \in BOOLEAN /\ ready' \in BOOLEAN /\ (ready' => shown')
    BY <1>1
  <2> QED
    BY <1>1, <1>4, <1>5, <1>6, <2>1, LogStays DEF ViewTypeOK, Asks
<1>8. LogInv' /\ log' = log
  BY <1>1, LogStays
<1>9. ReaderInv'
  BY <1>1, <1>8 DEF ReaderInv, After, feedVars
<1>10. ClientInv'
  <2>1. pending = {} /\ ~ready /\ WholeSnap(view, log) /\ view.cursor \in log \cup {0}
    BY <1>1, NothingKept DEF ClientInv
  <2>2. view'.cursor \in log \cup {0}
    BY <1>1, <1>4, <2>1
  <2>3. ~ready' => view' = view
    BY <1>1
  <2>4. \A e \in log : ~(snap.cursor < e /\ e <= snap.cursor)
    BY <1>3, <1>8 DEF LogInv
  <2> QED
    BY <1>1, <1>3, <1>6, <1>8, <2>1, <2>2, <2>3, <2>4 DEF ClientInv
<1> QED
  BY <1>5, <1>7, <1>8, <1>9, <1>10

LEMMA HeadArrivesKeeps ==
  ASSUME ViewInv, HeadArrives
  PROVE  ViewInv'
<1> USE DEF ViewInv
<1> DEFINE top == Latest(log)
<1>1. top \in log \cup {0} /\ top \in Nat /\ top \in 0 .. MaxEvents
  BY LatestInLog, FeedAssumption, ViewTypes DEF Events
<1>2. /\ UNCHANGED feedVars /\ phase = "head" /\ phase' = "live" /\ head' = top /\ cursor' = top
      /\ ready' = shown /\ UNCHANGED <<shown, view, pending, request, newest, breaks>>
  BY DEF HeadArrives
<1> HIDE DEF top
<1>3. LogInv' /\ log' = log
  BY <1>2, LogStays
<1>4. ViewTypeOK'
  BY <1>1, <1>2, LogStays DEF ViewTypeOK
<1>5. ReaderInv' /\ RequestInv'
  BY <1>2, <1>3 DEF ReaderInv, RequestInv, After, feedVars
<1>6. ClientInv'
  <2>1. \A e \in log : ~(top < e /\ e <= top)
    BY <1>1, <1>3 DEF LogInv
  <2>2. pending = {} /\ ~ready /\ WholeSnap(view, log)
    BY <1>2, NothingKept
  <2> QED
    BY <1>1, <1>2, <1>3, <2>1, <2>2 DEF ClientInv
<1> QED
  BY <1>3, <1>4, <1>5, <1>6

LEMMA RefreshArrivesKeeps ==
  ASSUME ViewInv, RefreshArrives
  PROVE  ViewInv'
<1> USE DEF ViewInv
<1> DEFINE snap == request["refresh"].snap
<1>1. /\ UNCHANGED feedVars /\ request' = [request EXCEPT !["refresh"] = NoRequest]
      /\ view' = Merged(snap) /\ shown' = TRUE /\ phase' = Resumed
      /\ UNCHANGED <<head, cursor, ready, pending, newest, breaks>>
  BY DEF RefreshArrives
<1>2. "refresh" \in Requests
  BY DEF Requests
<1>3. snap \in Snap /\ snap.cursor \in Nat /\ WholeSnap(snap, log)
  BY <1>2, SnapIs
<1> HIDE DEF snap
<1>4. /\ view' \in Snap
      /\ view' = view \/ (view' = snap /\ (shown => view.cursor <= snap.cursor))
  BY <1>1, <1>3, MergedIs
<1>5. request' \in [Requests -> Asks] /\ RequestInv'
  BY <1>1, <1>2, RequestOver
<1>6. LogInv' /\ log' = log
  BY <1>1, LogStays
<1>7. phase' \in {"open", "head", "live", "again"} /\ (phase' = "live" <=> phase \in {"live", "again"})
      /\ (phase' = "live" \/ phase' = phase)
  BY <1>1, ViewTypes DEF Resumed
<1>8. ViewTypeOK'
  BY <1>1, <1>4, <1>5, <1>7, LogStays DEF ViewTypeOK, Asks
<1>9. ReaderInv'
  BY <1>1, <1>6, <1>7 DEF ReaderInv, After, feedVars
<1>10. ClientInv'
  <2>1. /\ view'.cursor \in log \cup {0} /\ (~ready => WholeSnap(view', log))
    BY <1>3, <1>4 DEF ClientInv, WholeSnap
  <2>2. cursor \in Nat /\ head \in Nat /\ view.cursor \in Nat /\ log \subseteq Nat
    BY MergedIs, <1>3, ViewTypes, FeedAssumption DEF Events
  <2>3. ready => /\ cursor = head \/ cursor <= view'.cursor
                 /\ \A e \in log : head < e /\ e <= cursor => e \in view'.has
    <3> SUFFICES ASSUME ready
                 PROVE  /\ cursor = head \/ cursor <= view'.cursor
                        /\ \A e \in log : head < e /\ e <= cursor => e \in view'.has
      OBVIOUS
    <3>1. shown
      BY ViewTypes
    <3>2. CASE view' = view
      BY <3>2 DEF ClientInv
    <3>3. CASE view' = snap /\ view.cursor <= snap.cursor
      BY <1>3, <2>2, <3>3 DEF ClientInv, WholeSnap
    <3> QED
      BY <1>4, <3>1, <3>2, <3>3
  <2>4. phase' \in {"open", "head"} => ~ready /\ cursor = head /\ head = 0
    BY <1>7 DEF ClientInv
  <2>5. ~ready => \A e \in log : head < e /\ e <= cursor => e \in pending
    BY DEF ClientInv
  <2>6. /\ cursor \in log \cup {0} /\ head \in Nat /\ head <= cursor
        /\ pending \subseteq log /\ \A e \in pending : head < e /\ e <= cursor
    BY DEF ClientInv
  <2> QED
    BY <1>1, <1>6, <2>1, <2>3, <2>4, <2>5, <2>6 DEF ClientInv
<1> QED
  BY <1>5, <1>6, <1>8, <1>9, <1>10

\* The events that were kept are applied to the snapshot.
LEMMA BecomeReadyKeeps ==
  ASSUME ViewInv, BecomeReady
  PROVE  ViewInv'
<1> USE DEF ViewInv
<1>1. /\ UNCHANGED feedVars /\ phase \in {"live", "again"} /\ ~ready /\ shown /\ ready' = TRUE /\ pending' = {}
      /\ view' = Apply(view, Buffered)
      /\ UNCHANGED <<phase, head, cursor, shown, request, newest, breaks>>
  BY DEF BecomeReady
<1>2. LogInv' /\ log' = log
  BY <1>1, LogStays
<1>3. /\ cursor \in Nat /\ head \in Nat /\ log \subseteq Nat /\ view \in Snap /\ view.cursor \in Nat
      /\ pending \subseteq log /\ pending \subseteq Events /\ view.cursor \in log \cup {0} /\ log \subseteq Events
  BY FeedAssumption, ViewTypes DEF Events, Snap, ClientInv
<1>4. view'.has = view.has \cup Buffered
  BY <1>1 DEF Apply
<1>5. /\ view'.cursor \in log \cup {0} /\ view'.cursor \in 0 .. MaxEvents
      /\ cursor = head \/ cursor <= view'.cursor
  <2>1. CASE Buffered = {}
    <3>1. view'.cursor = view.cursor
      BY <1>1, <2>1 DEF Apply
    <3>2. cursor \notin pending \/ cursor <= view.cursor
      BY <1>3, <2>1 DEF Buffered
    <3>3. cursor = head \/ cursor \in pending
      BY <1>1, <1>3 DEF ClientInv
    <3> QED
      BY <1>3, <3>1, <3>2, <3>3 DEF Snap
  <2>2. CASE Buffered # {}
    <3>1. PICK e \in pending : e > view.cursor
      BY <2>2 DEF Buffered
    <3>2. head < cursor /\ view.cursor < cursor
      BY <1>3, <3>1 DEF ClientInv
    <3>3. cursor \in pending
      BY <1>1, <1>3, <3>2 DEF ClientInv
    <3>4. cursor \in Buffered /\ Buffered \in SUBSET Nat /\ \A f \in Buffered : f <= cursor
      BY <1>3, <3>2, <3>3 DEF Buffered, ClientInv
    <3>5. Latest(Buffered) = cursor
      BY <3>4, LatestIs
    <3>6. view'.cursor = cursor
      BY <1>1, <2>2, <3>5 DEF Apply
    <3> QED
      BY <1>3, <3>3, <3>6, ViewTypes
  <2> QED
    BY <2>1, <2>2
<1>6. view' \in Snap
  <2>1. view'.has \subseteq Events
    BY <1>3, <1>4 DEF Snap, Buffered
  <2>2. view' = [cursor |-> view'.cursor, has |-> view'.has]
    BY <1>1 DEF Apply
  <2> QED
    BY <1>5, <2>1, <2>2 DEF Snap
<1>7. ViewTypeOK'
  BY <1>1, <1>6, LogStays DEF ViewTypeOK
<1>8. ReaderInv' /\ RequestInv'
  BY <1>1, <1>2 DEF ReaderInv, RequestInv, After, feedVars
<1>9. \A e \in log : head < e /\ e <= cursor => e \in view'.has
  <2> SUFFICES ASSUME NEW e \in log, head < e, e <= cursor PROVE e \in view'.has
    OBVIOUS
  <2>1. e \in pending /\ WholeSnap(view, log) /\ e \in Nat
    BY <1>1, <1>3 DEF ClientInv
  <2>2. CASE e <= view.cursor
    BY <1>4, <2>1, <2>2 DEF WholeSnap
  <2>3. CASE e > view.cursor
    BY <1>4, <2>1, <2>3 DEF Buffered
  <2> QED
    BY <1>3, <2>1, <2>2, <2>3
<1>10. cursor \in log \cup {0} /\ head \in Nat /\ head <= cursor
  BY DEF ClientInv
<1>11. ClientInv'
  BY <1>1, <1>2, <1>5, <1>9, <1>10 DEF ClientInv
<1> QED
  BY <1>2, <1>7, <1>8, <1>11

-----------------------------------------------------------------------------
(* The client's side of the stream *)

LEMMA SubscribeKeeps ==
  ASSUME ViewInv, Subscribe
  PROVE  ViewInv'
<1> USE DEF ViewInv
<1>1. /\ UNCHANGED clientVars /\ phase = "live" /\ UNCHANGED <<log, writing, owed, unsignalled, listening>>
      /\ reader' = [Off EXCEPT !.pc = "observe", !.seq = cursor]
  BY DEF Subscribe, Follow
<1>2. Off \in Readers /\ Off.todo = {} /\ cursor \in 0 .. MaxEvents
  BY NothingAsked, ViewTypes
<1>3. reader' \in Readers /\ reader'.seq = cursor /\ reader'.todo = {}
  BY <1>1, <1>2 DEF Readers, StreamPcs
<1>4. FeedTypeOK' /\ ViewTypeOK' /\ LogInv'
  BY <1>1, <1>3 DEF ViewTypeOK, FeedTypeOK, LogInv, Readers, StreamPcs, clientVars
<1>5. ReaderInv'
  BY <1>1, <1>3 DEF ReaderInv, clientVars
<1>6. RequestInv' /\ ClientInv'
  BY <1>1 DEF RequestInv, ClientInv, clientVars
<1> QED
  BY <1>4, <1>5, <1>6

LEMMA StreamBreaksKeeps ==
  ASSUME ViewInv, StreamBreaks
  PROVE  ViewInv'
<1> USE DEF ViewInv
<1>1. /\ phase = "live" /\ reader' = Off /\ UNCHANGED <<log, writing, owed, unsignalled, listening>>
      /\ breaks < MaxBreaks /\ breaks' = breaks + 1
      /\ phase' = "again" /\ request' = [request EXCEPT !["refresh"] = Asked] /\ newest' = "refresh"
      /\ UNCHANGED <<head, cursor, shown, view, ready, pending>>
  BY DEF StreamBreaks, Break, BreakOff
<1>2. Off \in Readers /\ Off.pc = "off" /\ Off.todo = {} /\ Asked \in Asks /\ Asked.snap = NoSnap
  BY NothingAsked
<1>3. breaks' \in 0 .. MaxBreaks
  BY <1>1, ViewAssumption, ViewTypes
<1>4. FeedTypeOK' /\ LogInv' /\ ReaderInv'
  BY <1>1, <1>2 DEF ViewTypeOK, FeedTypeOK, LogInv, ReaderInv, Readers, StreamPcs
<1>5. request' \in [Requests -> Asks] /\ RequestInv'
  <2>1. WholeSnap(NoSnap, log)
    BY NothingAsked, FeedAssumption DEF WholeSnap, LogInv
  <2>2. request \in [Requests -> Asks]
    BY ViewTypes
  <2>3. \A j \in Requests : request'[j].snap = IF j = "refresh" THEN NoSnap ELSE request[j].snap
    BY <1>1, <1>2, <2>2
  <2> QED
    BY <1>1, <1>2, <2>1, <2>2, <2>3 DEF RequestInv
<1>6. ViewTypeOK'
  BY <1>1, <1>3, <1>4, <1>5 DEF ViewTypeOK, Asks, Requests
<1>7. ClientInv'
  BY <1>1 DEF ClientInv
<1> QED
  BY <1>4, <1>5, <1>6, <1>7

\* The next event: nothing of the log is between it and the cursor.
LEMMA ReceiveKeeps ==
  ASSUME ViewInv, NEW e \in Events, Receive(e)
  PROVE  ViewInv'
<1> USE DEF ViewInv
<1>1. /\ phase = "live" /\ reader.pc = "yield" /\ e \in reader.todo /\ \A f \in reader.todo : e <= f
      /\ reader' = [reader EXCEPT !.seq = e, !.todo = reader.todo \ {e}]
      /\ UNCHANGED <<log, writing, owed, unsignalled, listening>>
      /\ cursor' = IF e > cursor THEN e ELSE cursor
      /\ IF ready THEN view' = Apply(view, {e}) /\ UNCHANGED pending
         ELSE pending' = pending \cup {e} /\ UNCHANGED view
      /\ UNCHANGED <<phase, head, shown, ready, request, newest, breaks>>
  BY DEF Receive, Yield
<1>2. /\ reader \in Readers /\ cursor \in Nat /\ head \in Nat /\ log \subseteq Nat /\ e \in Nat /\ log \subseteq Events
      /\ view \in Snap /\ e \in 0 .. MaxEvents /\ head <= cursor
  BY FeedAssumption, ViewTypes DEF Events, Snap, ClientInv
<1>3. reader.seq = cursor /\ e \in log /\ cursor < e
  BY <1>1, <1>2 DEF ReaderInv, After
<1>4. \A f \in log : ~(cursor < f /\ f < e)
  BY <1>1, <1>2, <1>3 DEF ReaderInv
<1>5. cursor' = e
  BY <1>1, <1>2, <1>3
<1>6. reader' \in Readers /\ reader'.seq = e /\ reader'.todo = reader.todo \ {e} /\ reader'.pc = "yield"
  BY <1>1, <1>2 DEF Readers
<1>7. ready => view'.cursor = e /\ view'.has = view.has \cup {e} /\ view' \in Snap
  <2>1. Latest({e}) = e
    BY <1>2, LatestIs
  <2> QED
    BY <1>1, <1>2, <2>1 DEF Apply, Snap
<1>8. FeedTypeOK' /\ LogInv'
  BY <1>1, <1>6 DEF ViewTypeOK, FeedTypeOK, LogInv, Readers, StreamPcs
<1>9. ViewTypeOK'
  <2>1. view' \in Snap
    BY <1>1, <1>2, <1>7
  <2>2. pending' \subseteq Events
    BY <1>1, ViewTypes
  <2> QED
    BY <1>1, <1>2, <1>5, <1>8, <2>1, <2>2 DEF ViewTypeOK
<1>10. ReaderInv'
  <2>1. \A f \in reader'.todo : f > e /\ f \in log
    BY <1>1, <1>2, <1>6 DEF ReaderInv, After
  <2>2. \A f \in reader'.todo, g \in log : e < g /\ g < f => g \in reader'.todo
    <3> SUFFICES ASSUME NEW f \in reader'.todo, NEW g \in log, e < g, g < f PROVE g \in reader'.todo
      OBVIOUS
    <3>1. f \in reader.todo /\ reader.seq < g
      BY <1>2, <1>3, <1>6
    <3> QED
      BY <1>2, <1>6, <3>1 DEF ReaderInv
  <2> QED
    BY <1>1, <1>5, <1>6, <2>1, <2>2 DEF ReaderInv, After
<1>11. RequestInv'
  BY <1>1 DEF RequestInv
<1>12. \A f \in log : f <= e => f <= cursor \/ f = e
  BY <1>2, <1>4
<1>13. /\ pending \subseteq log /\ \A f \in pending : head < f /\ f <= e
       /\ head <= e /\ head < e
  BY <1>2, <1>3 DEF ClientInv
<1>14. CASE ready
  <2>1. view'.cursor \in log' \cup {0} /\ cursor' <= view'.cursor
    BY <1>1, <1>2, <1>3, <1>5, <1>7, <1>14
  <2>2. \A f \in log : head < f /\ f <= e => f \in view'.has
    BY <1>7, <1>12, <1>14 DEF ClientInv
  <2> QED
    BY <1>1, <1>2, <1>3, <1>5, <1>8, <1>9, <1>10, <1>11, <1>13, <1>14, <2>1, <2>2 DEF ClientInv
<1>15. CASE ~ready
  <2>1. pending' = pending \cup {e} /\ view' = view /\ WholeSnap(view, log) /\ view.cursor \in log \cup {0}
    BY <1>1, <1>15 DEF ClientInv
  <2>2. \A f \in log : head < f /\ f <= e => f \in pending'
    BY <1>12, <1>15, <2>1 DEF ClientInv
  <2>3. pending' \subseteq log /\ \A f \in pending' : head < f /\ f <= e
    BY <1>2, <1>3, <1>13, <2>1
  <2> QED
    BY <1>1, <1>2, <1>3, <1>5, <1>8, <1>9, <1>10, <1>11, <1>13, <1>15, <2>1, <2>2, <2>3 DEF ClientInv
<1> QED
  BY <1>14, <1>15

LEMMA ViewPreserves == ViewInv /\ [ViewNext]_viewVars => ViewInv'
<1> SUFFICES ASSUME ViewInv, [ViewNext]_viewVars PROVE ViewInv'
  OBVIOUS
<1>1. CASE Server /\ UNCHANGED clientVars
  BY <1>1, WritersKeep, SignalsKeep, ReadKeeps, StreamKeeps DEF Server
<1>2. CASE \E k \in Requests : Answer(k)
  BY <1>2, AnswerKeeps
<1>3. CASE InitialArrives \/ InitialFails \/ HeadArrives \/ Refresh \/ RefreshArrives \/ RefreshFails \/ BecomeReady
  BY <1>3, InitialArrivesKeeps, FailuresKeep, HeadArrivesKeeps, RefreshArrivesKeeps, BecomeReadyKeeps
<1>4. CASE Subscribe \/ StreamBreaks \/ \E e \in Events : Receive(e)
  BY <1>4, SubscribeKeeps, StreamBreaksKeeps, ReceiveKeeps
<1>5. CASE UNCHANGED viewVars
  BY <1>5 DEF viewVars, feedVars, clientVars, ViewInv, ViewTypeOK, FeedTypeOK, LogInv, ReaderInv, After,
              RequestInv, ClientInv
<1> QED
  BY <1>1, <1>2, <1>3, <1>4, <1>5 DEF ViewNext

LEMMA ViewHolds == ViewSpec => []ViewInv
BY ViewStarts, ViewPreserves, PTL DEF ViewSpec

\* The types of the feed and of the client hold in every state.  (runThreadSubscription)
THEOREM ViewTypeCorrect == ViewSpec => []ViewTypeOK
<1>1. ViewInv => ViewTypeOK
  BY DEF ViewInv
<1> QED
  BY <1>1, ViewHolds, PTL

\* What the client has received is on screen or waits for the snapshot, for any number of
\* events, failures and batches: whatever refresh arrives late loses nothing.
\* (runThreadSubscription, threadSnapshot, mergeThreadSnapshot)
THEOREM ScreenIsWhole == ViewSpec => []ViewWhole
<1>1. ViewInv => ViewWhole
  BY ViewTypes DEF ViewInv, ClientInv, ViewWhole
<1> QED
  BY <1>1, ViewHolds, PTL

-----------------------------------------------------------------------------
(* Compaction *)

UpTo(n) == {s \in kept : s <= n}

\* The thread: after a clear, a cursor without a summary has nothing before it.
ThreadInv ==
  /\ kept \subseteq 1 .. last /\ upTo <= last
  /\ generation > 0 /\ summary = {} => UpTo(upTo) = {}
  /\ SummaryCovers

\* What a job read is true of the thread as long as no clear came between.
JobInv(c) ==
  /\ c.gen <= generation
  /\ c.gen = generation =>
       /\ c.upTo <= last
       /\ c.summary # {} => c.summary = UpTo(c.upTo)
       /\ c.gen > 0 /\ c.summary = {} => UpTo(c.upTo) = {}
       /\ c.pc = "advance" =>
            \E n \in 1 .. last : /\ n \in c.batch /\ \A s \in c.batch : s <= n
                                 /\ c.summary \cup c.batch = UpTo(n)

CInv == CompactionTypeOK /\ ThreadInv /\ (\A j \in Compactors : JobInv(compactor[j])) /\ ClearedMemoryPurged

Pcs == {"idle", "batch", "advance", "save", "recheck", "purge"}
Job == [pc : Pcs, upTo : 0 .. LastSeq, summary : SUBSET Seqs, gen : Generations, batch : SUBSET Seqs]

LEMMA NoCompactionIsJob == NoCompaction \in Job
<1>1. 0 \in 0 .. LastSeq /\ 0 \in Generations
  BY CompactionAssumption DEF Generations
<1> QED
  BY <1>1, Zenon DEF NoCompaction, Job, Pcs

LEMMA MovedIsJob ==
  ASSUME NEW c \in Job, NEW pc \in Pcs
  PROVE  [c EXCEPT !.pc = pc] \in Job
BY Zenon DEF Job

LEMMA CompactionStarts == CompactionInit => CInv
<1> SUFFICES ASSUME CompactionInit PROVE CInv
  OBVIOUS
<1> USE CompactionAssumption
<1>0. \A j \in Compactors : compactor[j] = NoCompaction
  BY Zenon DEF CompactionInit
<1>1. compactor \in [Compactors -> Job]
  BY NoCompactionIsJob, Zenon DEF CompactionInit
<1>2. PICK cleared \in 0 .. last : kept = cleared + 1 .. last /\ upTo \in cleared .. last
  BY DEF CompactionInit
<1>3. CompactionTypeOK
  <2>1. kept \subseteq Seqs /\ last \in 0 .. LastSeq /\ upTo \in 0 .. LastSeq
    BY <1>2 DEF CompactionInit, Seqs
  <2>2. compactJob \in BOOLEAN
    BY Zenon DEF CompactionInit
  <2> QED
    BY <1>1, <2>1, <2>2 DEF CompactionInit, CompactionTypeOK, Job, Pcs, Generations
<1>4. ThreadInv
  BY <1>2 DEF CompactionInit, ThreadInv, SummaryCovers
<1>5. \A j \in Compactors : JobInv(compactor[j])
  BY <1>0 DEF JobInv, NoCompaction, CompactionInit
<1>6. ClearedMemoryPurged
  BY DEF CompactionInit, ClearedMemoryPurged
<1> QED
  BY <1>3, <1>4, <1>5, <1>6 DEF CInv

-----------------------------------------------------------------------------
(* The thread moves: messages come after every cursor, a clear makes every job stale. *)

LEMMA WriteKeeps == CInv /\ WriteMessage => CInv'
<1> SUFFICES ASSUME CInv, WriteMessage PROVE CInv'
  OBVIOUS
<1>1. /\ last \in Nat /\ last' = last + 1 /\ kept' = kept \cup {last + 1} /\ last < LastSeq
      /\ kept \subseteq 1 .. last /\ upTo \in Nat /\ upTo <= last
  BY CompactionAssumption DEF CInv, CompactionTypeOK, ThreadInv, WriteMessage
<1>2. UNCHANGED <<upTo, summary, generation, compactJob, compactor, saved, clearing, leaked, mishaps>>
  BY Zenon DEF WriteMessage
<1>3. ASSUME NEW n \in Nat, n <= last PROVE UpTo(n)' = UpTo(n)
  BY <1>1, <1>3 DEF UpTo
<1>4. CompactionTypeOK'
  BY <1>1, <1>2, CompactionAssumption DEF CInv, CompactionTypeOK, Seqs
<1>5. ThreadInv'
  BY <1>1, <1>2, <1>3 DEF CInv, ThreadInv, SummaryCovers, UpTo
<1>6. ASSUME NEW j \in Compactors PROVE JobInv(compactor[j])'
  <2> DEFINE c == compactor[j]
  <2>1. JobInv(c) /\ c \in Job
    BY DEF CInv, CompactionTypeOK, Job, Pcs
  <2>2. c.upTo \in Nat
    BY <2>1, CompactionAssumption DEF Job
  <2>3. c.gen = generation => c.upTo <= last /\ {s \in kept' : s <= c.upTo} = UpTo(c.upTo)
    <3>1. \A n \in Nat : n <= last => {s \in kept' : s <= n} = UpTo(n)
      BY <1>1 DEF UpTo
    <3> QED
      BY <3>1, <2>1, <2>2 DEF JobInv
  <2>4. ASSUME c.gen = generation, c.pc = "advance"
        PROVE  \E n \in 1 .. last' : /\ n \in c.batch /\ \A s \in c.batch : s <= n
                                     /\ c.summary \cup c.batch = UpTo(n)'
    <3>1. PICK n \in 1 .. last : /\ n \in c.batch /\ \A s \in c.batch : s <= n
                                 /\ c.summary \cup c.batch = UpTo(n)
      BY <2>1, <2>4 DEF JobInv
    <3>2. n \in 1 .. last' /\ UpTo(n)' = UpTo(n)
      BY <1>1, <1>3
    <3> QED
      BY <3>1, <3>2
  <2>5. c' = c
    BY <1>2
  <2> HIDE DEF c
  <2>6. c.upTo <= last => c.upTo <= last'
    BY <1>1, <2>2
  <2>7. JobInv(c)'
    BY <1>2, <2>1, <2>3, <2>4, <2>5, <2>6 DEF JobInv, UpTo
  <2> QED
    BY <2>7 DEF c
<1>7. ClearedMemoryPurged'
  BY <1>2 DEF CInv, ClearedMemoryPurged
<1> QED
  BY <1>4, <1>5, <1>6, <1>7 DEF CInv

LEMMA ClearKeeps == CInv /\ ClearHistory => CInv'
<1> SUFFICES ASSUME CInv, ClearHistory PROVE CInv'
  OBVIOUS
<1> USE CompactionAssumption
<1>1. /\ generation \in Nat /\ generation' = generation + 1 /\ generation < MaxClears
      /\ kept' = {} /\ summary' = {} /\ last \in 0 .. LastSeq /\ upTo \in 0 .. LastSeq /\ upTo <= last
      /\ upTo' = IF last > 0 THEN last ELSE upTo
      /\ clearing' = clearing \cup {generation, IF generation > 0 THEN generation - 1 ELSE 0}
  BY DEF CInv, CompactionTypeOK, ThreadInv, ClearHistory, Generations
<1>2. UNCHANGED <<last, compactJob, compactor, saved, leaked, mishaps>>
  BY Zenon DEF ClearHistory
<1>3. CompactionTypeOK'
  BY <1>1, <1>2 DEF CInv, CompactionTypeOK, Generations
<1>4. ThreadInv'
  BY <1>1, <1>2 DEF ThreadInv, SummaryCovers, UpTo
<1>5. ASSUME NEW j \in Compactors PROVE JobInv(compactor[j])'
  <2>1. compactor[j].gen \in Nat /\ compactor[j].gen <= generation
    BY DEF CInv, CompactionTypeOK, JobInv, Generations
  <2> QED
    BY <1>1, <1>2, <2>1 DEF JobInv
<1>6. ClearedMemoryPurged'
  BY <1>1, <1>2 DEF CInv, ClearedMemoryPurged
<1> QED
  BY <1>3, <1>4, <1>5, <1>6 DEF CInv

-----------------------------------------------------------------------------
(* A job moves: its locals stay true, and the thread changes only under Current. *)

LEMMA JobsKeep ==
  ASSUME CInv, NEW j \in Compactors, NEW c \in Job,
         UNCHANGED <<kept, last, generation>>,
         compactor' = [compactor EXCEPT ![j] = c], JobInv(c)
  PROVE  /\ compactor' \in [Compactors -> Job]
         /\ \A k \in Compactors : JobInv(compactor[k])'
         /\ compactor'[j] = c /\ \A k \in Compactors : k # j => compactor'[k] = compactor[k]
<1>1. compactor \in [Compactors -> Job]
  BY DEF CInv, CompactionTypeOK, Job, Pcs
<1>2. compactor' \in [Compactors -> Job]
  BY <1>1, Zenon
<1>3. compactor'[j] = c /\ \A k \in Compactors : k # j => compactor'[k] = compactor[k]
  BY <1>1
<1>4. ASSUME NEW k \in Compactors PROVE JobInv(compactor[k])'
  <2>1. JobInv(compactor'[k])
    BY <1>3 DEF CInv
  <2>2. kept' = kept /\ last' = last /\ generation' = generation
    OBVIOUS
  <2> QED
    BY <2>1, <2>2 DEF JobInv, UpTo
<1> QED
  BY <1>2, <1>3, <1>4

LEMMA IdleInv == CInv => JobInv(NoCompaction)
BY CompactionAssumption DEF CInv, CompactionTypeOK, ThreadInv, JobInv, NoCompaction, Generations

LEMMA MovedInv ==
  ASSUME CInv, NEW j \in Compactors, NEW pc \in Pcs \ {"advance"}
  PROVE  JobInv([compactor[j] EXCEPT !.pc = pc])
<1>1. compactor[j] \in Job /\ JobInv(compactor[j])
  BY DEF CInv, CompactionTypeOK, Job, Pcs
<1> DEFINE c == [compactor[j] EXCEPT !.pc = pc]
<1>2. c.pc = pc /\ c.gen = compactor[j].gen /\ c.upTo = compactor[j].upTo /\ c.summary = compactor[j].summary
  BY <1>1 DEF Job
<1> HIDE DEF c
<1>3. JobInv(c)
  BY <1>1, <1>2 DEF JobInv
<1> QED
  BY <1>3 DEF c

Purging(c, g) == c.gen = g /\ c.pc \in {"recheck", "purge"}

\* Whoever leaves a generation to purge has seen that it is current, or its purge failed.
LEMMA PurgedKeeps ==
  ASSUME CInv, NEW j \in Compactors, NEW c \in Job,
         compactor' = [compactor EXCEPT ![j] = c],
         UNCHANGED <<generation, clearing>>, leaked \subseteq leaked',
         \A g \in saved' : g \in saved \/ Purging(c, g),
         \A g \in saved' : Purging(compactor[j], g) => g = generation \/ g \in leaked' \/ Purging(c, g)
  PROVE  ClearedMemoryPurged'
<1>1. compactor \in [Compactors -> Job]
  BY DEF CInv, CompactionTypeOK, Job, Pcs
<1>2. compactor'[j] = c /\ \A k \in Compactors : k # j => compactor'[k] = compactor[k]
  BY <1>1
<1>3. ASSUME NEW g \in saved'
      PROVE  \/ g = generation \/ g \in leaked' \/ g \in clearing
             \/ \E k \in Compactors : Purging(compactor'[k], g)
  <2>1. CASE Purging(c, g)
    BY <1>2, <2>1
  <2>2. CASE g \in saved /\ ~Purging(c, g)
    <3>1. \/ g = generation \/ g \in leaked \/ g \in clearing
          \/ \E k \in Compactors : Purging(compactor[k], g)
      BY <2>2 DEF CInv, ClearedMemoryPurged, Purging
    <3>2. ASSUME NEW k \in Compactors, Purging(compactor[k], g)
          PROVE  g = generation \/ g \in leaked' \/ Purging(compactor'[k], g)
      BY <1>2, <2>2, <3>2
    <3> QED
      BY <3>1, <3>2
  <2> QED
    BY <2>1, <2>2
<1> QED
  BY <1>3 DEF ClearedMemoryPurged, Purging

LEMMA CompactorKeeps ==
  ASSUME CInv, NEW j \in Compactors, NEW c \in Job,
         UNCHANGED <<kept, last, upTo, summary, generation, clearing>>,
         compactor' = [compactor EXCEPT ![j] = c], JobInv(c),
         compactJob' \in BOOLEAN, saved' \subseteq Generations,
         leaked \subseteq leaked', leaked' \subseteq Generations, mishaps' \in 0 .. MaxMishaps,
         \A g \in saved' : g \in saved \/ Purging(c, g),
         \A g \in saved' : Purging(compactor[j], g) => g = generation \/ g \in leaked' \/ Purging(c, g)
  PROVE  CInv'
<1>1. /\ compactor' \in [Compactors -> Job]
      /\ \A k \in Compactors : JobInv(compactor[k])'
  BY JobsKeep
<1>2. CompactionTypeOK'
  BY <1>1 DEF CInv, CompactionTypeOK, Job, Pcs
<1>3. ThreadInv'
  BY DEF CInv, ThreadInv, SummaryCovers, UpTo
<1>4. ClearedMemoryPurged'
  BY PurgedKeeps
<1> QED
  BY <1>1, <1>2, <1>3, <1>4 DEF CInv

LEMMA Typed ==
  ASSUME CInv, NEW j \in Compactors
  PROVE  /\ compactor[j] \in Job /\ JobInv(compactor[j])
         /\ compactJob \in BOOLEAN /\ saved \subseteq Generations /\ leaked \subseteq Generations
         /\ mishaps \in 0 .. MaxMishaps /\ compactor[j].gen \in Generations
<1>1. compactor[j] \in Job /\ JobInv(compactor[j])
  BY DEF CInv, CompactionTypeOK, Job, Pcs
<1>2. compactor[j].gen \in Generations
  BY <1>1 DEF Job
<1> QED
  BY <1>1, <1>2, Zenon DEF CInv, CompactionTypeOK

LEMMA ReadThreadKeeps ==
  ASSUME CInv, NEW j \in Compactors, ReadThread(j)
  PROVE  CInv'
<1> DEFINE c == [pc |-> "batch", upTo |-> upTo, summary |-> summary, gen |-> generation, batch |-> {}]
<1>1. compactor' = [compactor EXCEPT ![j] = c] /\ compactJob' = FALSE /\ compactor[j].pc = "idle"
  BY Zenon DEF ReadThread
<1>2. UNCHANGED <<kept, last, upTo, summary, generation, saved, clearing, leaked, mishaps>>
  BY Zenon DEF ReadThread
<1>3. c \in Job
  BY Zenon DEF CInv, CompactionTypeOK, Job, Pcs
<1>4. JobInv(c)
  BY DEF CInv, CompactionTypeOK, ThreadInv, SummaryCovers, JobInv, UpTo, Generations
<1> HIDE DEF c
<1>5. \A g : ~Purging(compactor[j], g)
  BY <1>1 DEF Purging
<1>6. compactJob' \in BOOLEAN
  BY <1>1, Zenon
<1> QED
  BY <1>1, <1>2, <1>3, <1>4, <1>5, <1>6, CompactorKeeps, Typed

LEMMA UpToExtends ==
  ASSUME NEW u \in Nat, NEW n \in Nat, u <= n, kept \subseteq Nat, u + 1 .. n \subseteq kept
  PROVE  UpTo(u) \cup (u + 1 .. n) = UpTo(n)
<1>1. \A s \in kept : s \in Nat /\ (s <= n <=> s <= u \/ s \in u + 1 .. n)
  OBVIOUS
<1> QED
  BY <1>1 DEF UpTo

\* A batch with the messages before it is what a summary up to its last message must tell.
LEMMA BatchCovers ==
  ASSUME CInv, NEW j \in Compactors, NEW b \in Batches(compactor[j]),
         compactor[j].gen = generation
  PROVE  \E n \in 1 .. last : /\ n \in b /\ \A s \in b : s <= n
                              /\ compactor[j].summary \cup b = UpTo(n)
<1> DEFINE c == compactor[j]
<1>1. c.upTo \in Nat /\ c.upTo <= last /\ kept \subseteq 1 .. last /\ last \in Nat
      /\ c.gen \in Nat /\ CompactBatch \in Nat
  BY CompactionAssumption DEF CInv, CompactionTypeOK, ThreadInv, JobInv, Generations
<1>2. /\ c.summary # {} => c.summary = UpTo(c.upTo)
      /\ c.gen > 0 /\ c.summary = {} => UpTo(c.upTo) = {}
  BY DEF CInv, JobInv
<1>3. CASE Bootstrap(c)
  <2>1. b = UpTo(c.upTo) /\ c.upTo \in b
    BY <1>3 DEF Batches, UpTo
  <2>2. c.summary = {}
    BY <1>3 DEF Bootstrap
  <2>3. c.upTo \in 1 .. last /\ \A s \in b : s <= c.upTo
    BY <1>1, <2>1 DEF UpTo
  <2> QED
    BY <2>1, <2>2, <2>3
<1>4. CASE ~Bootstrap(c)
  <2>1. b \in {c.upTo + 1 .. n : n \in c.upTo + 1 .. c.upTo + CompactBatch} /\ b \subseteq kept
    BY <1>4, Zenon DEF Batches
  <2>2. PICK n \in c.upTo + 1 .. c.upTo + CompactBatch : b = c.upTo + 1 .. n
    BY <2>1
  <2>3. c.summary = UpTo(c.upTo)
    <3>1. CASE c.summary # {}
      BY <1>2, <3>1
    <3>2. CASE c.summary = {}
      <4>1. c.gen > 0 \/ c.upTo = 0 \/ \A s \in kept : ~(s <= c.upTo)
        BY <1>1, <1>4, <3>2 DEF Bootstrap
      <4>2. c.upTo = 0 => \A s \in kept : ~(s <= c.upTo)
        BY <1>1
      <4>3. (\A s \in kept : ~(s <= c.upTo)) => UpTo(c.upTo) = {}
        BY DEF UpTo
      <4> QED
        BY <1>2, <3>2, <4>1, <4>2, <4>3
    <3> QED
      BY <3>1, <3>2
  <2>4. n \in b /\ (\A s \in b : s <= n) /\ n \in 1 .. last
    BY <1>1, <2>1, <2>2
  <2>5. UpTo(c.upTo) \cup b = UpTo(n)
    <3>1. n \in Nat /\ c.upTo <= n
      BY <1>1, <2>2
    <3>2. kept \subseteq Nat /\ c.upTo + 1 .. n \subseteq kept
      BY <1>1, <2>1, <2>2
    <3> HIDE DEF c
    <3> QED
      BY <1>1, <2>2, <3>1, <3>2, UpToExtends
  <2> QED
    BY <2>3, <2>4, <2>5
<1> QED
  BY <1>3, <1>4

LEMMA BatchIsSeqs ==
  ASSUME CInv, NEW j \in Compactors, NEW b \in Batches(compactor[j])
  PROVE  b \in SUBSET Seqs
<1>1. kept \subseteq Seqs
  BY DEF CInv, CompactionTypeOK
<1> QED
  BY <1>1 DEF Batches

LEMMA ReadBatchKeeps ==
  ASSUME CInv, NEW j \in Compactors, ReadBatch(j)
  PROVE  CInv'
<1>1. UNCHANGED <<kept, last, upTo, summary, generation, compactJob, saved, clearing, leaked, mishaps>>
      /\ compactor[j].pc = "batch"
  BY Zenon DEF ReadBatch
<1>2. \A g : ~Purging(compactor[j], g)
  BY <1>1 DEF Purging
<1>3. ASSUME NEW b \in Batches(compactor[j]),
             compactor' = [compactor EXCEPT ![j].pc = "advance", ![j].batch = b]
      PROVE  CInv'
  <2> DEFINE c == [compactor[j] EXCEPT !.pc = "advance", !.batch = b]
  <2>0. compactor[j] \in Job /\ JobInv(compactor[j]) /\ compactor \in [Compactors -> Job]
    BY Typed DEF CInv, CompactionTypeOK, Job, Pcs
  <2>1. compactor' = [compactor EXCEPT ![j] = c]
    BY <1>3, <2>0
  <2>2. b \in SUBSET Seqs
    BY BatchIsSeqs
  <2>3. c \in Job
    BY <2>0, <2>2, Zenon DEF Job, Pcs
  <2>4. c.gen = compactor[j].gen /\ c.upTo = compactor[j].upTo /\ c.summary = compactor[j].summary
        /\ c.batch = b
    BY <2>0 DEF Job
  <2> HIDE DEF c
  <2>5. JobInv(c)
    BY <2>0, <2>4, BatchCovers DEF JobInv
  <2> QED
    BY <1>1, <1>2, <2>1, <2>3, <2>5, CompactorKeeps, Typed
<1>4. CASE CompactorEnds(j)
  BY <1>1, <1>2, <1>4, NoCompactionIsJob, IdleInv, CompactorKeeps, Typed DEF CompactorEnds
<1> QED
  BY <1>3, <1>4, Zenon DEF ReadBatch

LEMMA AdvanceKeeps ==
  ASSUME CInv, NEW j \in Compactors, AdvanceCursor(j)
  PROVE  CInv'
<1> DEFINE c == compactor[j]
<1>1. UNCHANGED <<kept, last, generation, compactJob, saved, clearing, leaked, mishaps>>
      /\ c.pc = "advance"
  BY Zenon DEF AdvanceCursor
<1>2. \A g : ~Purging(c, g)
  BY <1>1 DEF Purging
<1>3. CASE Current(c)
  <2> DEFINE d == [c EXCEPT !.pc = "save"]
  <2>1. upTo' = Newest(c.batch) /\ summary' = c.summary \cup c.batch /\ compactor' = [compactor EXCEPT ![j] = d]
    BY <1>3, Zenon DEF AdvanceCursor, CompactorTo
  <2>2. PICK n \in 1 .. last : /\ n \in c.batch /\ \A s \in c.batch : s <= n
                               /\ c.summary \cup c.batch = UpTo(n)
    BY <1>1, <1>3 DEF CInv, JobInv, Current
  <2>3. c \in Job /\ c.batch \in SUBSET Seqs /\ last \in 0 .. LastSeq
    BY Typed DEF Job, CInv, CompactionTypeOK
  <2>4. Newest(c.batch) = n
    <3>1. \A s \in c.batch : s \in Nat
      BY <2>3 DEF Seqs
    <3>2. \A s \in c.batch : (\A t \in c.batch : t <= s) => s = n
      BY <2>2, <3>1
    <3> QED
      BY <2>2, <3>2 DEF Newest
  <2>5. d \in Job /\ JobInv(d)
    BY <2>3, MovedIsJob, MovedInv DEF Pcs
  <2>6. /\ compactor' \in [Compactors -> Job]
        /\ \A k \in Compactors : JobInv(compactor[k])'
    BY <1>1, <2>1, <2>5, JobsKeep
  <2>7. upTo' = n /\ summary' = UpTo(n) /\ n \in summary' /\ kept \subseteq Seqs
    BY <2>1, <2>2, <2>4 DEF CInv, CompactionTypeOK
  <2>8. upTo' \in 0 .. LastSeq /\ summary' \subseteq Seqs
    <3>1. n \in 0 .. LastSeq
      BY <2>3, CompactionAssumption
    <3>2. UpTo(n) \subseteq Seqs
      BY <2>7 DEF UpTo
    <3> QED
      BY <2>7, <3>1, <3>2
  <2>9. CompactionTypeOK'
    BY <1>1, <2>6, <2>8 DEF CInv, CompactionTypeOK, Job, Pcs
  <2>10. ThreadInv'
    BY <1>1, <2>2, <2>7 DEF CInv, ThreadInv, SummaryCovers, UpTo
  <2>11. ClearedMemoryPurged'
    BY <1>1, <1>2, <2>1, <2>5, PurgedKeeps
  <2> QED
    BY <2>6, <2>9, <2>10, <2>11 DEF CInv
<1>4. CASE ~Current(c)
  <2>1. compactor' = [compactor EXCEPT ![j] = NoCompaction] /\ UNCHANGED <<upTo, summary>>
    BY <1>4, Zenon DEF AdvanceCursor, CompactorEnds
  <2> QED
    BY <1>1, <1>2, <2>1, NoCompactionIsJob, IdleInv, CompactorKeeps, Typed
<1> QED
  BY <1>3, <1>4

LEMMA SaveKeeps ==
  ASSUME CInv, NEW j \in Compactors, SaveSummary(j)
  PROVE  CInv'
<1> DEFINE d == [compactor[j] EXCEPT !.pc = "recheck"]
<1>1. /\ compactor[j].pc = "save" /\ saved' \in {saved, saved \cup {compactor[j].gen}}
      /\ UNCHANGED <<kept, last, upTo, summary, generation, compactJob, clearing, leaked, mishaps>>
      /\ compactor' = [compactor EXCEPT ![j] = d]
  BY Zenon DEF SaveSummary, CompactorTo
<1>2. d \in Job /\ JobInv(d)
  BY Typed, MovedIsJob, MovedInv DEF Pcs
<1>3. Purging(d, compactor[j].gen) /\ \A g : ~Purging(compactor[j], g)
  BY <1>1, Typed DEF Job, Purging
<1> HIDE DEF d
<1>4. saved' \subseteq Generations
  BY <1>1, Typed
<1> QED
  BY <1>1, <1>2, <1>3, <1>4, CompactorKeeps, Typed

LEMMA RecheckKeeps ==
  ASSUME CInv, NEW j \in Compactors, Recheck(j)
  PROVE  CInv'
<1> DEFINE d == IF generation # compactor[j].gen THEN [compactor[j] EXCEPT !.pc = "purge"] ELSE NoCompaction
<1>1. /\ compactor[j].pc = "recheck"
      /\ UNCHANGED <<kept, last, upTo, summary, generation, saved, clearing, leaked, mishaps>>
      /\ compactor' = [compactor EXCEPT ![j] = d]
  BY Zenon DEF Recheck, CompactorTo, CompactorEnds
<1>2. d \in Job /\ JobInv(d)
  BY Typed, MovedIsJob, MovedInv, NoCompactionIsJob, IdleInv DEF Pcs
<1>3. generation = compactor[j].gen \/ Purging(d, compactor[j].gen)
  BY <1>1, Typed DEF Job, Purging
<1>4. compactJob' \in BOOLEAN
  BY Zenon DEF Recheck
<1> HIDE DEF d
<1>5. \A g \in saved' : Purging(compactor[j], g) => g = generation \/ g \in leaked' \/ Purging(d, g)
  BY <1>3 DEF Purging
<1> QED
  BY <1>1, <1>2, <1>4, <1>5, CompactorKeeps, Typed

LEMMA MishapType ==
  ASSUME CInv, Mishap
  PROVE  mishaps' \in 0 .. MaxMishaps
BY CompactionAssumption DEF Mishap, CInv, CompactionTypeOK

LEMMA PurgeStaleKeeps ==
  ASSUME CInv, NEW j \in Compactors, PurgeStale(j)
  PROVE  CInv'
<1>1. /\ compactor[j].pc = "purge"
      /\ UNCHANGED <<kept, last, upTo, summary, generation, compactJob, clearing>>
      /\ compactor' = [compactor EXCEPT ![j] = NoCompaction]
  BY Zenon DEF PurgeStale, CompactorEnds
<1>2. CASE saved' = saved \ {compactor[j].gen} /\ UNCHANGED <<leaked, mishaps>>
  <2>1. \A g \in saved' : ~Purging(compactor[j], g)
    BY <1>2 DEF Purging
  <2> QED
    BY <1>1, <1>2, <2>1, NoCompactionIsJob, IdleInv, CompactorKeeps, Typed
<1>3. CASE Mishap /\ leaked' = leaked \cup {compactor[j].gen} /\ UNCHANGED saved
  <2>1. \A g \in saved' : Purging(compactor[j], g) => g \in leaked'
    BY <1>3 DEF Purging
  <2> QED
    BY <1>1, <1>3, <2>1, MishapType, NoCompactionIsJob, IdleInv, CompactorKeeps, Typed
<1> QED
  BY <1>2, <1>3 DEF PurgeStale

LEMMA CompactorFailsKeeps ==
  ASSUME CInv, NEW j \in Compactors, CompactorFails(j)
  PROVE  CInv'
<1>1. /\ UNCHANGED <<kept, last, upTo, summary, generation, saved, clearing>>
      /\ compactJob' = TRUE /\ Mishap
      /\ compactor' = [compactor EXCEPT ![j] = NoCompaction]
  BY Zenon DEF CompactorFails, CompactorEnds
<1>2. leaked' = IF compactor[j].pc \in {"recheck", "purge"}
                THEN leaked \cup {compactor[j].gen} ELSE leaked
  BY Zenon DEF CompactorFails
<1>3. \A g \in saved' : Purging(compactor[j], g) => g \in leaked'
  BY <1>2 DEF Purging
<1>4. compactJob' \in BOOLEAN
  BY <1>1, Zenon
<1> QED
  BY <1>1, <1>2, <1>3, <1>4, MishapType, NoCompactionIsJob, IdleInv, CompactorKeeps, Typed

-----------------------------------------------------------------------------
(* The remaining steps *)

LEMMA AskKeeps == CInv /\ AskCompaction => CInv'
<1> SUFFICES ASSUME CInv, AskCompaction PROVE CInv'
  OBVIOUS
<1>1. UNCHANGED <<kept, last, upTo, summary, generation, compactor, saved, clearing, leaked, mishaps>>
      /\ compactJob' = TRUE
  BY Zenon DEF AskCompaction
<1>2. compactJob' \in BOOLEAN
  BY <1>1, Zenon
<1> QED
  BY <1>1, <1>2 DEF CInv, CompactionTypeOK, ThreadInv, SummaryCovers, UpTo, JobInv, ClearedMemoryPurged

LEMMA PurgeClearedKeeps == CInv /\ PurgeCleared => CInv'
<1> SUFFICES ASSUME CInv, PurgeCleared PROVE CInv'
  OBVIOUS
<1>1. UNCHANGED <<kept, last, upTo, summary, generation, compactJob, compactor>> /\ clearing' = {}
  BY Zenon DEF PurgeCleared
<1>2. \/ saved' = saved \ clearing /\ UNCHANGED <<leaked, mishaps>>
      \/ mishaps' \in 0 .. MaxMishaps /\ leaked' = leaked \cup clearing /\ UNCHANGED saved
  BY MishapType DEF PurgeCleared
<1>3. CompactionTypeOK'
  BY <1>1, <1>2 DEF CInv, CompactionTypeOK
<1>4. ThreadInv' /\ \A j \in Compactors : JobInv(compactor[j])'
  BY <1>1 DEF CInv, ThreadInv, SummaryCovers, UpTo, JobInv
<1>5. ClearedMemoryPurged'
  BY <1>1, <1>2 DEF CInv, ClearedMemoryPurged
<1> QED
  BY <1>3, <1>4, <1>5 DEF CInv

LEMMA CompactionPreserves == CInv /\ [CompactionNext]_historyVars => CInv'
<1> SUFFICES ASSUME CInv, [CompactionNext]_historyVars PROVE CInv'
  OBVIOUS
<1>1. CASE CompactionNext
  BY <1>1, WriteKeeps, AskKeeps, ClearKeeps, PurgeClearedKeeps, ReadThreadKeeps, ReadBatchKeeps,
     AdvanceKeeps, SaveKeeps, RecheckKeeps, PurgeStaleKeeps, CompactorFailsKeeps DEF CompactionNext
<1>2. CASE UNCHANGED historyVars
  BY <1>2 DEF historyVars, CInv, CompactionTypeOK, ThreadInv, SummaryCovers, UpTo, JobInv, ClearedMemoryPurged
<1> QED
  BY <1>1, <1>2

-----------------------------------------------------------------------------
\* The types of Compaction hold in every state.  (compactHistory, clearThread)
THEOREM CompactionTypeCorrect == CompactionSpec => []CompactionTypeOK
<1>1. CInv => CompactionTypeOK
  BY DEF CInv
<1> QED
  BY <1>1, CompactionStarts, CompactionPreserves, PTL DEF CompactionSpec

\* The summary and the messages after the cursor are the conversation, for any number of
\* concurrent compactions, writers and clears.  (compactHistory, clearThread)
THEOREM SummaryIsWhole == CompactionSpec => []SummaryCovers
<1>1. CInv => SummaryCovers
  BY DEF CInv, ThreadInv
<1> QED
  BY <1>1, CompactionStarts, CompactionPreserves, PTL DEF CompactionSpec

\* Cleared memory is purged by somebody who is still at it, unless a purge failed, however
\* late a save arrives.  (compactHistory, threads.clear)
THEOREM ClearedIsPurged == CompactionSpec => []ClearedMemoryPurged
<1>1. CInv => ClearedMemoryPurged
  BY DEF CInv
<1> QED
  BY <1>1, CompactionStarts, CompactionPreserves, PTL DEF CompactionSpec

-----------------------------------------------------------------------------
(* The mirror of a channel run *)

\* The invariant: while the run waits nothing is written, so its ask is its last message; a
\* mirror under way holds messages that exist, and none after an answered ask.
WaitsOnAsk == runState = "waiting" => asked = replies /\ asked > 0

BatchesPrivate ==
  \A m \in Copiers :
    /\ mirror[m].batch \subseteq 1 .. replies
    /\ mirror[m].pc = "fan" => channel /\ mirror[m].batch \subseteq outbox
    /\ channel /\ answered => \A x \in mirror[m].batch : x <= asked

MInv == MirrorTypeOK /\ WaitsOnAsk /\ BatchesPrivate /\ MirrorHidesAnswers

LEMMA MirrorStarts == MirrorInit => MInv
<1> SUFFICES ASSUME MirrorInit PROVE MInv
  OBVIOUS
<1>1. MirrorTypeOK
  <2>1. mirror \in [Copiers -> [pc : {"idle", "read", "copy", "fan", "mark"},
                                batch : SUBSET Messages, whole : BOOLEAN]]
    BY Zenon DEF MirrorInit, NoMirror
  <2>2. channel \in BOOLEAN /\ connected \in BOOLEAN /\ mirroredAt \in BOOLEAN /\ blind \in BOOLEAN
    BY Zenon DEF MirrorInit
  <2>3. replies \in 0 .. MaxReplies /\ asked \in 0 .. replies /\ slips \in 0 .. MaxSlips
    BY MirrorAssumption DEF MirrorInit
  <2> QED
    BY <2>1, <2>2, <2>3 DEF MirrorInit, MirrorTypeOK
<1>2. WaitsOnAsk /\ MirrorHidesAnswers
  BY DEF MirrorInit, WaitsOnAsk, MirrorHidesAnswers
<1>3. BatchesPrivate
  BY DEF MirrorInit, BatchesPrivate, NoMirror
<1> QED
  BY <1>1, <1>2, <1>3 DEF MInv

-----------------------------------------------------------------------------
(* The steps of the run: the mirrors under way do not move. *)

LEMMA RunKeeps ==
  ASSUME MInv, Reply \/ AskUser \/ AnswerAsk \/ CompleteRun \/ DisconnectBot
  PROVE  MInv'
<1> USE MirrorAssumption DEF MInv
<1>1. CASE Reply
  BY <1>1 DEF Reply, MirrorTypeOK, WaitsOnAsk, BatchesPrivate, MirrorHidesAnswers
<1>2. CASE AskUser
  BY <1>2 DEF AskUser, MirrorTypeOK, WaitsOnAsk, BatchesPrivate, MirrorHidesAnswers
<1>3. CASE AnswerAsk
  <2>1. outbox \subseteq 1 .. replies /\ asked = replies /\ replies \in Nat
    BY <1>3 DEF AnswerAsk, MirrorTypeOK, WaitsOnAsk
  <2>2. MirrorTypeOK' /\ WaitsOnAsk'
    BY <1>3 DEF AnswerAsk, MirrorTypeOK, WaitsOnAsk
  <2>3. BatchesPrivate'
    BY <1>3, <2>1 DEF AnswerAsk, BatchesPrivate
  <2>4. MirrorHidesAnswers'
    BY <1>3, <2>1 DEF AnswerAsk, MirrorHidesAnswers, MirrorTypeOK
  <2> QED
    BY <2>2, <2>3, <2>4
<1>4. CASE CompleteRun
  BY <1>4 DEF CompleteRun, MirrorTypeOK, WaitsOnAsk, BatchesPrivate, MirrorHidesAnswers
<1>5. CASE DisconnectBot
  <2>1. UNCHANGED <<messagingRun, outbox, handed, mirroredAt, blind, mirror>>
    BY <1>5, Zenon DEF DisconnectBot
  <2>2. connected' \in BOOLEAN
    BY <1>5, Zenon DEF DisconnectBot
  <2>5. slips < MaxSlips /\ slips' = slips + 1
    BY <1>5, Zenon DEF DisconnectBot
  <2>6. slips' \in 0 .. MaxSlips
    BY <2>5 DEF MirrorTypeOK
  <2>3. MirrorTypeOK'
    BY <2>1, <2>2, <2>6 DEF messagingRun, MirrorTypeOK
  <2>4. WaitsOnAsk' /\ BatchesPrivate' /\ MirrorHidesAnswers'
    BY <2>1 DEF messagingRun, WaitsOnAsk, BatchesPrivate, MirrorHidesAnswers
  <2> QED
    BY <2>3, <2>4
<1> QED
  BY <1>1, <1>2, <1>3, <1>4, <1>5

-----------------------------------------------------------------------------
(* The steps of a mirror: the run does not move. *)

\* What a mirror may hold.
Local(l) ==
  /\ l \in [pc : {"idle", "read", "copy", "fan", "mark"}, batch : SUBSET Messages, whole : BOOLEAN]
  /\ l.batch \subseteq 1 .. replies
  /\ channel /\ answered => \A x \in l.batch : x <= asked

LEMMA LocalHolds ==
  ASSUME MInv, NEW m \in Copiers
  PROVE  Local(mirror[m])
BY DEF MInv, Local, MirrorTypeOK, BatchesPrivate

LEMMA LocalMoves ==
  ASSUME MInv, NEW m \in Copiers, NEW pc \in {"idle", "read", "copy", "fan", "mark"}
  PROVE  Local([mirror[m] EXCEPT !.pc = pc])
BY LocalHolds, Zenon DEF Local

LEMMA LocalIdle == Local(NoMirror)
<1>1. NoMirror \in [pc : {"idle", "read", "copy", "fan", "mark"}, batch : SUBSET Messages, whole : BOOLEAN]
  BY Zenon DEF NoMirror
<1> QED
  BY <1>1 DEF Local, NoMirror

\* A mirror that moves within its bounds, the outbox and the peers growing by its batch only.
LEMMA MirrorKeeps ==
  ASSUME MInv, NEW m \in Copiers, NEW l, Local(l),
         mirror' = [mirror EXCEPT ![m] = l],
         l.pc = "fan" => channel /\ l.batch \subseteq outbox',
         UNCHANGED messagingRun,
         connected' \in BOOLEAN, mirroredAt' \in BOOLEAN, blind' \in BOOLEAN, slips' \in 0 .. MaxSlips,
         outbox \subseteq outbox', outbox' \subseteq outbox \cup mirror[m].batch,
         handed' \in [Peers -> SUBSET outbox'],
         ~channel => handed' = handed
  PROVE  MInv'
<1> DEFINE L == [pc : {"idle", "read", "copy", "fan", "mark"}, batch : SUBSET Messages, whole : BOOLEAN]
<1>1. mirror' \in [Copiers -> L]
  BY Zenon DEF MInv, MirrorTypeOK, Local
<1>2. outbox' \subseteq 1 .. replies
  BY DEF MInv, MirrorTypeOK, BatchesPrivate
<1>3. MirrorTypeOK'
  BY <1>1, <1>2 DEF MInv, MirrorTypeOK, messagingRun
<1>4. WaitsOnAsk'
  BY DEF MInv, WaitsOnAsk, messagingRun
<1>5. mirror'[m] = l /\ \A k \in Copiers : k # m => mirror'[k] = mirror[k]
  BY DEF MInv, MirrorTypeOK
<1>6. BatchesPrivate'
  BY <1>5 DEF MInv, BatchesPrivate, Local, messagingRun
<1>7. MirrorHidesAnswers'
  BY DEF MInv, MirrorHidesAnswers, BatchesPrivate, messagingRun
<1> QED
  BY <1>3, <1>4, <1>6, <1>7 DEF MInv

LEMMA StepKeeps ==
  ASSUME MInv, NEW m \in Copiers, StartMirror(m) \/ MirrorStep(m) \/ MirrorDies(m)
  PROVE  MInv'
<1> DEFINE Steady == /\ UNCHANGED messagingRun /\ connected' \in BOOLEAN /\ mirroredAt' \in BOOLEAN
                     /\ blind' \in BOOLEAN /\ slips' \in 0 .. MaxSlips
<1>0. mirror[m].pc \in {"idle", "read", "copy", "fan", "mark"} /\ handed \in [Peers -> SUBSET outbox]
  BY DEF MInv, MirrorTypeOK
<1>s. connected \in BOOLEAN /\ mirroredAt \in BOOLEAN /\ blind \in BOOLEAN /\ slips \in 0 .. MaxSlips
  BY DEF MInv, MirrorTypeOK
<1>1. CASE StartMirror(m)
  <2>1. mirror' = [mirror EXCEPT ![m] = [mirror[m] EXCEPT !.pc = "read"]]
    BY <1>1, Zenon DEF StartMirror, MirrorTo
  <2>2. Steady /\ UNCHANGED <<outbox, handed>>
    BY <1>1, <1>s DEF StartMirror
  <2>3. [mirror[m] EXCEPT !.pc = "read"].pc = "read"
    BY <1>0 DEF MInv, MirrorTypeOK
  <2> QED
    BY <2>1, <2>2, <2>3, <1>0, LocalMoves, MirrorKeeps
<1>2. CASE ReadReplies(m)
  <2> DEFINE l == [pc    |-> IF connected /\ ~Hidden /\ replies > 0 THEN "copy" ELSE "mark",
                   batch |-> IF connected /\ ~Hidden THEN 1 .. replies ELSE {},
                   whole |-> runState = "completed"]
  <2>1. mirror' = [mirror EXCEPT ![m] = l]
    BY <1>2, Zenon DEF ReadReplies
  <2>2. Steady /\ UNCHANGED <<outbox, handed>>
    BY <1>2, <1>s DEF ReadReplies
  <2>3. 1 .. replies \subseteq Messages
    BY MirrorAssumption DEF MInv, MirrorTypeOK, Messages
  <2>4. l \in [pc : {"idle", "read", "copy", "fan", "mark"}, batch : SUBSET Messages, whole : BOOLEAN]
    BY <2>3, Zenon
  <2>5. Local(l) /\ l.pc # "fan"
    BY <2>4 DEF Local, Hidden
  <2> HIDE DEF l
  <2> QED
    BY <2>1, <2>2, <2>5, <1>0, MirrorKeeps
<1>3. CASE CopyReplies(m)
  <2> DEFINE pc == IF channel THEN "fan" ELSE "mark"
             l == [mirror[m] EXCEPT !.pc = pc]
  <2>1. mirror' = [mirror EXCEPT ![m] = l]
    BY <1>3, Zenon DEF CopyReplies, MirrorTo
  <2>2. Steady /\ UNCHANGED handed /\ outbox' = outbox \cup mirror[m].batch
    BY <1>3, <1>s DEF CopyReplies, BatchOf
  <2>3. Local(l) /\ l.batch = mirror[m].batch /\ (l.pc = "fan" => channel)
    BY LocalMoves DEF MInv, MirrorTypeOK
  <2>4. handed' \in [Peers -> SUBSET outbox']
    BY <2>2, <1>0
  <2> HIDE DEF l
  <2> QED
    BY <2>1, <2>2, <2>3, <2>4, MirrorKeeps
<1>4. CASE FanOut(m)
  <2>0. Steady /\ UNCHANGED outbox /\ mirror[m].pc = "fan" /\ channel /\ mirror[m].batch \subseteq outbox
    BY <1>4, <1>s DEF FanOut, MInv, BatchesPrivate
  <2>1. ASSUME NEW p \in Peers, NEW x \in mirror[m].batch,
               handed' = [handed EXCEPT ![p] = @ \cup {x}], UNCHANGED mirror
        PROVE  MInv'
    <3>1. handed' \in [Peers -> SUBSET outbox']
      BY <2>0, <2>1, <1>0
    <3>2. mirror' = [mirror EXCEPT ![m] = mirror[m]]
      BY <2>1 DEF MInv, MirrorTypeOK
    <3> QED
      BY <2>0, <3>1, <3>2, LocalHolds, MirrorKeeps
  <2>2. ASSUME mirror' = [mirror EXCEPT ![m] = [mirror[m] EXCEPT !.pc = "mark"]], UNCHANGED handed
        PROVE  MInv'
    <3>1. [mirror[m] EXCEPT !.pc = "mark"].pc = "mark"
      BY <1>0 DEF MInv, MirrorTypeOK
    <3> QED
      BY <2>0, <2>2, <3>1, <1>0, LocalMoves, MirrorKeeps
  <2> QED
    BY <1>4, <2>1, <2>2, Zenon DEF FanOut, MirrorTo
<1>5. CASE MarkMirrored(m)
  <2>1. mirror' = [mirror EXCEPT ![m] = NoMirror]
    BY <1>5, Zenon DEF MarkMirrored
  <2>2. mirroredAt' \in BOOLEAN /\ blind' \in BOOLEAN
    BY <1>5, Zenon DEF MarkMirrored
  <2>3. Steady /\ UNCHANGED <<outbox, handed>>
    BY <1>5, <1>s, <2>2 DEF MarkMirrored
  <2> QED
    BY <2>1, <2>3, <1>0, LocalIdle, MirrorKeeps DEF NoMirror
<1>6. CASE MirrorDies(m)
  <2>1. mirror' = [mirror EXCEPT ![m] = NoMirror]
    BY <1>6, Zenon DEF MirrorDies
  <2>2. Steady /\ UNCHANGED <<outbox, handed>>
    BY <1>6, <1>s, MirrorAssumption DEF MirrorDies
  <2> QED
    BY <2>1, <2>2, <1>0, LocalIdle, MirrorKeeps DEF NoMirror
<1> QED
  BY <1>1, <1>2, <1>3, <1>4, <1>5, <1>6 DEF MirrorStep

LEMMA SweepKeeps ==
  ASSUME MInv, SweepMirror
  PROVE  MInv'
<1>1. "sweep" \in Copiers
  BY DEF Copiers
<1>2. mirror' = [mirror EXCEPT !["sweep"] = [mirror["sweep"] EXCEPT !.pc = "read"]]
  BY Zenon DEF SweepMirror, MirrorTo
<1>3. [mirror["sweep"] EXCEPT !.pc = "read"].pc = "read"
  BY <1>1 DEF MInv, MirrorTypeOK
<1>4. connected \in BOOLEAN /\ mirroredAt \in BOOLEAN /\ blind \in BOOLEAN /\ slips \in 0 .. MaxSlips
      /\ handed \in [Peers -> SUBSET outbox]
  BY DEF MInv, MirrorTypeOK
<1>5. UNCHANGED <<messagingRun, connected, outbox, handed, mirroredAt, blind, slips>>
  BY DEF SweepMirror
<1>6. Local([mirror["sweep"] EXCEPT !.pc = "read"])
  BY <1>1, LocalMoves
<1> QED
  BY <1>1, <1>2, <1>3, <1>4, <1>5, <1>6, MirrorKeeps

LEMMA MirrorPreserves == MInv /\ [MirrorNext]_mirrorVars => MInv'
<1> SUFFICES ASSUME MInv, [MirrorNext]_mirrorVars PROVE MInv'
  OBVIOUS
<1>1. CASE MirrorNext
  BY <1>1, RunKeeps, SweepKeeps, StepKeeps DEF MirrorNext
<1>2. CASE UNCHANGED mirrorVars
  BY <1>2 DEF MInv, mirrorVars, messagingRun, MirrorTypeOK, WaitsOnAsk, BatchesPrivate, MirrorHidesAnswers
<1> QED
  BY <1>1, <1>2

-----------------------------------------------------------------------------
\* The types of Mirror hold in every state.  (mirrorMessagingOutbound)
THEOREM MirrorTypeCorrect == MirrorSpec => []MirrorTypeOK
<1>1. MInv => MirrorTypeOK
  BY DEF MInv
<1> QED
  BY <1>1, MirrorStarts, MirrorPreserves, PTL DEF MirrorSpec

\* In a channel, no message written after a privately entered answer is posted or handed to a
\* peer, for any number of concurrent mirrors.  (mirrorChannelRun)
THEOREM AnswersStayPrivate == MirrorSpec => []MirrorHidesAnswers
<1>1. MInv => MirrorHidesAnswers
  BY DEF MInv
<1> QED
  BY <1>1, MirrorStarts, MirrorPreserves, PTL DEF MirrorSpec
================================================================================
