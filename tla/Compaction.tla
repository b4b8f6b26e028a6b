------------------------------- MODULE Compaction -------------------------------
(***************************************************************************)
(* The history of one thread: messages, the summary that stands for its    *)
(* oldest ones, and the copies of summaries in the memory provider.  Jobs  *)
(* summarise batch after batch beside writers and beside a user who clears *)
(* the thread; the model call and the provider's calls lie between the     *)
(* reads and the writes of a job.                                          *)
(***************************************************************************)
EXTENDS Naturals, FiniteSets

CONSTANTS
  Compactors,    \* jobs that may run at the same time
  LastSeq,       \* bound: messages ever written to the thread
  CompactBatch,  \* COMPACTION_BATCH_SIZE
  HistoryWindow, \* HISTORY_WINDOW_SIZE
  MaxClears,     \* bound: clears
  MaxMishaps     \* bound: calls that fail and processes that die

ASSUME CompactionAssumption ==
  /\ LastSeq \in Nat \ {0, 1} /\ CompactBatch \in Nat \ {0} /\ HistoryWindow \in Nat
  /\ MaxClears \in Nat /\ MaxMishaps \in Nat

VARIABLES
  kept,       \* sequence numbers of the messages in the table
  last,       \* the last sequence number given out
  upTo,       \* historyCompactedUpToSeq, 0 before the first compaction
  summary,    \* the messages historyCompactionSummary tells of, {} for none
  generation, \* historyCompactionGeneration
  compactJob, \* a history.compact job is pending
  compactor,  \* the locals of each compactHistory in progress
  saved,      \* generations the provider has summaries of
  clearing,   \* generations the clears under way have yet to purge
  leaked,     \* history: generations whose purge failed or was never tried
  mishaps

historyVars == <<kept, last, upTo, summary, generation, compactJob, compactor, saved, clearing,
                 leaked, mishaps>>

Seqs == 1 .. LastSeq
Generations == 0 .. MaxClears
NoCompaction == [pc |-> "idle", upTo |-> 0, summary |-> {}, gen |-> 0, batch |-> {}]

CompactionTypeOK ==
  /\ kept \subseteq Seqs /\ last \in 0 .. LastSeq /\ upTo \in 0 .. LastSeq
  /\ summary \subseteq Seqs /\ generation \in Generations
  /\ compactJob \in BOOLEAN
  /\ compactor \in [Compactors ->
       [pc : {"idle", "batch", "advance", "save", "recheck", "purge"},
        upTo : 0 .. LastSeq, summary : SUBSET Seqs, gen : Generations, batch : SUBSET Seqs]]
  /\ saved \subseteq Generations /\ clearing \subseteq Generations /\ leaked \subseteq Generations
  /\ mishaps \in 0 .. MaxMishaps

\* A thread from before local summaries may have a cursor without one, and may have been
\* cleared before there were generations.
CompactionInit ==
  /\ last \in 0 .. 2
  /\ \E cleared \in 0 .. last : kept = cleared + 1 .. last /\ upTo \in cleared .. last
  /\ summary = {} /\ generation = 0 /\ saved = {}
  /\ compactJob = FALSE /\ compactor = [j \in Compactors |-> NoCompaction]
  /\ clearing = {} /\ leaked = {} /\ mishaps = 0

Mishap == mishaps < MaxMishaps /\ mishaps' = mishaps + 1

\* shouldEnqueueCompaction
Backlog(cursor) == last - cursor >= HistoryWindow + CompactBatch

--------------------------------------------------------------------------------
(* Messages, runs and clears *)

WriteMessage ==
  /\ last < LastSeq
  /\ last' = last + 1 /\ kept' = kept \cup {last + 1}
  /\ UNCHANGED <<upTo, summary, generation, compactJob, compactor, saved, clearing, leaked, mishaps>>

\* A run completes.
AskCompaction ==
  /\ Backlog(upTo) /\ ~compactJob
  /\ compactJob' = TRUE
  /\ UNCHANGED <<kept, last, upTo, summary, generation, compactor, saved, clearing, leaked, mishaps>>

ClearHistory ==
  /\ generation < MaxClears
  /\ kept' = {} /\ summary' = {} /\ generation' = generation + 1
  /\ upTo' = IF last > 0 THEN last ELSE upTo
  /\ clearing' = clearing \cup {generation, IF generation > 0 THEN generation - 1 ELSE 0}
  /\ UNCHANGED <<last, compactJob, compactor, saved, leaked, mishaps>>

\* The handler purges what the clear left in the provider, or fails to.
PurgeCleared ==
  /\ clearing # {}
  /\ \/ saved' = saved \ clearing /\ UNCHANGED <<leaked, mishaps>>
     \/ Mishap /\ leaked' = leaked \cup clearing /\ UNCHANGED saved
  /\ clearing' = {}
  /\ UNCHANGED <<kept, last, upTo, summary, generation, compactJob, compactor>>

--------------------------------------------------------------------------------
(* compactHistory *)

CompactorTo(j, pc) == compactor' = [compactor EXCEPT ![j].pc = pc]
CompactorEnds(j) == compactor' = [compactor EXCEPT ![j] = NoCompaction]

ReadThread(j) ==
  /\ compactor[j].pc = "idle" /\ compactJob
  /\ compactJob' = FALSE
  /\ compactor' = [compactor EXCEPT ![j] =
       [pc |-> "batch", upTo |-> upTo, summary |-> summary, gen |-> generation, batch |-> {}]]
  /\ UNCHANGED <<kept, last, upTo, summary, generation, saved, clearing, leaked, mishaps>>

\* A cursor without a summary, from before there were summaries: they are rebuilt.
Bootstrap(c) == c.gen = 0 /\ c.upTo > 0 /\ c.summary = {} /\ \E s \in kept : s <= c.upTo

\* The messages a summary may take in: the first ones after the cursor, as many as fit the
\* model's window, or, to rebuild, all up to it.  Those with a gap are left.
Batches(c) ==
  IF Bootstrap(c)
  THEN LET old == {s \in kept : s <= c.upTo} IN
       IF c.upTo \in old /\ \E f \in Seqs : old = f .. c.upTo THEN {old} ELSE {}
  ELSE {b \in {c.upTo + 1 .. n : n \in c.upTo + 1 .. c.upTo + CompactBatch} : b \subseteq kept}

\* The batch is read and the model asked.
ReadBatch(j) ==
  /\ compactor[j].pc = "batch"
  /\ \/ \E b \in Batches(compactor[j]) :
          compactor' = [compactor EXCEPT ![j].pc = "advance", ![j].batch = b]
     \/ Batches(compactor[j]) = {} /\ CompactorEnds(j)
  /\ UNCHANGED <<kept, last, upTo, summary, generation, compactJob, saved, clearing, leaked, mishaps>>

\* Mutant: only the cursor is compared.
CurrentMutantCursor(c) == upTo = c.upTo

\* The compare-and-set: neither another job nor a clear came between.
Current(c) == upTo = c.upTo /\ generation = c.gen

Newest(seqs) == CHOOSE s \in seqs : \A t \in seqs : t <= s

AdvanceCursor(j) ==
  LET c == compactor[j] IN
  /\ c.pc = "advance"
  /\ IF Current(c)
     THEN /\ upTo' = Newest(c.batch) /\ summary' = c.summary \cup c.batch
          /\ CompactorTo(j, "save")
     ELSE CompactorEnds(j) /\ UNCHANGED <<upTo, summary>>
  /\ UNCHANGED <<kept, last, generation, compactJob, saved, clearing, leaked, mishaps>>

\* No provider, a save that fails, or a late one.
SaveSummary(j) ==
  /\ compactor[j].pc = "save"
  /\ saved' \in {saved, saved \cup {compactor[j].gen}}
  /\ CompactorTo(j, "recheck")
  /\ UNCHANGED <<kept, last, upTo, summary, generation, compactJob, clearing, leaked, mishaps>>

\* Mutant: the job ends with its save.
RecheckMutantNever(j) ==
  /\ compactor[j].pc = "recheck"
  /\ compactJob' = (compactJob \/ Backlog(upTo))
  /\ CompactorEnds(j)
  /\ UNCHANGED <<kept, last, upTo, summary, generation, saved, clearing, leaked, mishaps>>

\* The thread is read again: a clear may have purged before the save arrived.
Recheck(j) ==
  /\ compactor[j].pc = "recheck"
  /\ compactJob' = (compactJob \/ Backlog(upTo))
  /\ IF generation # compactor[j].gen THEN CompactorTo(j, "purge") ELSE CompactorEnds(j)
  /\ UNCHANGED <<kept, last, upTo, summary, generation, saved, clearing, leaked, mishaps>>

PurgeStale(j) ==
  /\ compactor[j].pc = "purge"
  /\ \/ saved' = saved \ {compactor[j].gen} /\ UNCHANGED <<leaked, mishaps>>
     \/ Mishap /\ leaked' = leaked \cup {compactor[j].gen} /\ UNCHANGED saved
  /\ CompactorEnds(j)
  /\ UNCHANGED <<kept, last, upTo, summary, generation, compactJob, clearing>>

\* The job throws or its process dies, and is tried again.
CompactorFails(j) ==
  /\ compactor[j].pc # "idle" /\ Mishap
  /\ compactJob' = TRUE
  /\ leaked' = IF compactor[j].pc \in {"recheck", "purge"}
               THEN leaked \cup {compactor[j].gen} ELSE leaked
  /\ CompactorEnds(j)
  /\ UNCHANGED <<kept, last, upTo, summary, generation, saved, clearing>>

CompactionNext ==
  \/ WriteMessage \/ AskCompaction \/ ClearHistory \/ PurgeCleared
  \/ \E j \in Compactors :
       \/ ReadThread(j) \/ ReadBatch(j) \/ AdvanceCursor(j) \/ SaveSummary(j)
       \/ Recheck(j) \/ PurgeStale(j) \/ CompactorFails(j)

CompactionSpec == CompactionInit /\ [][CompactionNext]_historyVars

--------------------------------------------------------------------------------
\* A run is shown the summary and the messages after the cursor.  Together they are the
\* conversation: the summary leaves out no message up to the cursor and tells of none that
\* was cleared, however jobs, writers and clears overlap.  (compactHistory, clearThread,
\* selectCompactedHistory)
SummaryCovers == summary # {} => summary = {s \in kept : s <= upTo}

\* What the provider keeps of a cleared conversation is purged by somebody who is still at
\* it, unless a purge failed or its process died: a save that arrives after the purge of the
\* clear is purged by its own job.  (compactHistory, threads.clear)
ClearedMemoryPurged ==
  \A g \in saved :
    \/ g = generation \/ g \in leaked \/ g \in clearing
    \/ \E j \in Compactors : compactor[j].gen = g /\ compactor[j].pc \in {"recheck", "purge"}
================================================================================
