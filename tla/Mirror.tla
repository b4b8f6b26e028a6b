---------------------------------- MODULE Mirror ----------------------------------
(***************************************************************************)
(* The automatic mirror of a messaging run: what its bot wrote is copied   *)
(* into the outbox and, in a channel, handed to the peers, by the worker   *)
(* whenever an invocation of the run is over and by the reconciler if the  *)
(* worker's process died in between.                                       *)
(***************************************************************************)
EXTENDS Naturals, FiniteSets

CONSTANTS
  Mirrorers,   \* workers that may mirror the run; the reconciler comes on top
  Peers,       \* approved bots of the channel
  MaxReplies,  \* bound: messages the bot writes
  MaxSlips     \* bound: processes that die

ASSUME MirrorAssumption == MaxReplies \in Nat \ {0} /\ MaxSlips \in Nat

VARIABLES
  channel,     \* the run was asked in a channel
  connected,   \* the bot has a messaging identity
  runState, replies,  \* the run and the number of messages it wrote
  asked,       \* the message that is an ask, 0 for none
  answered,    \* its block is marked as answered
  outbox,      \* messages with a row in messagingOutbound
  handed,      \* messages each peer has
  mirroredAt,  \* messagingMirroredAt is set
  blind,       \* history: it was set by a mirror that had read an unfinished run
  mirror,      \* the locals of each mirrorMessagingOutbound in progress
  slips

mirrorVars == <<channel, connected, runState, replies, asked, answered, outbox, handed, mirroredAt,
                blind, mirror, slips>>
messagingRun == <<channel, runState, replies, asked, answered>>

Copiers == Mirrorers \cup {"sweep"}
Messages == 1 .. MaxReplies
NoMirror == [pc |-> "idle", batch |-> {}, whole |-> FALSE]

MirrorTypeOK ==
  /\ channel \in BOOLEAN /\ connected \in BOOLEAN
  /\ runState \in {"running", "waiting", "completed"}
  /\ replies \in 0 .. MaxReplies /\ asked \in 0 .. replies /\ (answered => asked > 0)
  /\ outbox \subseteq 1 .. replies
  /\ handed \in [Peers -> SUBSET outbox] /\ (~channel => \A p \in Peers : handed[p] = {})
  /\ mirroredAt \in BOOLEAN /\ blind \in BOOLEAN
  /\ mirror \in [Copiers -> [pc : {"idle", "read", "copy", "fan", "mark"},
                             batch : SUBSET Messages, whole : BOOLEAN]]
  /\ slips \in 0 .. MaxSlips

MirrorInit ==
  /\ channel \in BOOLEAN /\ connected = TRUE
  /\ runState = "running" /\ replies = 0 /\ asked = 0 /\ answered = FALSE
  /\ outbox = {} /\ handed = [p \in Peers |-> {}]
  /\ mirroredAt = FALSE /\ blind = FALSE
  /\ mirror = [m \in Copiers |-> NoMirror]
  /\ slips = 0

--------------------------------------------------------------------------------
(* The run and the user *)

Reply ==
  /\ runState = "running" /\ replies < MaxReplies
  /\ replies' = replies + 1
  /\ UNCHANGED <<channel, connected, runState, asked, answered, outbox, handed, mirroredAt, blind, mirror, slips>>

AskUser ==
  /\ runState = "running" /\ replies < MaxReplies /\ asked = 0
  /\ replies' = replies + 1 /\ asked' = replies + 1 /\ runState' = "waiting"
  /\ UNCHANGED <<channel, connected, answered, outbox, handed, mirroredAt, blind, mirror, slips>>

\* answerRunInput: the block is marked and the run is queued again.
AnswerAsk ==
  /\ runState = "waiting"
  /\ answered' = TRUE /\ runState' = "running"
  /\ UNCHANGED <<channel, connected, replies, asked, outbox, handed, mirroredAt, blind, mirror, slips>>

CompleteRun ==
  /\ runState = "running"
  /\ runState' = "completed"
  /\ UNCHANGED <<channel, connected, replies, asked, answered, outbox, handed, mirroredAt, blind, mirror, slips>>

DisconnectBot ==
  /\ connected /\ slips < MaxSlips
  /\ connected' = FALSE /\ slips' = slips + 1
  /\ UNCHANGED <<messagingRun, outbox, handed, mirroredAt, blind, mirror>>

--------------------------------------------------------------------------------
(* mirrorMessagingOutbound *)

MirrorTo(m, pc) == mirror' = [mirror EXCEPT ![m].pc = pc]

\* Mutant: the run is marked as mirrored before it is mirrored.
StartMirrorMutantMarks(m) ==
  /\ m \in Mirrorers /\ mirror[m].pc = "idle"
  /\ MirrorTo(m, "read")
  /\ mirroredAt' = TRUE
  /\ UNCHANGED <<messagingRun, connected, outbox, handed, blind, slips>>

\* continueRun is back: it has run the run, or found another invocation at it.
StartMirror(m) ==
  /\ m \in Mirrorers /\ mirror[m].pc = "idle"
  /\ MirrorTo(m, "read")
  /\ UNCHANGED <<messagingRun, connected, outbox, handed, mirroredAt, blind, slips>>

\* The reconciler's query for completed runs that are not marked.
SweepMirror ==
  /\ mirror["sweep"].pc = "idle" /\ runState = "completed" /\ ~mirroredAt
  /\ MirrorTo("sweep", "read")
  /\ UNCHANGED <<messagingRun, connected, outbox, handed, mirroredAt, blind, slips>>

\* In a channel nothing is posted once an ask of the run has been answered.
Hidden == channel /\ answered

\* The replies and their asks are read in one query.
ReadReplies(m) ==
  /\ mirror[m].pc = "read"
  /\ mirror' = [mirror EXCEPT ![m] =
       [pc    |-> IF connected /\ ~Hidden /\ replies > 0 THEN "copy" ELSE "mark",
        batch |-> IF connected /\ ~Hidden THEN 1 .. replies ELSE {},
        whole |-> runState = "completed"]]
  /\ UNCHANGED <<messagingRun, connected, outbox, handed, mirroredAt, blind, slips>>

\* Mutant: the replies are read again after the asks were looked at.
BatchOfMutantAnew(m) == 1 .. replies

BatchOf(m) == mirror[m].batch

\* createMany with skipDuplicates
CopyReplies(m) ==
  /\ mirror[m].pc = "copy"
  /\ outbox' = outbox \cup BatchOf(m)
  /\ MirrorTo(m, IF channel THEN "fan" ELSE "mark")
  /\ UNCHANGED <<messagingRun, connected, handed, mirroredAt, blind, slips>>

\* One message to one peer, unless it has it: its nonce tells.
FanOut(m) ==
  /\ mirror[m].pc = "fan"
  /\ \/ \E p \in Peers, x \in mirror[m].batch :
          /\ x \notin handed[p]
          /\ handed' = [handed EXCEPT ![p] = @ \cup {x}]
          /\ UNCHANGED mirror
     \/ /\ \A p \in Peers : mirror[m].batch \subseteq handed[p]
        /\ MirrorTo(m, "mark") /\ UNCHANGED handed
  /\ UNCHANGED <<messagingRun, connected, outbox, mirroredAt, blind, slips>>

MarkMirrored(m) ==
  /\ mirror[m].pc = "mark"
  /\ mirroredAt' = TRUE /\ blind' = (blind \/ ~mirror[m].whole)
  /\ mirror' = [mirror EXCEPT ![m] = NoMirror]
  /\ UNCHANGED <<messagingRun, connected, outbox, handed, slips>>

MirrorDies(m) ==
  /\ mirror[m].pc # "idle" /\ slips < MaxSlips
  /\ slips' = slips + 1
  /\ mirror' = [mirror EXCEPT ![m] = NoMirror]
  /\ UNCHANGED <<messagingRun, connected, outbox, handed, mirroredAt, blind>>

MirrorStep(m) == ReadReplies(m) \/ CopyReplies(m) \/ FanOut(m) \/ MarkMirrored(m)

MirrorNext ==
  \/ Reply \/ AskUser \/ AnswerAsk \/ CompleteRun \/ DisconnectBot \/ SweepMirror
  \/ \E m \in Copiers : StartMirror(m) \/ MirrorStep(m) \/ MirrorDies(m)

\* The reconciler scans, and a mirror goes on.
MirrorFairness ==
  WF_mirrorVars(SweepMirror) /\ \A m \in Copiers : WF_mirrorVars(MirrorStep(m))

MirrorSpec == MirrorInit /\ [][MirrorNext]_mirrorVars /\ MirrorFairness

--------------------------------------------------------------------------------
\* "Ask answers are entered privately in the app": in a channel, nothing the bot wrote after
\* such an answer is posted or handed to a peer, whoever mirrors the run and however slowly.
\* (mirrorChannelRun)
MirrorHidesAnswers ==
  channel /\ answered =>
    /\ \A x \in outbox : x <= asked
    /\ \A p \in Peers : \A x \in handed[p] : x <= asked

\* What a completed run wrote reaches the outbox, and the peers of the channel, even if the
\* process that should have copied it dies: unless it is hidden, the bot was disconnected, or
\* a mirror that saw the run unfinished marked it as mirrored.  (A completed run stays so.)
\* (mirrorMessagingOutbound)
MirrorArrives ==
  <>[](runState = "completed" =>
    \/ 1 .. replies \subseteq outbox /\ (channel => \A p \in Peers : 1 .. replies \subseteq handed[p])
    \/ Hidden \/ ~connected \/ blind)
================================================================================
