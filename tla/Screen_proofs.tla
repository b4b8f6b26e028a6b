------------------------------ MODULE Screen_proofs ------------------------------
(***************************************************************************)
(* What ScreenControl guarantees for any number of bots, requests, jobs,   *)
(* runs and leases: its types, that the user keeps a control until it is   *)
(* given up, and that the run that waits for the user on a team's computer *)
(* is bound to the control the user holds.  And what Teaching guarantees   *)
(* for any number of requests, sessions, controls and failures: its types, *)
(* and that a session keeps its job for as long as it needs one.           *)
(***************************************************************************)
EXTENDS ScreenControl, Teaching, TLAPS

\* A desk at a step of a takeover belongs to a request of the user, for a bot.
UserDesks ==
  \A d \in DeskIds :
    /\ desk[d].pc \in {"revoke", "check", "grant", "schedule", "bind"} => desk[d].takes
    /\ desk[d].takes => d \in ScreenRequests /\ desk[d].bot \in Sharers
    /\ desk[d].pc = "giveBack" => d \in ScreenRequests

\* Leases are given in order, only the current one is live, and a lease that is being denied
\* is over: what an expiry has read stays true.
DeskLeaseOver(d) ==
  /\ desk[d].lease <= granted
  /\ desk[d].pc \in {"deny", "settle"} /\ desk[d].lease = control.lease => ~control.live

LeasesOver ==
  /\ control.lease <= granted
  /\ control.lease = 0 => ~control.live
  /\ \A d \in DeskIds : DeskLeaseOver(d)

\* A bot has one run in turn; on a team's computer it works, and waits, under the execution
\* lease of its bot, by which a takeover finds it.
OneTurn ==
  \A r, q \in ScreenRuns : SharerOf(r) = SharerOf(q) /\ InTurn(r) /\ InTurn(q) => r = q

Leased(r) == execution[SharerOf(r)].run = r /\ execution[SharerOf(r)].live

HoldsLease ==
  owner = Nobody =>
    \A r \in ScreenRuns : turn[r] \in {"running", "waiting", "held"} => Leased(r)

\* The control of the user's, and every grant that is decided, name the run that waits.
ControlNames(r) ==
  control.holder = "user" /\ control.bot = SharerOf(r) =>
    control.run = r \/ control.lease \in outrun

GrantNames(d, r) ==
  desk[d].pc = "grant" /\ desk[d].bot = SharerOf(r) /\ ~desk[d].late => desk[d].run = r

Bound ==
  owner = Nobody =>
    \A r \in ScreenRuns : turn[r] \in {"waiting", "held"} =>
      ControlNames(r) /\ \A d \in DeskIds : GrantNames(d, r)

-----------------------------------------------------------------------------
(* What is written in many places *)

LEMMA OneDesk ==
  ASSUME desk \in [DeskIds -> Desks], NEW d \in DeskIds, NEW x \in Desks,
         desk' = [desk EXCEPT ![d] = x]
  PROVE  /\ desk' \in [DeskIds -> Desks]
         /\ desk'[d] = x
         /\ \A e \in DeskIds \ {d} : desk'[e] = desk[e]
  BY Zenon

LEMMA ClearedTyped == ASSUME NEW h \in {"none", "user", "bot"} PROVE Cleared(h) \in Controls
  BY Zenon DEF Cleared, Controls

LEMMA FreeDeskTyped == FreeDesk \in Desks
<1>1. "idle" \in DeskSteps
  BY DEF DeskSteps
<1> QED
  BY <1>1, Zenon DEF FreeDesk, Desks

LEMMA SitTyped ==
  ASSUME ScreenTypeOK, NEW d \in DeskIds, NEW pc \in DeskSteps, NEW takes \in BOOLEAN,
         NEW b \in Sharers \cup {Nobody}, Sit(d, pc, takes, b)
  PROVE  desk' \in [DeskIds -> Desks]
<1> DEFINE x == [pc |-> pc, takes |-> takes, bot |-> b, lease |-> control.lease,
                 run |-> IF pc \in {"check", "bind", "giveBack"} THEN control.run ELSE NoScreenRun,
                 late |-> FALSE]
<1>1. control.lease \in {0} \cup Leases /\ control.run \in ScreenRuns \cup {NoScreenRun}
  BY Zenon DEF ScreenTypeOK, Controls
<1>2. (IF pc \in {"check", "bind", "giveBack"} THEN control.run ELSE NoScreenRun)
        \in ScreenRuns \cup {NoScreenRun}
  BY <1>1, Zenon
<1>3. x \in Desks
  BY <1>1, <1>2, Zenon DEF Desks
<1>4. desk' = [desk EXCEPT ![d] = x]
  BY Zenon DEF Sit
<1>5. desk \in [DeskIds -> Desks]
  BY Zenon DEF ScreenTypeOK
<1> HIDE DEF x
<1> QED
  BY <1>3, <1>4, <1>5, OneDesk

LEMMA LeaveTyped ==
  ASSUME ScreenTypeOK, NEW d \in DeskIds, LeaveDesk(d) PROVE desk' \in [DeskIds -> Desks]
  BY FreeDeskTyped, OneDesk DEF ScreenTypeOK, LeaveDesk

LEMMA AfterExpiryTyped ==
  ASSUME ScreenTypeOK, control' \in Controls, NEW d \in DeskIds, AfterExpiry(d)
  PROVE  desk' \in [DeskIds -> Desks]
<1> DEFINE x == [FreeDesk EXCEPT !.pc = "check", !.takes = TRUE, !.bot = desk[d].bot,
                                 !.run = control'.run]
<1>1. desk[d].bot \in Sharers \cup {Nobody} /\ desk \in [DeskIds -> Desks]
  BY Zenon DEF ScreenTypeOK, Desks
<1>2. control'.run \in ScreenRuns \cup {NoScreenRun} /\ "check" \in DeskSteps
  BY Zenon DEF Controls, DeskSteps
<1>3. x \in Desks
  BY <1>1, <1>2, Zenon DEF Desks, FreeDesk
<1>4. CASE desk[d].takes
  <2>1. desk' = [desk EXCEPT ![d] = x]
    BY <1>4, Zenon DEF AfterExpiry
  <2> HIDE DEF x
  <2> QED
    BY <1>1, <1>3, <2>1, OneDesk
<1>5. CASE ~desk[d].takes
  BY <1>5, LeaveTyped DEF AfterExpiry
<1> QED
  BY <1>4, <1>5

LEMMA KeptTyped == ASSUME ScreenTypeOK, NEW r \in ScreenRuns PROVE Kept(r) \in Controls
<1>1. control \in Controls /\ Cleared("none") \in Controls
  BY ClearedTyped DEF ScreenTypeOK
<1>2. [Cleared("none") EXCEPT !.run = r] \in Controls /\ [control EXCEPT !.run = r] \in Controls
  BY <1>1, Zenon DEF Controls
<1> QED
  BY <1>1, <1>2, Zenon DEF Kept

LEMMA FinalizeTyped ==
  ASSUME ScreenTypeOK, NEW d \in DeskIds, NEW h \in {"none", "bot"},
         finalizeComputerControlRelease(d, h)
  PROVE  /\ control' \in Controls /\ turn' \in [ScreenRuns -> TurnStates] /\ expiry' \in BOOLEAN
<1>1. Cleared(h) \in Controls /\ control \in Controls
  BY ClearedTyped DEF ScreenTypeOK
<1>2. ASSUME NEW r PROVE Continued(r) \in [ScreenRuns -> TurnStates]
  BY DEF Continued, ScreenTypeOK, TurnStates
<1> QED
  BY <1>1, <1>2 DEF finalizeComputerControlRelease, ScreenTypeOK

-----------------------------------------------------------------------------
(* Types *)

LEMMA ScreenStarts == ScreenInit => ScreenTypeOK
<1> SUFFICES ASSUME ScreenInit PROVE ScreenTypeOK
  OBVIOUS
<1>1. control \in Controls
  BY ClearedTyped DEF ScreenInit
<1>2. desk \in [DeskIds -> Desks]
  BY FreeDeskTyped, Zenon DEF ScreenInit
<1>3. execution \in [Sharers -> Executions]
  BY Zenon DEF ScreenInit, Executions
<1>4. turn \in [ScreenRuns -> TurnStates] /\ owner \in Sharers \cup {Nobody}
  BY DEF ScreenInit, TurnStates
<1>5. expiry \in BOOLEAN /\ outrun \subseteq Leases
  BY Zenon DEF ScreenInit
<1>6. granted \in 0 .. MaxGrants /\ snags \in 0 .. MaxSnags
  BY ScreenAssumption DEF ScreenInit
<1> QED
  BY <1>1, <1>2, <1>3, <1>4, <1>5, <1>6, Zenon DEF ScreenTypeOK

LEMMA SharerTyped == ASSUME NEW r \in ScreenRuns PROVE SharerOf(r) \in Sharers
  BY DEF ScreenRuns, SharerOf

\* A tombstone for the run that ends.
LEMMA TombstoneTyped ==
  ASSUME ScreenTypeOK, NEW r \in ScreenRuns
  PROVE  [b \in Sharers |-> IF execution[b].run = r THEN [run |-> r, live |-> FALSE]
                            ELSE execution[b]] \in [Sharers -> Executions]
<1>1. [run |-> r, live |-> FALSE] \in Executions
  BY Zenon DEF Executions
<1> QED
  BY <1>1, Zenon DEF ScreenTypeOK

LEMMA RunTypes ==
  ASSUME ScreenTypeOK, NEW r \in ScreenRuns,
         \/ StartTurn(r) \/ AcquireScreen(r) \/ RequestScreen(r) \/ FollowUpWaiting(r)
         \/ HeldBack(r) \/ EndScreenTurn(r) \/ GiveUpWaiting(r)
  PROVE  ScreenTypeOK'
<1>1. UNCHANGED <<owner, granted, outrun, snags>>
  BY Zenon DEF StartTurn, AcquireScreen, RequestScreen, FollowUpWaiting, HeldBack, EndScreenTurn,
               GiveUpWaiting
<1>2. turn' \in [ScreenRuns -> TurnStates]
  BY DEF StartTurn, AcquireScreen, RequestScreen, FollowUpWaiting, HeldBack, EndScreenTurn,
         GiveUpWaiting, ScreenTypeOK, TurnStates
<1>3. execution' \in [Sharers -> Executions]
  <2>1. [run |-> r, live |-> TRUE] \in Executions /\ execution \in [Sharers -> Executions]
    BY Zenon DEF Executions, ScreenTypeOK
  <2>2. CASE AcquireScreen(r)
    BY <2>1, <2>2, SharerTyped DEF AcquireScreen
  <2>3. CASE EndScreenTurn(r) \/ GiveUpWaiting(r)
    BY <2>3, TombstoneTyped DEF EndScreenTurn, GiveUpWaiting
  <2>4. CASE ~(AcquireScreen(r) \/ EndScreenTurn(r) \/ GiveUpWaiting(r))
    BY <2>1, <2>4, Zenon DEF StartTurn, RequestScreen, FollowUpWaiting, HeldBack
  <2> QED
    BY <2>2, <2>3, <2>4
<1>4. control' \in Controls
  <2>1. control \in Controls
    BY DEF ScreenTypeOK
  <2>2. CASE RequestScreen(r)
    BY <2>2, KeptTyped DEF RequestScreen
  <2>3. CASE GiveUpWaiting(r)
    <3>1. [control EXCEPT !.run = NoScreenRun] \in Controls
      BY <2>1, Zenon DEF Controls
    <3> QED
      BY <2>1, <2>3, <3>1, Zenon DEF GiveUpWaiting
  <2>4. CASE ~(RequestScreen(r) \/ GiveUpWaiting(r))
    BY <2>1, <2>4, Zenon DEF StartTurn, AcquireScreen, FollowUpWaiting, HeldBack, EndScreenTurn
  <2> QED
    BY <2>2, <2>3, <2>4
<1>5. desk' \in [DeskIds -> Desks]
  <2>1. desk \in [DeskIds -> Desks]
    BY DEF ScreenTypeOK
  <2>2. \A d \in DeskIds : [desk[d] EXCEPT !.late = TRUE] \in Desks
    BY <2>1, Zenon DEF Desks
  <2>3. CASE RequestScreen(r)
    BY <2>1, <2>2, <2>3, Zenon DEF RequestScreen
  <2>4. CASE ~RequestScreen(r)
    BY <2>1, <2>4, Zenon DEF StartTurn, AcquireScreen, FollowUpWaiting, HeldBack, EndScreenTurn,
                             GiveUpWaiting
  <2> QED
    BY <2>3, <2>4
<1>6. expiry' \in BOOLEAN
  BY Zenon DEF StartTurn, AcquireScreen, RequestScreen, FollowUpWaiting, HeldBack, EndScreenTurn,
               GiveUpWaiting, ScreenTypeOK
<1> QED
  BY <1>1, <1>2, <1>3, <1>4, <1>5, <1>6, Zenon DEF ScreenTypeOK

\* The steps of a desk: what they write to the control, and to the desk itself.
LEMMA DeskControlTyped ==
  ASSUME ScreenTypeOK, UserDesks, NEW d \in DeskIds, DeskStep(d) \/ RevokeFails(d)
  PROVE  /\ control' \in Controls /\ turn' \in [ScreenRuns -> TurnStates]
         /\ granted' \in 0 .. MaxGrants /\ outrun' \subseteq Leases
<1>1. control \in Controls /\ turn \in [ScreenRuns -> TurnStates]
  BY DEF ScreenTypeOK
<1>2. granted \in 0 .. MaxGrants /\ outrun \subseteq Leases
  BY DEF ScreenTypeOK
<1>3. CASE SettleExpiry(d) \/ GiveBackScreen(d)
  BY <1>2, <1>3, FinalizeTyped DEF SettleExpiry, GiveBackScreen
<1>4. CASE Grant(d)
  <2>1. granted' \in 0 .. MaxGrants /\ granted' \in Leases
    BY <1>2, <1>4, ScreenAssumption DEF Grant, Leases
  <2>2. outrun' \subseteq Leases
    BY <1>2, <1>4, <2>1, Zenon DEF Grant
  <2>3. desk[d].bot \in Sharers \cup {Nobody} /\ desk[d].run \in ScreenRuns \cup {NoScreenRun}
    BY Zenon DEF ScreenTypeOK, Desks
  <2>4. control' \in Controls
    BY <1>4, <2>1, <2>3, Zenon DEF Grant, Controls
  <2>5. UNCHANGED turn
    BY <1>4, Zenon DEF Grant
  <2> QED
    BY <1>1, <2>1, <2>2, <2>4, <2>5
<1>5. CASE ~(SettleExpiry(d) \/ GiveBackScreen(d) \/ Grant(d))
  <2>1. UNCHANGED <<turn, granted, outrun>>
    BY <1>5, Zenon DEF DeskStep, ReadLapsed, Deny, NothingToExpire, RevokeOther, CheckScreen,
                       ScheduleEnd, GrantRefused, bindWaitingTakeoverToControl, RevokeFails
  <2>2. CASE Deny(d)
    <3>1. [control EXCEPT !.holder = "none"] \in Controls
      BY <1>1, Zenon DEF Controls
    <3> QED
      BY <1>1, <1>2, <2>1, <2>2, <3>1, Zenon DEF Deny
  <2>3. CASE RevokeOther(d) \/ ScheduleEnd(d)
    BY <1>1, <1>2, <2>1, <2>3, ClearedTyped, Zenon DEF RevokeOther, ScheduleEnd
  <2>4. CASE bindWaitingTakeoverToControl(d)
    <3>1. desk[d].bot \in Sharers
      BY <2>4, Zenon DEF bindWaitingTakeoverToControl, UserDesks
    <3>2. execution[desk[d].bot].run \in ScreenRuns \cup {NoScreenRun}
      BY <3>1, Zenon DEF ScreenTypeOK, Executions
    <3>3. [control EXCEPT !.run = execution[desk[d].bot].run] \in Controls
      BY <1>1, <3>2, Zenon DEF Controls
    <3> QED
      BY <1>1, <1>2, <2>1, <2>4, <3>3, Zenon DEF bindWaitingTakeoverToControl
  <2>5. CASE ~(Deny(d) \/ RevokeOther(d) \/ ScheduleEnd(d) \/ bindWaitingTakeoverToControl(d))
    <3>1. UNCHANGED control
      BY <1>5, <2>5, Zenon DEF DeskStep, ReadLapsed, NothingToExpire, CheckScreen, GrantRefused,
                               RevokeFails
    <3> QED
      BY <1>1, <1>2, <2>1, <3>1
  <2> QED
    BY <2>2, <2>3, <2>4, <2>5
<1> QED
  BY <1>3, <1>4, <1>5


\* What a step leaves on its desk.
LEMMA DeskTyped ==
  ASSUME ScreenTypeOK, UserDesks, NEW d \in DeskIds, DeskStep(d) \/ RevokeFails(d),
         control' \in Controls, granted' \in 0 .. MaxGrants
  PROVE  desk' \in [DeskIds -> Desks]
<1>1. desk \in [DeskIds -> Desks] /\ desk[d] \in Desks /\ control \in Controls
  BY Zenon DEF ScreenTypeOK
<1>2. {"deny", "settle", "check", "grant", "schedule", "bind"} \subseteq DeskSteps
  BY DEF DeskSteps
<1>3. CASE ReadLapsed(d)
  <2>1. control.run \in ScreenRuns \cup {NoScreenRun} /\ "deny" \in DeskSteps
    BY <1>1, <1>2, Zenon DEF Controls
  <2>2. [desk[d] EXCEPT !.pc = "deny", !.run = control.run] \in Desks
    BY <1>1, <2>1, Zenon DEF Desks
  <2>3. desk' = [desk EXCEPT ![d] = [desk[d] EXCEPT !.pc = "deny", !.run = control.run]]
    BY <1>3, Zenon DEF ReadLapsed
  <2> QED
    BY <1>1, <2>2, <2>3, Zenon
<1>4. CASE Deny(d)
  <2>1. [desk[d] EXCEPT !.pc = "settle"] \in Desks
    BY <1>1, <1>2, Zenon DEF Desks
  <2> QED
    BY <1>1, <1>4, <2>1, AfterExpiryTyped, Zenon DEF Deny
<1>5. CASE NothingToExpire(d) \/ SettleExpiry(d)
  BY <1>5, AfterExpiryTyped DEF NothingToExpire, SettleExpiry
<1>6. CASE GiveBackScreen(d) \/ ScheduleEnd(d) \/ bindWaitingTakeoverToControl(d) \/ RevokeFails(d)
  BY <1>6, LeaveTyped DEF GiveBackScreen, ScheduleEnd, bindWaitingTakeoverToControl, RevokeFails
<1>7. CASE RevokeOther(d)
  <2> DEFINE pc == IF control'.lease # 0 THEN "expire" ELSE "check"
             x == [desk[d] EXCEPT !.pc = pc, !.lease = control'.lease, !.run = control'.run]
  <2>1. pc \in DeskSteps
    BY DEF DeskSteps
  <2> HIDE DEF pc
  <2>2. x \in Desks
    <3>1. control'.lease \in {0} \cup Leases /\ control'.run \in ScreenRuns \cup {NoScreenRun}
      BY Zenon DEF Controls
    <3> QED
      BY <1>1, <2>1, <3>1, Zenon DEF Desks
  <2>3. desk' = [desk EXCEPT ![d] = x]
    BY <1>7, Zenon DEF RevokeOther, pc
  <2> HIDE DEF x
  <2> QED
    BY <1>1, <2>2, <2>3, Zenon
<1>8. CASE CheckScreen(d)
  <2> DEFINE b == desk[d].bot
             asked == /\ execution[b].run # NoScreenRun
                      /\ turn[execution[b].run] = "waiting" \/ desk[d].run = execution[b].run
             run == IF asked THEN execution[b].run ELSE NoScreenRun
             x == [desk[d] EXCEPT !.pc = "grant", !.lease = 0, !.run = run]
  <2>1. b \in Sharers
    BY <1>8, Zenon DEF CheckScreen, UserDesks
  <2>2. run \in ScreenRuns \cup {NoScreenRun}
    BY <2>1, Zenon DEF ScreenTypeOK, Executions
  <2>3. x \in Desks
    BY <1>1, <1>2, <2>2, Zenon DEF Desks
  <2>4. LeaveDesk(d) \/ desk' = [desk EXCEPT ![d] = x]
    BY <1>8, Zenon DEF CheckScreen
  <2> HIDE DEF x
  <2> QED
    BY <1>1, <2>3, <2>4, LeaveTyped, OneDesk
<1>9. CASE Grant(d)
  <2> DEFINE x == [FreeDesk EXCEPT !.pc = "schedule", !.takes = TRUE, !.bot = desk[d].bot,
                                   !.lease = granted']
  <2>1. granted' \in {0} \cup Leases
    BY ScreenAssumption DEF Leases
  <2>2. desk[d].bot \in Sharers \cup {Nobody}
    BY <1>1, Zenon DEF Desks
  <2>3. x \in Desks
    BY <1>2, <2>1, <2>2, FreeDeskTyped, Zenon DEF Desks
  <2>4. desk' = [desk EXCEPT ![d] = x]
    BY <1>9, Zenon DEF Grant
  <2> HIDE DEF x
  <2> QED
    BY <1>1, <2>3, <2>4, OneDesk
<1>10. CASE GrantRefused(d)
  <2>1. desk[d].bot \in Sharers \cup {Nobody}
    BY <1>1, Zenon DEF Desks
  <2>2. CASE LeaveDesk(d)
    BY <2>2, LeaveTyped
  <2>3. CASE Sit(d, "bind", TRUE, desk[d].bot)
    BY <1>2, <2>1, <2>3, SitTyped
  <2> QED
    BY <1>10, <2>2, <2>3, Zenon DEF GrantRefused
<1> QED
  BY <1>3, <1>4, <1>5, <1>6, <1>7, <1>8, <1>9, <1>10 DEF DeskStep

\* A request or a job begins with what the row says.
LEMMA SitAfter ==
  ASSUME ScreenTypeOK, NEW d \in DeskIds, NEW pc \in DeskSteps, NEW takes \in BOOLEAN,
         NEW b \in Sharers \cup {Nobody}, Sit(d, pc, takes, b)
  PROVE  /\ desk'[d].pc = pc /\ (desk'[d].takes <=> takes) /\ desk'[d].bot = b
         /\ desk'[d].lease = control.lease
         /\ \A e \in DeskIds \ {d} : desk'[e] = desk[e]
<1>1. desk \in [DeskIds -> Desks]
  BY DEF ScreenTypeOK
<1> QED
  BY <1>1, Zenon DEF Sit

LEMMA LeaveAfter ==
  ASSUME ScreenTypeOK, NEW d \in DeskIds, LeaveDesk(d)
  PROVE  /\ desk'[d] = FreeDesk
         /\ \A e \in DeskIds \ {d} : desk'[e] = desk[e]
<1>1. desk \in [DeskIds -> Desks]
  BY DEF ScreenTypeOK
<1> QED
  BY <1>1, Zenon DEF LeaveDesk

LEMMA AfterExpiryAfter ==
  ASSUME ScreenTypeOK, NEW d \in DeskIds, AfterExpiry(d)
  PROVE  /\ \/ desk'[d] = FreeDesk
            \/ /\ desk[d].takes /\ desk'[d].pc = "check" /\ desk'[d].takes
               /\ desk'[d].bot = desk[d].bot /\ desk'[d].lease = 0
         /\ \A e \in DeskIds \ {d} : desk'[e] = desk[e]
<1>1. desk \in [DeskIds -> Desks]
  BY DEF ScreenTypeOK
<1>2. CASE desk[d].takes
  <2>1. desk' = [desk EXCEPT ![d] = [FreeDesk EXCEPT !.pc = "check", !.takes = TRUE,
                                                    !.bot = desk[d].bot, !.run = control'.run]]
    BY <1>2, Zenon DEF AfterExpiry
  <2>2. desk'[d] = [FreeDesk EXCEPT !.pc = "check", !.takes = TRUE,
                                    !.bot = desk[d].bot, !.run = control'.run]
    BY <1>1, <2>1, Zenon
  <2>3. /\ desk'[d].pc = "check" /\ desk'[d].takes /\ desk'[d].bot = desk[d].bot
        /\ desk'[d].lease = 0
    BY <2>2, Zenon DEF FreeDesk
  <2>4. \A e \in DeskIds \ {d} : desk'[e] = desk[e]
    BY <1>1, <2>1, Zenon
  <2> QED
    BY <1>2, <2>3, <2>4, Zenon
<1>3. CASE ~desk[d].takes
  BY <1>1, <1>3, LeaveAfter, Zenon DEF AfterExpiry
<1> QED
  BY <1>2, <1>3

LEMMA FreeDeskIs ==
  /\ FreeDesk.pc = "idle" /\ ~FreeDesk.takes /\ FreeDesk.lease = 0
  BY Zenon DEF FreeDesk

\* A later step: where the desk goes, and the lease and the bot it goes on with.
DeskGoesOn(d) ==
  /\ \A e \in DeskIds \ {d} : desk'[e] = desk[e]
  /\ \/ desk'[d] = FreeDesk
     \/ /\ desk'[d].pc \in {"deny", "settle"} /\ desk'[d].lease = desk[d].lease
        /\ desk'[d].takes = desk[d].takes /\ desk'[d].bot = desk[d].bot
        /\ UNCHANGED <<control.lease, control.live, granted>>
        /\ control.lease = desk[d].lease
        /\ desk[d].pc = "deny" \/ ~control.live
     \/ /\ desk'[d].pc = "expire" /\ desk'[d].lease = control'.lease
        /\ desk'[d].takes = desk[d].takes /\ desk'[d].bot = desk[d].bot
     \/ /\ desk'[d].pc = "check" /\ desk'[d].lease \in {0, control'.lease}
        /\ desk[d].takes /\ desk'[d].takes /\ desk'[d].bot = desk[d].bot
     \/ /\ desk'[d].pc = "grant" /\ desk'[d].lease = 0 /\ CheckScreen(d)
        /\ desk[d].takes /\ desk'[d].takes /\ desk'[d].bot = desk[d].bot
     \/ /\ desk'[d].pc = "schedule" /\ desk'[d].lease = granted'
        /\ desk[d].takes /\ desk'[d].takes /\ desk'[d].bot = desk[d].bot
     \/ /\ desk'[d].pc = "bind" /\ desk'[d].lease = control.lease
        /\ desk[d].takes /\ desk'[d].takes /\ desk'[d].bot = desk[d].bot

LEMMA DeskAfter ==
  ASSUME ScreenTypeOK, UserDesks, NEW d \in DeskIds, DeskStep(d) \/ RevokeFails(d)
  PROVE  DeskGoesOn(d)
<1>1. desk \in [DeskIds -> Desks] /\ desk[d] \in Desks /\ control \in Controls
  BY Zenon DEF ScreenTypeOK
<1>2. desk[d].pc \in {"revoke", "check", "grant", "schedule", "bind"} => desk[d].takes
  BY DEF UserDesks
<1>3. CASE ReadLapsed(d)
  BY <1>1, <1>3, Zenon DEF ReadLapsed, DeskGoesOn, Desks
<1>4. CASE Deny(d)
  <2>1. CASE control.lease = desk[d].lease
    <3>1. UNCHANGED <<control.lease, control.live>>
      BY <1>1, <1>4, <2>1, Zenon DEF Deny, Controls
    <3>2. /\ desk'[d].pc = "settle" /\ desk'[d].lease = desk[d].lease
          /\ desk'[d].takes = desk[d].takes /\ desk'[d].bot = desk[d].bot
          /\ \A e \in DeskIds \ {d} : desk'[e] = desk[e]
      BY <1>1, <1>4, <2>1, Zenon DEF Deny, Desks
    <3>3. desk[d].pc = "deny" /\ UNCHANGED granted
      BY <1>4, Zenon DEF Deny
    <3> QED
      BY <2>1, <3>1, <3>2, <3>3, Zenon DEF DeskGoesOn
  <2>2. CASE control.lease # desk[d].lease
    <3>1. AfterExpiry(d)
      BY <1>4, <2>2, Zenon DEF Deny
    <3> QED
      BY <3>1, AfterExpiryAfter, Zenon DEF DeskGoesOn
  <2> QED
    BY <2>1, <2>2
<1>5. CASE NothingToExpire(d) \/ SettleExpiry(d)
  BY <1>5, AfterExpiryAfter, Zenon DEF NothingToExpire, SettleExpiry, DeskGoesOn
<1>6. CASE GiveBackScreen(d) \/ ScheduleEnd(d) \/ bindWaitingTakeoverToControl(d) \/ RevokeFails(d)
  BY <1>6, LeaveAfter, Zenon DEF GiveBackScreen, ScheduleEnd, bindWaitingTakeoverToControl,
                                 RevokeFails, DeskGoesOn
<1>7. CASE RevokeOther(d)
  <2>1. desk[d].takes
    BY <1>2, <1>7, Zenon DEF RevokeOther
  <2>2. /\ desk'[d].pc = (IF control'.lease # 0 THEN "expire" ELSE "check")
        /\ desk'[d].lease = control'.lease
        /\ desk'[d].takes = desk[d].takes /\ desk'[d].bot = desk[d].bot
        /\ \A e \in DeskIds \ {d} : desk'[e] = desk[e]
    BY <1>1, <1>7, Zenon DEF RevokeOther, Desks
  <2> QED
    BY <2>1, <2>2, Zenon DEF DeskGoesOn
<1>8. CASE CheckScreen(d)
  <2>1. desk[d].takes
    BY <1>2, <1>8, Zenon DEF CheckScreen
  <2>2. CASE LeaveDesk(d)
    BY <2>2, LeaveAfter, Zenon DEF DeskGoesOn
  <2>3. CASE ~LeaveDesk(d)
    <3>1. PICK run : desk' = [desk EXCEPT ![d].pc = "grant", ![d].lease = 0, ![d].run = run]
      BY <1>8, <2>3, Zenon DEF CheckScreen
    <3>2. /\ desk'[d].pc = "grant" /\ desk'[d].lease = 0
          /\ desk'[d].takes = desk[d].takes /\ desk'[d].bot = desk[d].bot
          /\ \A e \in DeskIds \ {d} : desk'[e] = desk[e]
      BY <1>1, <3>1, Zenon DEF Desks
    <3> QED
      BY <1>8, <2>1, <3>2, Zenon DEF DeskGoesOn
  <2> QED
    BY <2>2, <2>3
<1>9. CASE Grant(d)
  <2>1. desk[d].takes
    BY <1>2, <1>9, Zenon DEF Grant
  <2>2. /\ desk'[d].pc = "schedule" /\ desk'[d].lease = granted'
        /\ desk'[d].takes /\ desk'[d].bot = desk[d].bot
        /\ \A e \in DeskIds \ {d} : desk'[e] = desk[e]
    BY <1>1, <1>9, Zenon DEF Grant, FreeDesk
  <2> QED
    BY <2>1, <2>2, Zenon DEF DeskGoesOn
<1>10. CASE GrantRefused(d)
  <2>1. desk[d].takes
    BY <1>2, <1>10, Zenon DEF GrantRefused
  <2>2. CASE LeaveDesk(d)
    BY <2>2, LeaveAfter, Zenon DEF DeskGoesOn
  <2>3. CASE Sit(d, "bind", TRUE, desk[d].bot)
    <3>1. desk[d].bot \in Sharers \cup {Nobody} /\ "bind" \in DeskSteps
      BY <1>1, Zenon DEF Desks, DeskSteps
    <3> QED
      BY <2>1, <2>3, <3>1, SitAfter, Zenon DEF DeskGoesOn
  <2> QED
    BY <1>10, <2>2, <2>3, Zenon DEF GrantRefused
<1> QED
  BY <1>3, <1>4, <1>5, <1>6, <1>7, <1>8, <1>9, <1>10 DEF DeskStep

LEMMA TypesKept ==
  ASSUME ScreenTypeOK, UserDesks, [ScreenNext]_screenVars
  PROVE  ScreenTypeOK'
<1>1. ASSUME NEW r \in ScreenRuns,
             \/ StartTurn(r) \/ AcquireScreen(r) \/ RequestScreen(r) \/ FollowUpWaiting(r)
             \/ HeldBack(r) \/ EndScreenTurn(r) \/ GiveUpWaiting(r)
      PROVE  ScreenTypeOK'
  BY <1>1, RunTypes
<1>2. ASSUME NEW d \in ScreenRequests, NEW b \in Sharers, TakeOver(d, b) \/ ReleaseScreen(d, b)
      PROVE  ScreenTypeOK'
  <2>1. UNCHANGED <<owner, control, turn, execution, expiry, granted, outrun, snags>>
    BY <1>2, Zenon DEF TakeOver, ReleaseScreen
  <2>2. PICK pc \in DeskSteps, takes \in BOOLEAN : Sit(d, pc, takes, b)
    <3>1. {"bind", "revoke", "expire", "check", "giveBack"} \subseteq DeskSteps
      BY DEF DeskSteps
    <3> QED
      BY <1>2, <3>1, Zenon DEF TakeOver, ReleaseScreen
  <2>3. desk' \in [DeskIds -> Desks]
    BY <2>2, SitTyped DEF DeskIds
  <2> QED
    BY <2>1, <2>3, Zenon DEF ScreenTypeOK
<1>3. ASSUME NEW d \in ExpiryWorkers, TakeExpiry(d) PROVE ScreenTypeOK'
  <2>1. UNCHANGED <<owner, control, turn, execution, granted, outrun, snags>> /\ expiry' = FALSE
    BY <1>3, Zenon DEF TakeExpiry
  <2>2. desk' \in [DeskIds -> Desks]
    BY <1>3, SitTyped DEF TakeExpiry, DeskIds, DeskSteps
  <2> QED
    BY <2>1, <2>2, Zenon DEF ScreenTypeOK
<1>4. ASSUME NEW d \in DeskIds, DeskStep(d) \/ RevokeFails(d) PROVE ScreenTypeOK'
  <2>1. /\ control' \in Controls /\ turn' \in [ScreenRuns -> TurnStates]
        /\ granted' \in 0 .. MaxGrants /\ outrun' \subseteq Leases
    BY <1>4, DeskControlTyped
  <2>2. desk' \in [DeskIds -> Desks]
    BY <1>4, <2>1, DeskTyped
  <2>3. UNCHANGED <<owner, execution>>
    BY <1>4, Zenon DEF DeskStep, ReadLapsed, Deny, NothingToExpire, SettleExpiry, GiveBackScreen,
         RevokeOther, CheckScreen, Grant, ScheduleEnd, GrantRefused, bindWaitingTakeoverToControl,
         RevokeFails
  <2>4. expiry' \in BOOLEAN
    <3>1. expiry \in BOOLEAN
      BY DEF ScreenTypeOK
    <3>2. CASE SettleExpiry(d) \/ GiveBackScreen(d)
      BY <3>2, FinalizeTyped DEF SettleExpiry, GiveBackScreen
    <3>3. CASE ~(SettleExpiry(d) \/ GiveBackScreen(d))
      BY <1>4, <3>1, <3>3, Zenon DEF DeskStep, ReadLapsed, Deny, NothingToExpire, RevokeOther,
           CheckScreen, Grant, ScheduleEnd, GrantRefused, bindWaitingTakeoverToControl, RevokeFails
    <3> QED
      BY <3>2, <3>3
  <2>5. snags' \in 0 .. MaxSnags
    <3>1. UNCHANGED snags \/ Snag
      BY <1>4, Zenon DEF DeskStep, ReadLapsed, Deny, NothingToExpire, SettleExpiry, GiveBackScreen,
           RevokeOther, CheckScreen, Grant, ScheduleEnd, GrantRefused,
           bindWaitingTakeoverToControl, RevokeFails
    <3> QED
      BY <3>1, ScreenAssumption DEF Snag, ScreenTypeOK
  <2> QED
    BY <2>1, <2>2, <2>3, <2>4, <2>5, Zenon DEF ScreenTypeOK
<1>5. CASE ControlLapses
  <2>1. control' \in Controls
    BY <1>5, Zenon DEF ControlLapses, ScreenTypeOK, Controls
  <2> QED
    BY <1>5, <2>1, Zenon DEF ControlLapses, ScreenTypeOK
<1>6. CASE SweepControls
  BY <1>6, Zenon DEF SweepControls, ScreenTypeOK
<1>7. CASE UNCHANGED screenVars
  BY <1>7, Zenon DEF screenVars, ScreenTypeOK
<1> QED
  BY <1>1, <1>2, <1>3, <1>4, <1>5, <1>6, <1>7, Zenon DEF ScreenNext

LEMMA DeskMovers ==
  ASSUME [ScreenNext]_screenVars
  PROVE  \/ UNCHANGED desk
         \/ \E r \in ScreenRuns : RequestScreen(r)
         \/ \E d \in ScreenRequests, b \in Sharers : TakeOver(d, b) \/ ReleaseScreen(d, b)
         \/ \E d \in ExpiryWorkers : TakeExpiry(d)
         \/ \E d \in DeskIds : DeskStep(d) \/ RevokeFails(d)
  BY Zenon DEF ScreenNext, screenVars, StartTurn, AcquireScreen, FollowUpWaiting, HeldBack,
               EndScreenTurn, GiveUpWaiting, ControlLapses, SweepControls

LEMMA UserDesksKept ==
  ASSUME ScreenTypeOK, UserDesks, [ScreenNext]_screenVars
  PROVE  UserDesks'
<1>1. CASE UNCHANGED desk
  BY <1>1, Zenon DEF UserDesks
<1>2. ASSUME NEW r \in ScreenRuns, RequestScreen(r) PROVE UserDesks'
  <2>1. ASSUME NEW d \in DeskIds
        PROVE  /\ desk'[d].pc = desk[d].pc /\ desk'[d].takes = desk[d].takes
               /\ desk'[d].bot = desk[d].bot
    <3>1. desk[d] \in Desks
      BY Zenon DEF ScreenTypeOK
    <3>2. desk'[d] \in {desk[d], [desk[d] EXCEPT !.late = TRUE]}
      BY <1>2, Zenon DEF RequestScreen
    <3> QED
      BY <3>1, <3>2, Zenon DEF Desks
  <2> QED
    BY <2>1, Zenon DEF UserDesks
<1>3. ASSUME NEW d \in ScreenRequests, NEW b \in Sharers, TakeOver(d, b) \/ ReleaseScreen(d, b)
      PROVE  UserDesks'
  <2>1. PICK pc \in DeskSteps, takes \in BOOLEAN :
          /\ Sit(d, pc, takes, b)
          /\ pc \in {"revoke", "check", "bind"} => takes
          /\ pc \notin {"grant", "schedule"}
    <3>1. /\ {"bind", "revoke", "expire", "check", "giveBack"} \subseteq DeskSteps
          /\ {"giveBack", "expire"} \cap {"revoke", "check", "bind"} = {}
          /\ {"bind", "revoke", "expire", "check", "giveBack"} \cap {"grant", "schedule"} = {}
      BY DEF DeskSteps
    <3> QED
      BY <1>3, <3>1, Zenon DEF TakeOver, ReleaseScreen
  <2>2. /\ desk'[d].pc = pc /\ (desk'[d].takes <=> takes) /\ desk'[d].bot = b
        /\ \A e \in DeskIds \ {d} : desk'[e] = desk[e]
    BY <2>1, SitAfter DEF DeskIds
  <2> QED
    BY <2>1, <2>2, Zenon DEF UserDesks
<1>4. ASSUME NEW d \in ExpiryWorkers, TakeExpiry(d) PROVE UserDesks'
  <2>1. /\ desk'[d].pc = "expire" /\ ~desk'[d].takes
        /\ \A e \in DeskIds \ {d} : desk'[e] = desk[e]
    BY <1>4, SitAfter DEF TakeExpiry, DeskIds, DeskSteps
  <2> QED
    BY <2>1, Zenon DEF UserDesks
<1>5. ASSUME NEW d \in DeskIds, DeskStep(d) \/ RevokeFails(d) PROVE UserDesks'
  <2>1. DeskGoesOn(d)
    BY <1>5, DeskAfter
  <2>2. ~FreeDesk.takes /\ FreeDesk.pc = "idle"
    BY FreeDeskIs
  <2> QED
    BY <2>1, <2>2, Zenon DEF UserDesks, DeskGoesOn
<1> QED
  BY <1>1, <1>2, <1>3, <1>4, <1>5, DeskMovers

-----------------------------------------------------------------------------
(* Leases *)

GivenUp ==
  \E d \in ScreenRequests :
    desk[d].pc \in {"giveBack", "revoke", "schedule"} /\ desk[d].lease = control.lease

\* What a step does to the lease of the control: nothing but lapse, end it, or give the next.
LeaseMoves ==
  \/ UNCHANGED <<control.lease, granted>> /\ (control'.live => control.live)
  \/ /\ control'.lease = 0 /\ ~control'.live /\ UNCHANGED granted
     /\ hasActiveComputerControl(control) => GivenUp
  \/ control.lease = 0 /\ granted' = granted + 1 /\ control'.lease = granted'

LEMMA ClearedIs ==
  ASSUME NEW h PROVE Cleared(h).lease = 0 /\ ~Cleared(h).live /\ Cleared(h).holder = h
  BY Zenon DEF Cleared

LEMMA LeaseAfter ==
  ASSUME ScreenTypeOK, UserDesks, LeasesOver, [ScreenNext]_screenVars
  PROVE  LeaseMoves
<1>1. control \in Controls
  BY DEF ScreenTypeOK
<1>2. CASE UNCHANGED <<control, granted>>
  BY <1>2, Zenon DEF LeaseMoves
<1>3. ASSUME NEW r \in ScreenRuns, RequestScreen(r) PROVE LeaseMoves
  <2>1. control' = Kept(r) /\ UNCHANGED granted
    BY <1>3, Zenon DEF RequestScreen
  <2>2. CASE hasActiveComputerControl(control)
    <3>1. control'.lease = control.lease /\ control'.live = control.live
      BY <1>1, <2>1, <2>2, Zenon DEF Kept, Controls
    <3> QED
      BY <2>1, <3>1, Zenon DEF LeaseMoves
  <2>3. CASE ~hasActiveComputerControl(control)
    <3>1. control' = [Cleared("none") EXCEPT !.run = r]
      BY <2>1, <2>3, Zenon DEF Kept
    <3>2. control'.lease = 0 /\ ~control'.live
      BY <3>1, Zenon DEF Cleared
    <3> QED
      BY <2>1, <2>3, <3>2, Zenon DEF LeaseMoves
  <2> QED
    BY <2>2, <2>3
<1>4. ASSUME NEW r \in ScreenRuns, GiveUpWaiting(r) PROVE LeaseMoves
  <2>1. control' \in {control, [control EXCEPT !.run = NoScreenRun]} /\ UNCHANGED granted
    BY <1>4, Zenon DEF GiveUpWaiting
  <2>2. control'.lease = control.lease /\ control'.live = control.live
    BY <1>1, <2>1, Zenon DEF Controls
  <2> QED
    BY <2>1, <2>2, Zenon DEF LeaseMoves
<1>5. ASSUME NEW d \in DeskIds, Deny(d) \/ bindWaitingTakeoverToControl(d) PROVE LeaseMoves
  <2>1. UNCHANGED granted
    BY <1>5, Zenon DEF Deny, bindWaitingTakeoverToControl
  <2>2. control'.lease = control.lease /\ control'.live = control.live
    BY <1>1, <1>5, Zenon DEF Deny, bindWaitingTakeoverToControl, Controls
  <2> QED
    BY <2>1, <2>2, Zenon DEF LeaseMoves
<1>6. ASSUME NEW d \in DeskIds, RevokeOther(d) \/ ScheduleEnd(d), ~UNCHANGED control
      PROVE  LeaseMoves
  <2>1. /\ control' = Cleared("none") /\ UNCHANGED granted
        /\ desk[d].pc \in {"revoke", "schedule"} /\ desk[d].lease = control.lease
    BY <1>6, Zenon DEF RevokeOther, ScheduleEnd
  <2>2. d \in ScreenRequests
    BY <2>1, Zenon DEF UserDesks
  <2> QED
    BY <2>1, <2>2, ClearedIs, Zenon DEF LeaseMoves, GivenUp
<1>7. ASSUME NEW d \in DeskIds, SettleExpiry(d) \/ GiveBackScreen(d), ~UNCHANGED control
      PROVE  LeaseMoves
  <2>1. /\ \E h \in {"none", "bot"} : control' = Cleared(h)
        /\ UNCHANGED granted
        /\ desk[d].pc \in {"settle", "giveBack"} /\ desk[d].lease = control.lease
    BY <1>7, Zenon DEF SettleExpiry, GiveBackScreen, finalizeComputerControlRelease, SameControl
  <2>2. CASE desk[d].pc = "settle"
    <3>1. ~hasActiveComputerControl(control)
      BY <2>1, <2>2, Zenon DEF LeasesOver, DeskLeaseOver, hasActiveComputerControl
    <3> QED
      BY <2>1, <3>1, ClearedIs, Zenon DEF LeaseMoves
  <2>3. CASE desk[d].pc = "giveBack"
    <3>1. GivenUp
      BY <2>1, <2>3, Zenon DEF UserDesks, GivenUp
    <3> QED
      BY <2>1, <3>1, ClearedIs, Zenon DEF LeaseMoves
  <2> QED
    BY <2>1, <2>2, <2>3
<1>8. ASSUME NEW d \in DeskIds, Grant(d) PROVE LeaseMoves
  BY <1>8, Zenon DEF Grant, FreeToTake, LeaseMoves
<1>9. CASE ControlLapses
  <2>1. UNCHANGED granted /\ control'.lease = control.lease /\ ~control'.live
    BY <1>1, <1>9, Zenon DEF ControlLapses, Controls
  <2> QED
    BY <2>1, Zenon DEF LeaseMoves
<1>10. ASSUME NEW r \in ScreenRuns,
              \/ StartTurn(r) \/ AcquireScreen(r) \/ FollowUpWaiting(r) \/ HeldBack(r)
              \/ EndScreenTurn(r)
       PROVE  UNCHANGED <<control, granted>>
  BY <1>10, Zenon DEF StartTurn, AcquireScreen, FollowUpWaiting, HeldBack, EndScreenTurn
<1>11. ASSUME NEW d \in ScreenRequests, NEW b \in Sharers, TakeOver(d, b) \/ ReleaseScreen(d, b)
       PROVE  UNCHANGED <<control, granted>>
  BY <1>11, Zenon DEF TakeOver, ReleaseScreen
<1>12. ASSUME NEW d \in DeskIds,
              \/ ReadLapsed(d) \/ NothingToExpire(d) \/ CheckScreen(d) \/ GrantRefused(d)
              \/ RevokeFails(d)
       PROVE  UNCHANGED <<control, granted>>
  BY <1>12, Zenon DEF ReadLapsed, NothingToExpire, CheckScreen, GrantRefused, RevokeFails
<1>13. ASSUME NEW d \in DeskIds,
              \/ RevokeOther(d) \/ ScheduleEnd(d) \/ SettleExpiry(d) \/ GiveBackScreen(d)
       PROVE  UNCHANGED granted
  BY <1>13, Zenon DEF RevokeOther, ScheduleEnd, SettleExpiry, GiveBackScreen
<1>14. ASSUME NEW d \in DeskIds, DeskStep(d) \/ RevokeFails(d) PROVE LeaseMoves
  BY <1>2, <1>5, <1>6, <1>7, <1>8, <1>12, <1>13, <1>14, Zenon DEF DeskStep
<1>15. ASSUME NEW r \in ScreenRuns,
              \/ StartTurn(r) \/ AcquireScreen(r) \/ RequestScreen(r) \/ FollowUpWaiting(r)
              \/ HeldBack(r) \/ EndScreenTurn(r) \/ GiveUpWaiting(r)
       PROVE  LeaseMoves
  BY <1>2, <1>3, <1>4, <1>10, <1>15
<1>16. ASSUME NEW d \in ExpiryWorkers, TakeExpiry(d) PROVE LeaseMoves
  BY <1>2, <1>16, Zenon DEF TakeExpiry
<1>17. CASE SweepControls \/ UNCHANGED screenVars
  BY <1>2, <1>17, Zenon DEF SweepControls, screenVars
<1> QED
  BY <1>2, <1>9, <1>11, <1>14, <1>15, <1>16, <1>17, Zenon DEF ScreenNext

LEMMA LeasesOverKept ==
  ASSUME ScreenTypeOK, UserDesks, LeasesOver, [ScreenNext]_screenVars
  PROVE  LeasesOver'
<1>1. LeaseMoves
  BY LeaseAfter
<1>2. granted \in Nat /\ granted <= granted' /\ control'.lease <= granted'
  BY <1>1, ScreenAssumption DEF LeaseMoves, LeasesOver, ScreenTypeOK
<1>3. control'.lease = 0 => ~control'.live
  BY <1>1, <1>2 DEF LeaseMoves, LeasesOver
<1>4. ASSUME NEW d \in DeskIds, desk'[d].pc = desk[d].pc, desk'[d].lease = desk[d].lease
      PROVE  DeskLeaseOver(d)'
  <2>1. desk[d].lease <= granted /\ desk[d].lease \in Nat
    <3>1. desk[d].lease \in {0} \cup Leases
      BY Zenon DEF ScreenTypeOK, Desks
    <3> QED
      BY <3>1, ScreenAssumption DEF LeasesOver, DeskLeaseOver, Leases
  <2>2. desk'[d].lease <= granted'
    BY <1>1, <1>2, <1>4, <2>1 DEF LeaseMoves
  <2>3. CASE control'.lease = granted' /\ granted' = granted + 1
    BY <1>2, <1>4, <2>1, <2>2, <2>3 DEF DeskLeaseOver
  <2>4. CASE ~(control'.lease = granted' /\ granted' = granted + 1)
    BY <1>1, <1>4, <2>2, <2>4, Zenon DEF LeaseMoves, LeasesOver, DeskLeaseOver
  <2> QED
    BY <2>3, <2>4
<1>5. ASSUME NEW d \in DeskIds, desk'[d].pc \notin {"deny", "settle"},
             desk'[d].lease \in {0, control.lease, control'.lease, granted'}
      PROVE  DeskLeaseOver(d)'
  <2>1. granted' \in Nat /\ control.lease <= granted'
    <3>1. control.lease \in {0} \cup Leases
      BY Zenon DEF ScreenTypeOK, Controls
    <3> QED
      BY <1>1, <1>2, <3>1, ScreenAssumption DEF LeaseMoves, LeasesOver, Leases
  <2> QED
    BY <1>2, <1>5, <2>1 DEF DeskLeaseOver
<1>6. CASE UNCHANGED desk
  BY <1>2, <1>3, <1>4, <1>6, Zenon DEF LeasesOver
<1>7. ASSUME NEW r \in ScreenRuns, RequestScreen(r) PROVE LeasesOver'
  <2>1. ASSUME NEW d \in DeskIds PROVE desk'[d].pc = desk[d].pc /\ desk'[d].lease = desk[d].lease
    <3>1. desk[d] \in Desks
      BY Zenon DEF ScreenTypeOK
    <3>2. desk'[d] \in {desk[d], [desk[d] EXCEPT !.late = TRUE]}
      BY <1>7, Zenon DEF RequestScreen
    <3> QED
      BY <3>1, <3>2, Zenon DEF Desks
  <2> QED
    BY <1>2, <1>3, <1>4, <2>1, Zenon DEF LeasesOver
<1>8. ASSUME NEW d \in DeskIds, DeskLeaseOver(d)', \A e \in DeskIds \ {d} : desk'[e] = desk[e]
      PROVE  LeasesOver'
  BY <1>2, <1>3, <1>4, <1>8, Zenon DEF LeasesOver
<1>9. ASSUME NEW d \in ScreenRequests, NEW b \in Sharers, TakeOver(d, b) \/ ReleaseScreen(d, b)
      PROVE  LeasesOver'
  <2>1. PICK pc \in DeskSteps, takes \in BOOLEAN :
          Sit(d, pc, takes, b) /\ pc \notin {"deny", "settle"}
    <3>1. /\ {"bind", "revoke", "expire", "check", "giveBack"} \subseteq DeskSteps
          /\ {"bind", "revoke", "expire", "check", "giveBack"} \cap {"deny", "settle"} = {}
      BY DEF DeskSteps
    <3> QED
      BY <1>9, <3>1, Zenon DEF TakeOver, ReleaseScreen
  <2>2. d \in DeskIds
    BY DEF DeskIds
  <2>3. /\ desk'[d].pc = pc /\ desk'[d].lease = control.lease
        /\ \A e \in DeskIds \ {d} : desk'[e] = desk[e]
    BY <2>1, <2>2, SitAfter
  <2>4. DeskLeaseOver(d)'
    BY <1>5, <2>1, <2>2, <2>3
  <2> QED
    BY <1>8, <2>2, <2>3, <2>4
<1>10. ASSUME NEW d \in ExpiryWorkers, TakeExpiry(d) PROVE LeasesOver'
  <2>1. d \in DeskIds
    BY DEF DeskIds
  <2>2. /\ desk'[d].pc = "expire" /\ desk'[d].lease = control.lease
        /\ \A e \in DeskIds \ {d} : desk'[e] = desk[e]
    BY <1>10, <2>1, SitAfter DEF TakeExpiry, DeskSteps
  <2>3. DeskLeaseOver(d)'
    BY <1>5, <2>1, <2>2
  <2> QED
    BY <1>8, <2>1, <2>2, <2>3
<1>11. ASSUME NEW d \in DeskIds, DeskStep(d) \/ RevokeFails(d) PROVE LeasesOver'
  <2>1. DeskGoesOn(d)
    BY <1>11, DeskAfter
  <2>2. CASE desk'[d].pc \in {"deny", "settle"}
    <3>1. /\ desk'[d].lease = desk[d].lease /\ control.lease = desk[d].lease
          /\ UNCHANGED <<control.live, granted>> /\ (desk[d].pc = "deny" \/ ~control.live)
      BY <2>1, <2>2, FreeDeskIs DEF DeskGoesOn
    <3> QED
      BY <1>8, <2>1, <3>1, Zenon DEF DeskGoesOn, LeasesOver, DeskLeaseOver
  <2>3. CASE desk'[d].pc \notin {"deny", "settle"}
    <3>1. desk'[d].lease \in {0, control.lease, control'.lease, granted'}
      BY <2>1, <2>3, FreeDeskIs, Zenon DEF DeskGoesOn
    <3>2. DeskLeaseOver(d)'
      BY <1>5, <2>3, <3>1
    <3> QED
      BY <1>8, <2>1, <3>2 DEF DeskGoesOn
  <2> QED
    BY <2>2, <2>3
<1> QED
  BY <1>6, <1>7, <1>9, <1>10, <1>11, DeskMovers

-----------------------------------------------------------------------------
(* Turns *)

LEMMA FinalizeTurns ==
  ASSUME ScreenTypeOK, NEW d \in DeskIds, NEW h, finalizeComputerControlRelease(d, h)
  PROVE  \A r \in ScreenRuns :
           \/ turn'[r] = turn[r]
           \/ turn[r] = "waiting" /\ turn'[r] = "queued"
           \/ turn[r] = "held" /\ turn'[r] = "running"
  BY Zenon DEF finalizeComputerControlRelease, Continued, ScreenTypeOK

\* How a turn goes on, and that it waits only where it asked before.
TurnMoves ==
  \/ \E r \in ScreenRuns : StartTurn(r) \/ AcquireScreen(r) \/ RequestScreen(r)
  \/ \E r \in ScreenRuns : EndScreenTurn(r) \/ GiveUpWaiting(r)
  \/ /\ UNCHANGED execution
     /\ \A r \in ScreenRuns :
          \/ turn'[r] = turn[r]
          \/ turn[r] = "waiting" /\ turn'[r] \in {"queued", "held"}
          \/ turn[r] = "held" /\ turn'[r] \in {"running", "waiting"}

LEMMA TurnAfter ==
  ASSUME ScreenTypeOK, [ScreenNext]_screenVars
  PROVE  TurnMoves /\ UNCHANGED owner
<1>1. turn \in [ScreenRuns -> TurnStates]
  BY DEF ScreenTypeOK
<1>2. UNCHANGED owner
  BY Zenon DEF ScreenNext, screenVars, StartTurn, AcquireScreen, RequestScreen, FollowUpWaiting,
     HeldBack, EndScreenTurn, GiveUpWaiting, TakeOver, ReleaseScreen, TakeExpiry, DeskStep,
     ReadLapsed, Deny, NothingToExpire, SettleExpiry, GiveBackScreen, RevokeOther, CheckScreen,
     Grant, ScheduleEnd, GrantRefused, bindWaitingTakeoverToControl, RevokeFails, ControlLapses,
     SweepControls
<1>3. ASSUME NEW r \in ScreenRuns, FollowUpWaiting(r) \/ HeldBack(r) PROVE TurnMoves
  <2>1. UNCHANGED execution
    BY <1>3, Zenon DEF FollowUpWaiting, HeldBack
  <2>2. \A q \in ScreenRuns \ {r} : turn'[q] = turn[q]
    BY <1>1, <1>3, Zenon DEF FollowUpWaiting, HeldBack
  <2>3. \/ turn[r] = "waiting" /\ turn'[r] \in {"queued", "held"}
        \/ turn[r] = "held" /\ turn'[r] = "waiting"
    BY <1>1, <1>3 DEF FollowUpWaiting, HeldBack
  <2> QED
    BY <2>1, <2>2, <2>3, Zenon DEF TurnMoves
<1>4. ASSUME NEW d \in DeskIds, SettleExpiry(d) \/ GiveBackScreen(d) PROVE TurnMoves
  <2>1. UNCHANGED execution
    BY <1>4, Zenon DEF SettleExpiry, GiveBackScreen
  <2> QED
    BY <1>4, <2>1, FinalizeTurns, Zenon DEF SettleExpiry, GiveBackScreen, TurnMoves
<1>5. ASSUME UNCHANGED <<turn, execution>> PROVE TurnMoves
  BY <1>5, Zenon DEF TurnMoves
<1>6. ASSUME NEW d \in DeskIds, DeskStep(d) \/ RevokeFails(d),
             ~(SettleExpiry(d) \/ GiveBackScreen(d))
      PROVE  UNCHANGED <<turn, execution>>
  BY <1>6, Zenon DEF DeskStep, ReadLapsed, Deny, NothingToExpire, RevokeOther, CheckScreen, Grant,
     ScheduleEnd, GrantRefused, bindWaitingTakeoverToControl, RevokeFails
<1>7. ASSUME NEW r \in ScreenRuns,
             \/ StartTurn(r) \/ AcquireScreen(r) \/ RequestScreen(r) \/ FollowUpWaiting(r)
             \/ HeldBack(r) \/ EndScreenTurn(r) \/ GiveUpWaiting(r)
      PROVE  TurnMoves
  BY <1>3, <1>7, Zenon DEF TurnMoves
<1>8. ASSUME NEW d \in ScreenRequests, NEW b \in Sharers, TakeOver(d, b) \/ ReleaseScreen(d, b)
      PROVE  UNCHANGED <<turn, execution>>
  BY <1>8, Zenon DEF TakeOver, ReleaseScreen
<1>9. ASSUME NEW d \in ExpiryWorkers, TakeExpiry(d) PROVE UNCHANGED <<turn, execution>>
  BY <1>9, Zenon DEF TakeExpiry
<1>10. ASSUME ControlLapses \/ SweepControls \/ UNCHANGED screenVars PROVE TurnMoves
  BY <1>5, <1>10, Zenon DEF ControlLapses, SweepControls, screenVars
<1>11. ASSUME NEW d \in DeskIds, DeskStep(d) \/ RevokeFails(d) PROVE TurnMoves
  BY <1>4, <1>5, <1>6, <1>11
<1>12. ScreenNext \/ UNCHANGED screenVars => TurnMoves
  BY <1>5, <1>7, <1>8, <1>9, <1>10, <1>11, Zenon DEF ScreenNext
<1> QED
  BY <1>2, <1>12

LEMMA GivenLease ==
  ASSUME NEW e, NEW r, e = [run |-> r, live |-> TRUE] PROVE e.run = r /\ e.live
  BY Zenon

LEMMA TurnsKept ==
  ASSUME ScreenTypeOK, OneTurn, HoldsLease, [ScreenNext]_screenVars
  PROVE  OneTurn' /\ HoldsLease'
<1>1. turn \in [ScreenRuns -> TurnStates] /\ execution \in [Sharers -> Executions]
  BY DEF ScreenTypeOK
<1>2. TurnMoves /\ UNCHANGED owner
  BY TurnAfter
<1>3. ASSUME NEW r \in ScreenRuns, StartTurn(r) PROVE OneTurn' /\ HoldsLease'
  <2>1. /\ turn'[r] = "queued" /\ UNCHANGED execution
        /\ \A q \in ScreenRuns \ {r} : turn'[q] = turn[q]
    BY <1>1, <1>3, Zenon DEF StartTurn
  <2>2. \A q \in ScreenRuns : SharerOf(q) = SharerOf(r) => ~InTurn(q)
    BY <1>3, Zenon DEF StartTurn
  <2>3. OneTurn'
    BY <2>1, <2>2, Zenon DEF OneTurn, InTurn
  <2>4. HoldsLease'
    BY <1>2, <2>1 DEF HoldsLease, Leased
  <2> QED
    BY <2>3, <2>4
<1>4. ASSUME NEW r \in ScreenRuns, AcquireScreen(r) PROVE OneTurn' /\ HoldsLease'
  <2>1. /\ turn[r] = "queued" /\ turn'[r] = "running"
        /\ \A q \in ScreenRuns \ {r} : turn'[q] = turn[q]
    BY <1>1, <1>4, Zenon DEF AcquireScreen
  <2>2. \A q \in ScreenRuns : InTurn(q)' <=> InTurn(q)
    BY <2>1 DEF InTurn
  <2>3. OneTurn'
    BY <2>2, Zenon DEF OneTurn
  <2>4. ASSUME owner = Nobody, NEW q \in ScreenRuns, turn'[q] \in {"running", "waiting", "held"}
        PROVE  Leased(q)'
    <3>1. execution' = [execution EXCEPT ![SharerOf(r)] = [run |-> r, live |-> TRUE]]
      BY <1>4, <2>4, Zenon DEF AcquireScreen
    <3>2. SharerOf(r) \in Sharers /\ SharerOf(q) \in Sharers
      BY SharerTyped
    <3>3. CASE q = r
      <4>1. execution'[SharerOf(r)] = [run |-> r, live |-> TRUE]
        BY <1>1, <3>1, <3>2, Zenon
      <4>2. execution'[SharerOf(r)].run = r /\ execution'[SharerOf(r)].live
        BY <4>1, GivenLease, Zenon
      <4> QED
        BY <3>3, <4>2 DEF Leased
    <3>4. CASE q # r
      <4>1. turn[q] = turn'[q] /\ InTurn(q) /\ InTurn(r)
        BY <2>1, <2>4, <3>4 DEF InTurn
      <4>2. SharerOf(q) # SharerOf(r)
        BY <3>4, <4>1, Zenon DEF OneTurn
      <4>3. execution'[SharerOf(q)] = execution[SharerOf(q)]
        BY <1>1, <3>1, <3>2, <4>2, Zenon
      <4> QED
        BY <2>4, <4>1, <4>3, Zenon DEF HoldsLease, Leased
    <3> QED
      BY <3>3, <3>4
  <2> QED
    BY <1>2, <2>3, <2>4, Zenon DEF HoldsLease
<1>5. ASSUME NEW r \in ScreenRuns, RequestScreen(r) PROVE OneTurn' /\ HoldsLease'
  <2>1. /\ turn[r] = "running" /\ turn'[r] = "waiting" /\ UNCHANGED execution
        /\ \A q \in ScreenRuns \ {r} : turn'[q] = turn[q]
    BY <1>1, <1>5, Zenon DEF RequestScreen
  <2>2. \A q \in ScreenRuns : InTurn(q)' <=> InTurn(q)
    BY <2>1 DEF InTurn
  <2>3. \A q \in ScreenRuns : Leased(q)' <=> Leased(q)
    BY <2>1, Zenon DEF Leased
  <2>4. \A q \in ScreenRuns : turn'[q] \in {"running", "waiting", "held"} =>
                              turn[q] \in {"running", "waiting", "held"}
    BY <2>1
  <2> QED
    BY <1>2, <2>2, <2>3, <2>4, Zenon DEF OneTurn, HoldsLease
<1>6. ASSUME NEW r \in ScreenRuns, EndScreenTurn(r) \/ GiveUpWaiting(r)
      PROVE  OneTurn' /\ HoldsLease'
  <2>1. /\ turn'[r] = "ended" /\ \A q \in ScreenRuns \ {r} : turn'[q] = turn[q]
        /\ execution' = [b \in Sharers |-> IF execution[b].run = r THEN [run |-> r, live |-> FALSE]
                                           ELSE execution[b]]
    BY <1>1, <1>6, Zenon DEF EndScreenTurn, GiveUpWaiting
  <2>2. \A q \in ScreenRuns : InTurn(q)' => InTurn(q)
    BY <2>1 DEF InTurn
  <2>3. ASSUME owner = Nobody, NEW q \in ScreenRuns, turn'[q] \in {"running", "waiting", "held"}
        PROVE  Leased(q)'
    <3>1. q # r /\ turn[q] = turn'[q]
      BY <2>1, <2>3
    <3>2. Leased(q) /\ SharerOf(q) \in Sharers
      BY <2>3, <3>1, SharerTyped, Zenon DEF HoldsLease
    <3>3. execution'[SharerOf(q)] = execution[SharerOf(q)]
      BY <2>1, <3>1, <3>2, Zenon DEF Leased
    <3> QED
      BY <3>2, <3>3, Zenon DEF Leased
  <2> QED
    BY <1>2, <2>2, <2>3, Zenon DEF OneTurn, HoldsLease
<1>7. ASSUME UNCHANGED execution,
             \A r \in ScreenRuns :
               \/ turn'[r] = turn[r]
               \/ turn[r] = "waiting" /\ turn'[r] \in {"queued", "held"}
               \/ turn[r] = "held" /\ turn'[r] \in {"running", "waiting"}
      PROVE  OneTurn' /\ HoldsLease'
  <2>1. \A q \in ScreenRuns : InTurn(q)' <=> InTurn(q)
    BY <1>7 DEF InTurn
  <2>2. \A q \in ScreenRuns : Leased(q)' <=> Leased(q)
    BY <1>7, Zenon DEF Leased
  <2>3. \A q \in ScreenRuns : turn'[q] \in {"running", "waiting", "held"} =>
                              turn[q] \in {"running", "waiting", "held"}
    BY <1>7
  <2> QED
    BY <1>2, <2>1, <2>2, <2>3, Zenon DEF OneTurn, HoldsLease
<1> QED
  BY <1>2, <1>3, <1>4, <1>5, <1>6, <1>7, Zenon DEF TurnMoves

-----------------------------------------------------------------------------
(* The binding of a control *)

LEMMA NoRunIsNone == NoScreenRun \notin ScreenRuns
  BY ScreenAssumption DEF NoScreenRun, ScreenRuns

\* A run waits because it has asked in this step, or waited before.
LEMMA WaitedBefore ==
  ASSUME ScreenTypeOK, [ScreenNext]_screenVars, NEW r \in ScreenRuns,
         turn'[r] \in {"waiting", "held"}, ~RequestScreen(r)
  PROVE  turn[r] \in {"waiting", "held"}
<1>1. turn \in [ScreenRuns -> TurnStates]
  BY DEF ScreenTypeOK
<1>2. ASSUME NEW q \in ScreenRuns, StartTurn(q) \/ AcquireScreen(q) \/ RequestScreen(q)
      PROVE  turn[r] \in {"waiting", "held"}
  <2>1. \A x \in ScreenRuns \ {q} : turn'[x] = turn[x]
    BY <1>1, <1>2, Zenon DEF StartTurn, AcquireScreen, RequestScreen
  <2>2. StartTurn(q) \/ AcquireScreen(q) => turn'[q] \in {"queued", "running"}
    BY <1>1, Zenon DEF StartTurn, AcquireScreen
  <2> QED
    BY <1>2, <2>1, <2>2
<1>3. ASSUME NEW q \in ScreenRuns, EndScreenTurn(q) \/ GiveUpWaiting(q)
      PROVE  turn[r] \in {"waiting", "held"}
  BY <1>1, <1>3 DEF EndScreenTurn, GiveUpWaiting
<1>4. TurnMoves
  BY TurnAfter
<1> QED
  BY <1>2, <1>3, <1>4 DEF TurnMoves

\* A run of the bot that asks takes over its control, and outruns the grants that are decided.
LEMMA AskedNames ==
  ASSUME ScreenTypeOK, NEW r \in ScreenRuns, RequestScreen(r)
  PROVE  ControlNames(r)' /\ \A d \in DeskIds : GrantNames(d, r)'
<1>1. control \in Controls /\ control' = Kept(r)
  BY Zenon DEF ScreenTypeOK, RequestScreen
<1>2. ControlNames(r)'
  <2>1. CASE ~hasActiveComputerControl(control)
    <3>1. control' = [Cleared("none") EXCEPT !.run = r]
      BY <1>1, <2>1, Zenon DEF Kept
    <3>2. control'.run = r
      BY <3>1, Zenon DEF Cleared
    <3> QED
      BY <3>2 DEF ControlNames
  <2>2. CASE hasActiveComputerControl(control) /\ control.bot = SharerOf(r)
    <3>1. control' = [control EXCEPT !.run = r]
      BY <1>1, <2>2, Zenon DEF Kept
    <3>2. control'.run = r
      BY <1>1, <3>1, Zenon DEF Controls
    <3> QED
      BY <3>2 DEF ControlNames
  <2>3. CASE hasActiveComputerControl(control) /\ control.bot # SharerOf(r)
    BY <1>1, <2>3, Zenon DEF Kept, ControlNames
  <2> QED
    BY <2>1, <2>2, <2>3
<1>3. ASSUME NEW d \in DeskIds PROVE GrantNames(d, r)'
  <2>1. desk[d] \in Desks
    BY Zenon DEF ScreenTypeOK
  <2>2. CASE desk[d].pc = "grant" /\ desk[d].bot = SharerOf(r)
    <3>1. desk'[d] = [desk[d] EXCEPT !.late = TRUE]
      BY <2>2, Zenon DEF RequestScreen
    <3>2. desk'[d].late
      BY <2>1, <3>1, Zenon DEF Desks
    <3> QED
      BY <3>2, Zenon DEF GrantNames
  <2>3. CASE ~(desk[d].pc = "grant" /\ desk[d].bot = SharerOf(r))
    <3>1. desk'[d] = desk[d]
      BY <2>3, Zenon DEF RequestScreen
    <3> QED
      BY <2>3, <3>1, Zenon DEF GrantNames
  <2> QED
    BY <2>2, <2>3
<1> QED
  BY <1>2, <1>3

\* No other step loses the run of the control that was bound before.
LEMMA ControlStillNames ==
  ASSUME ScreenTypeOK, UserDesks, OneTurn, [ScreenNext]_screenVars, NEW r \in ScreenRuns,
         turn[r] \in {"waiting", "held"}, turn'[r] \in {"waiting", "held"}, ~RequestScreen(r),
         Leased(r), ControlNames(r), \A d \in DeskIds : GrantNames(d, r)
  PROVE  ControlNames(r)'
<1>1. control \in Controls
  BY DEF ScreenTypeOK
<1>2. ASSUME UNCHANGED <<control, outrun>> PROVE ControlNames(r)'
  BY <1>2, Zenon DEF ControlNames
<1>3. ASSUME control'.holder # "user" PROVE ControlNames(r)'
  BY <1>3, Zenon DEF ControlNames
<1>4. ASSUME NEW q \in ScreenRuns, RequestScreen(q) PROVE ControlNames(r)'
  <2>1. q # r /\ turn[q] = "running"
    BY <1>4, Zenon DEF RequestScreen
  <2>2. SharerOf(q) # SharerOf(r)
    BY <2>1, Zenon DEF OneTurn, InTurn
  <2>3. control' = Kept(q) /\ UNCHANGED outrun
    BY <1>4, Zenon DEF RequestScreen
  <2>4. CASE ~hasActiveComputerControl(control)
    <3>1. control' = [Cleared("none") EXCEPT !.run = q]
      BY <2>3, <2>4, Zenon DEF Kept
    <3>2. control'.holder # "user"
      BY <3>1 DEF Cleared
    <3> QED
      BY <1>3, <3>2
  <2>5. CASE hasActiveComputerControl(control) /\ control.bot = SharerOf(q)
    <3>1. control' = [control EXCEPT !.run = q]
      BY <2>3, <2>5, Zenon DEF Kept
    <3>2. control'.bot = SharerOf(q)
      BY <1>1, <2>5, <3>1, Zenon DEF Controls
    <3> QED
      BY <2>2, <3>2, Zenon DEF ControlNames
  <2>6. CASE hasActiveComputerControl(control) /\ control.bot # SharerOf(q)
    BY <1>2, <2>3, <2>6, Zenon DEF Kept
  <2> QED
    BY <2>4, <2>5, <2>6
<1>5. ASSUME NEW q \in ScreenRuns, GiveUpWaiting(q) PROVE ControlNames(r)'
  <2>1. q # r /\ UNCHANGED outrun
    <3>1. turn' = [turn EXCEPT ![q] = "ended"] /\ turn \in [ScreenRuns -> TurnStates]
      BY <1>5, Zenon DEF GiveUpWaiting, ScreenTypeOK
    <3>2. UNCHANGED outrun
      BY <1>5, Zenon DEF GiveUpWaiting
    <3> QED
      BY <3>1, <3>2
  <2>2. CASE UNCHANGED control
    BY <1>2, <2>1, <2>2
  <2>3. CASE ~UNCHANGED control
    <3>1. control' = [control EXCEPT !.run = NoScreenRun] /\ control.run = q
      BY <1>5, <2>3, Zenon DEF GiveUpWaiting
    <3>2. UNCHANGED <<control.holder, control.lease, control.bot>>
      BY <1>1, <3>1, Zenon DEF Controls
    <3>3. control.run # r
      BY <2>1, <3>1
    <3> QED
      BY <2>1, <3>2, <3>3 DEF ControlNames
  <2> QED
    BY <2>2, <2>3
<1>6. ASSUME NEW d \in DeskIds, RevokeOther(d) \/ ScheduleEnd(d) \/ SettleExpiry(d)
                                \/ GiveBackScreen(d)
      PROVE  ControlNames(r)'
  <2>1. UNCHANGED control \/ \E h \in {"none", "bot"} : control' = Cleared(h)
    BY <1>6, Zenon DEF RevokeOther, ScheduleEnd, SettleExpiry, GiveBackScreen,
                       finalizeComputerControlRelease
  <2>2. UNCHANGED outrun
    BY <1>6, Zenon DEF RevokeOther, ScheduleEnd, SettleExpiry, GiveBackScreen
  <2> QED
    BY <1>2, <1>3, <2>1, <2>2, ClearedIs
<1>7. ASSUME NEW d \in DeskIds, Deny(d) PROVE ControlNames(r)'
  <2>1. UNCHANGED control \/ control' = [control EXCEPT !.holder = "none"]
    BY <1>7, Zenon DEF Deny
  <2>2. UNCHANGED control \/ control'.holder = "none"
    BY <1>1, <2>1, Zenon DEF Controls
  <2>3. UNCHANGED outrun
    BY <1>7, Zenon DEF Deny
  <2> QED
    BY <1>2, <1>3, <2>2, <2>3
<1>8. ASSUME NEW d \in DeskIds, Grant(d) PROVE ControlNames(r)'
  <2>1. /\ control'.bot = desk[d].bot /\ control'.run = desk[d].run
        /\ control'.lease = granted' /\ desk[d].pc = "grant"
    BY <1>8, Zenon DEF Grant
  <2>2. desk[d].late => granted' \in outrun'
    BY <1>8, Zenon DEF Grant
  <2> QED
    BY <2>1, <2>2, Zenon DEF ControlNames, GrantNames
<1>9. ASSUME NEW d \in DeskIds, bindWaitingTakeoverToControl(d) PROVE ControlNames(r)'
  <2>1. UNCHANGED outrun
    BY <1>9, Zenon DEF bindWaitingTakeoverToControl
  <2>2. CASE UNCHANGED control
    BY <1>2, <2>1, <2>2
  <2>3. CASE ~UNCHANGED control
    <3>1. /\ control' = [control EXCEPT !.run = execution[desk[d].bot].run]
          /\ control.bot = desk[d].bot
      BY <1>9, <2>3, Zenon DEF bindWaitingTakeoverToControl
    <3>2. control'.run = execution[control.bot].run /\ UNCHANGED control.bot
      BY <1>1, <3>1, Zenon DEF Controls
    <3> QED
      BY <3>2, Zenon DEF ControlNames, Leased
  <2> QED
    BY <2>2, <2>3
<1>10. ASSUME ControlLapses PROVE ControlNames(r)'
  <2>1. UNCHANGED <<control.holder, control.lease, control.bot, control.run>>
    BY <1>1, <1>10, Zenon DEF ControlLapses, Controls
  <2>2. UNCHANGED outrun
    BY <1>10, Zenon DEF ControlLapses
  <2> QED
    BY <2>1, <2>2, Zenon DEF ControlNames
<1>11. ASSUME NEW q \in ScreenRuns,
              \/ StartTurn(q) \/ AcquireScreen(q) \/ FollowUpWaiting(q) \/ HeldBack(q)
              \/ EndScreenTurn(q)
       PROVE  ControlNames(r)'
  BY <1>2, <1>11, Zenon DEF StartTurn, AcquireScreen, FollowUpWaiting, HeldBack, EndScreenTurn
<1>12. ASSUME NEW d \in ScreenRequests, NEW b \in Sharers, TakeOver(d, b) \/ ReleaseScreen(d, b)
       PROVE  ControlNames(r)'
  BY <1>2, <1>12, Zenon DEF TakeOver, ReleaseScreen
<1>13. ASSUME NEW d \in DeskIds,
              \/ ReadLapsed(d) \/ NothingToExpire(d) \/ CheckScreen(d) \/ GrantRefused(d)
              \/ RevokeFails(d)
       PROVE  ControlNames(r)'
  BY <1>2, <1>13, Zenon DEF ReadLapsed, NothingToExpire, CheckScreen, GrantRefused, RevokeFails
<1>14. ASSUME NEW d \in ExpiryWorkers, TakeExpiry(d) PROVE ControlNames(r)'
  BY <1>2, <1>14, Zenon DEF TakeExpiry
<1>15. ASSUME SweepControls \/ UNCHANGED screenVars PROVE ControlNames(r)'
  BY <1>2, <1>15, Zenon DEF SweepControls, screenVars
<1>16. ASSUME NEW d \in DeskIds, DeskStep(d) \/ RevokeFails(d) PROVE ControlNames(r)'
  BY <1>6, <1>7, <1>8, <1>9, <1>13, <1>16 DEF DeskStep
<1> QED
  BY <1>4, <1>5, <1>10, <1>11, <1>12, <1>14, <1>15, <1>16, Zenon DEF ScreenNext

\* A grant is decided on the execution lease, which names the run.
LEMMA GrantStillNames ==
  ASSUME ScreenTypeOK, UserDesks, [ScreenNext]_screenVars, NEW r \in ScreenRuns,
         turn[r] \in {"waiting", "held"}, Leased(r), \A d \in DeskIds : GrantNames(d, r)
  PROVE  \A d \in DeskIds : GrantNames(d, r)'
<1>1. ASSUME NEW d \in DeskIds, desk'[d] = desk[d] PROVE GrantNames(d, r)'
  BY <1>1, Zenon DEF GrantNames
<1>2. CASE UNCHANGED desk
  BY <1>1, <1>2
<1>3. ASSUME NEW q \in ScreenRuns, RequestScreen(q), NEW d \in DeskIds PROVE GrantNames(d, r)'
  <2>1. desk[d] \in Desks
    BY Zenon DEF ScreenTypeOK
  <2>2. desk'[d] \in {desk[d], [desk[d] EXCEPT !.late = TRUE]}
    BY <1>3, Zenon DEF RequestScreen
  <2>3. CASE desk'[d] = [desk[d] EXCEPT !.late = TRUE]
    <3>1. desk'[d].late
      BY <2>1, <2>3, Zenon DEF Desks
    <3> QED
      BY <3>1, Zenon DEF GrantNames
  <2> QED
    BY <1>1, <2>2, <2>3
<1>4. ASSUME NEW d \in ScreenRequests, NEW b \in Sharers, TakeOver(d, b) \/ ReleaseScreen(d, b),
             NEW e \in DeskIds
      PROVE  GrantNames(e, r)'
  <2>1. PICK pc \in DeskSteps, takes \in BOOLEAN : Sit(d, pc, takes, b) /\ pc # "grant"
    <3>1. /\ {"bind", "revoke", "expire", "check", "giveBack"} \subseteq DeskSteps
          /\ "grant" \notin {"bind", "revoke", "expire", "check", "giveBack"}
      BY DEF DeskSteps
    <3> QED
      BY <1>4, <3>1, Zenon DEF TakeOver, ReleaseScreen
  <2>2. desk'[d].pc # "grant" /\ \A x \in DeskIds \ {d} : desk'[x] = desk[x]
    BY <2>1, SitAfter DEF DeskIds
  <2> QED
    BY <1>1, <2>2, Zenon DEF GrantNames
<1>5. ASSUME NEW d \in ExpiryWorkers, TakeExpiry(d), NEW e \in DeskIds PROVE GrantNames(e, r)'
  <2>1. desk'[d].pc = "expire" /\ \A x \in DeskIds \ {d} : desk'[x] = desk[x]
    BY <1>5, SitAfter DEF TakeExpiry, DeskIds, DeskSteps
  <2> QED
    BY <1>1, <2>1 DEF GrantNames
<1>6. ASSUME NEW d \in DeskIds, DeskStep(d) \/ RevokeFails(d), NEW e \in DeskIds
      PROVE  GrantNames(e, r)'
  <2>1. DeskGoesOn(d)
    BY <1>6, DeskAfter
  <2>2. CASE e # d \/ desk'[d].pc # "grant"
    BY <1>1, <2>1, <2>2, Zenon DEF DeskGoesOn, GrantNames
  <2>3. CASE e = d /\ desk'[d].pc = "grant" /\ desk'[d].bot = SharerOf(r)
    <3>1. CheckScreen(d) /\ desk'[d].bot = desk[d].bot
      BY <2>1, <2>3, FreeDeskIs DEF DeskGoesOn
    <3>2. execution[desk[d].bot].run = r /\ execution[desk[d].bot].live
      BY <2>3, <3>1, Zenon DEF Leased
    <3>3. ~LeaveDesk(d)
      BY <2>3, FreeDeskIs, LeaveAfter
    <3>4. r # NoScreenRun
      BY NoRunIsNone
    <3>5. desk' = [desk EXCEPT ![d].pc = "grant", ![d].lease = 0, ![d].run = r]
      BY <3>1, <3>2, <3>3, <3>4, Zenon DEF CheckScreen, executionBlocks
    <3>6. desk[d] \in Desks /\ desk \in [DeskIds -> Desks]
      BY Zenon DEF ScreenTypeOK
    <3>7. desk'[d].run = r
      BY <3>5, <3>6, Zenon DEF Desks
    <3> QED
      BY <2>3, <3>7, Zenon DEF GrantNames
  <2>4. CASE e = d /\ desk'[d].bot # SharerOf(r)
    BY <2>4, Zenon DEF GrantNames
  <2> QED
    BY <2>2, <2>3, <2>4
<1> QED
  BY <1>2, <1>3, <1>4, <1>5, <1>6, DeskMovers

LEMMA BoundKept ==
  ASSUME ScreenTypeOK, UserDesks, OneTurn, HoldsLease, Bound, [ScreenNext]_screenVars
  PROVE  Bound'
<1> SUFFICES ASSUME owner = Nobody, NEW r \in ScreenRuns, turn'[r] \in {"waiting", "held"}
             PROVE  ControlNames(r)' /\ \A d \in DeskIds : GrantNames(d, r)'
  BY TurnAfter, Zenon DEF Bound
<1>1. CASE RequestScreen(r)
  BY <1>1, AskedNames
<1>2. CASE ~RequestScreen(r)
  <2>1. turn[r] \in {"waiting", "held"}
    BY <1>2, WaitedBefore
  <2>2. Leased(r) /\ ControlNames(r) /\ \A d \in DeskIds : GrantNames(d, r)
    BY <2>1, Zenon DEF HoldsLease, Bound
  <2> QED
    BY <1>2, <2>1, <2>2, ControlStillNames, GrantStillNames
<1> QED
  BY <1>1, <1>2

-----------------------------------------------------------------------------
(* Theorems *)

ScreenInv == ScreenTypeOK /\ UserDesks /\ LeasesOver /\ OneTurn /\ HoldsLease /\ Bound

LEMMA ScreenInvStarts == ScreenInit => ScreenInv
<1> SUFFICES ASSUME ScreenInit PROVE ScreenInv
  OBVIOUS
<1>1. ScreenTypeOK
  BY ScreenStarts
<1>2. \A d \in DeskIds : desk[d].pc = "idle" /\ ~desk[d].takes /\ desk[d].lease = 0
  BY FreeDeskIs, Zenon DEF ScreenInit
<1>3. UserDesks
  BY <1>2, Zenon DEF UserDesks
<1>4. control.lease = 0 /\ ~control.live /\ granted = 0
  BY ClearedIs, Zenon DEF ScreenInit
<1>5. LeasesOver
  BY <1>2, <1>4 DEF LeasesOver, DeskLeaseOver
<1>6. \A r \in ScreenRuns : turn[r] = "none"
  BY DEF ScreenInit
<1>7. OneTurn /\ HoldsLease /\ Bound
  BY <1>6 DEF OneTurn, HoldsLease, Bound, InTurn
<1> QED
  BY <1>1, <1>3, <1>5, <1>7 DEF ScreenInv

LEMMA ScreenInvKept == ScreenInv /\ [ScreenNext]_screenVars => ScreenInv'
  BY TypesKept, UserDesksKept, LeasesOverKept, TurnsKept, BoundKept DEF ScreenInv

\* The types of ScreenControl, for every number of bots, requests, jobs and leases; a desk that
\* grants, revokes or binds is a request of the user.  (computer.takeover, expireComputerControl)
THEOREM ScreenTypeCorrect == ScreenSpec => []ScreenTypeOK
<1>1. ScreenSpec => []ScreenInv
  BY ScreenInvStarts, ScreenInvKept, PTL DEF ScreenSpec
<1>2. ScreenInv => ScreenTypeOK
  BY DEF ScreenInv
<1> QED
  BY <1>1, <1>2, PTL

\* A control that has not lapsed ends only by a request of the user that has read this very
\* lease: to give it back, to take the screen of another bot, or to schedule its end.
\* (computer.takeover, computer.release, finalizeComputerControlRelease)
THEOREM ControlIsHeld == ScreenSpec => HeldUntilGivenUp
<1>1. ScreenSpec => []ScreenInv
  BY ScreenInvStarts, ScreenInvKept, PTL DEF ScreenSpec
<1>2. ASSUME ScreenInv, [ScreenNext]_screenVars,
             hasActiveComputerControl(control), control'.lease # control.lease
      PROVE  GivenUp
  <2>1. LeaseMoves
    BY <1>2, LeaseAfter DEF ScreenInv
  <2>2. control.lease # 0
    BY <1>2, Zenon DEF hasActiveComputerControl
  <2> QED
    BY <1>2, <2>1, <2>2, Zenon DEF LeaseMoves
<1>3. ScreenInv /\ [ScreenNext]_screenVars
        => [hasActiveComputerControl(control) /\ control'.lease # control.lease => GivenUp]_screenVars
  BY <1>2
<1> QED
  BY <1>1, <1>3, PTL DEF ScreenSpec, HeldUntilGivenUp, GivenUp

\* On a team's computer the control the user holds of a bot names the run of the bot that waits,
\* so a release can let it go on, unless the lease was granted on a check a pause has outrun.
\* (computer.takeover, pauseRunForTakeover, bindWaitingTakeoverToControl)
THEOREM TakeoversAreBound == ScreenSpec => []TeamTakeoverBinds
<1>1. ScreenSpec => []ScreenInv
  BY ScreenInvStarts, ScreenInvKept, PTL DEF ScreenSpec
<1>2. ScreenInv => TeamTakeoverBinds
  BY Zenon DEF ScreenInv, Bound, ControlNames, TeamTakeoverBinds, TakeoverBinds
<1> QED
  BY <1>1, <1>2, PTL

-----------------------------------------------------------------------------
(* Teaching sessions.  What is left to do in a session is kept as a list   *)
(* of steps with each request and job; the invariant relates every list    *)
(* that can be met to what the session, its card and the screen show.      *)

(* The steps a request or a job may have left *)

\* A stop looks again afterwards.
With(t) == {t, t \o <<"recheck">>}
Ending4 == With(<<"finalize", "release", "emit", "cancel">>)
Ending3 == With(<<"release", "emit", "cancel">>)
Ending2 == With(<<"emit", "cancel">>)
Ending1 == With(<<"cancel">>)
Cardless == {<<"release">> \o t : t \in Ending1}
Looking == With(<<"release", "emit">>) \cup With(<<"release">>) \cup With(<<"emit">>) \cup {<<"recheck">>}
Endings == Ending4 \cup Ending3 \cup Ending2 \cup Ending1 \cup Cardless \cup Looking
Start3 == <<"grant", "create", "enqueue">>
Start2 == <<"create", "enqueue">>
Start1 == <<"enqueue">>
Remove3 == <<"cancel", "release", "delete">>
Remove2 == <<"release", "delete">>
Remove1 == <<"delete">>

LEMMA Snoc ==
  ASSUME NEW s \in Seq(Steps), NEW e \in Steps
  PROVE  /\ s \o <<e>> \in Seq(Steps) /\ s \o <<e>> # <<>>
         /\ s # <<>> => Head(s \o <<e>>) = Head(s) /\ Tail(s \o <<e>>) = Tail(s) \o <<e>>
OBVIOUS

LEMMA Cons ==
  ASSUME NEW e \in Steps, NEW t \in Seq(Steps)
  PROVE  /\ <<e>> \o t \in Seq(Steps) /\ <<e>> \o t # <<>>
         /\ Head(<<e>> \o t) = e /\ Tail(<<e>> \o t) = t
OBVIOUS

LEMMA Alone == ASSUME NEW e \in Steps PROVE <<>> \o <<e>> = <<e>> /\ <<e>> \o <<>> = <<e>>
OBVIOUS

LEMMA ShortLists ==
  ASSUME NEW S, NEW a \in S, NEW b \in S, NEW c \in S, NEW d \in S
  PROVE  /\ <<a>> \in Seq(S) /\ <<a>> # <<>> /\ Head(<<a>>) = a /\ Tail(<<a>>) = <<>>
         /\ <<a, b>> \in Seq(S) /\ <<a, b>> # <<>> /\ Head(<<a, b>>) = a /\ Tail(<<a, b>>) = <<b>>
         /\ <<a, b, c>> \in Seq(S) /\ <<a, b, c>> # <<>> /\ Head(<<a, b, c>>) = a /\ Tail(<<a, b, c>>) = <<b, c>>
         /\ <<a, b, c, d>> \in Seq(S) /\ <<a, b, c, d>> # <<>> /\ Head(<<a, b, c, d>>) = a
         /\ Tail(<<a, b, c, d>>) = <<b, c, d>>
OBVIOUS

LEMMA StepsAre ==
  /\ "grant" \in Steps /\ "create" \in Steps /\ "enqueue" \in Steps /\ "finalize" \in Steps
  /\ "release" \in Steps /\ "emit" \in Steps /\ "cancel" \in Steps /\ "recheck" \in Steps
  /\ "delete" \in Steps /\ "card" \in Steps
BY DEF Steps

LEMMA FourSteps ==
  LET t == <<"finalize", "release", "emit", "cancel">> IN
  t \in Seq(Steps) /\ t # <<>> /\ Head(t) = "finalize" /\ Tail(t) = <<"release", "emit", "cancel">>
BY StepsAre, ShortLists

LEMMA ThreeSteps ==
  /\ LET t == <<"release", "emit", "cancel">> IN
     t \in Seq(Steps) /\ t # <<>> /\ Head(t) = "release" /\ Tail(t) = <<"emit", "cancel">>
  /\ Start3 \in Seq(Steps) /\ Start3 # <<>> /\ Head(Start3) = "grant" /\ Tail(Start3) = Start2
  /\ Remove3 \in Seq(Steps) /\ Remove3 # <<>> /\ Head(Remove3) = "cancel" /\ Tail(Remove3) = Remove2
BY StepsAre, ShortLists DEF Start3, Start2, Remove3, Remove2

LEMMA TwoSteps ==
  /\ LET t == <<"emit", "cancel">> IN
     t \in Seq(Steps) /\ t # <<>> /\ Head(t) = "emit" /\ Tail(t) = <<"cancel">>
  /\ LET t == <<"release", "emit">> IN
     t \in Seq(Steps) /\ t # <<>> /\ Head(t) = "release" /\ Tail(t) = <<"emit">>
  /\ Start2 \in Seq(Steps) /\ Start2 # <<>> /\ Head(Start2) = "create" /\ Tail(Start2) = Start1
  /\ Remove2 \in Seq(Steps) /\ Remove2 # <<>> /\ Head(Remove2) = "release" /\ Tail(Remove2) = Remove1
BY StepsAre, ShortLists DEF Start2, Start1, Remove2, Remove1

LEMMA OneStep ==
  /\ \A e \in Steps : <<e>> \in Seq(Steps) /\ <<e>> # <<>> /\ Head(<<e>>) = e /\ Tail(<<e>>) = <<>>
  /\ Start1 \in Seq(Steps) /\ Start1 # <<>> /\ Head(Start1) = "enqueue" /\ Tail(Start1) = <<>>
  /\ Remove1 \in Seq(Steps) /\ Remove1 # <<>> /\ Head(Remove1) = "delete" /\ Tail(Remove1) = <<>>
BY StepsAre, ShortLists DEF Start1, Remove1

LEMMA WithIs ==
  ASSUME NEW t \in Seq(Steps), t # <<>>, NEW u \in With(t)
  PROVE  u \in Seq(Steps) /\ u # <<>> /\ Head(u) = Head(t) /\ Tail(u) \in With(Tail(t))
BY Snoc, StepsAre DEF With

LEMMA WithNothing == \A u \in With(<<>>) : u = <<>> \/ u \in Looking
BY Alone, StepsAre DEF With, Looking

\* What each list begins with, and what is left of it then.
LEMMA Begun4 ==
  ASSUME NEW t \in Ending4
  PROVE  t \in Seq(Steps) /\ t # <<>> /\ Head(t) = "finalize" /\ Tail(t) \in Ending3
BY FourSteps, WithIs DEF Ending4, Ending3

LEMMA Begun3 ==
  ASSUME NEW t \in Ending3
  PROVE  t \in Seq(Steps) /\ t # <<>> /\ Head(t) = "release" /\ Tail(t) \in Ending2
BY ThreeSteps, WithIs DEF Ending3, Ending2

LEMMA Begun2 ==
  ASSUME NEW t \in Ending2
  PROVE  t \in Seq(Steps) /\ t # <<>> /\ Head(t) = "emit" /\ Tail(t) \in Ending1
BY TwoSteps, WithIs DEF Ending2, Ending1

LEMMA Begun1 ==
  ASSUME NEW t \in Ending1
  PROVE  t \in Seq(Steps) /\ t # <<>> /\ Head(t) = "cancel" /\ Tail(t) \in Looking \cup {<<>>}
<1>1. <<"cancel">> \in Seq(Steps) /\ <<"cancel">> # <<>> /\ Head(<<"cancel">>) = "cancel" /\ Tail(<<"cancel">>) = <<>>
  BY OneStep, StepsAre
<1>2. t \in Seq(Steps) /\ t # <<>> /\ Head(t) = "cancel" /\ Tail(t) \in With(<<>>)
  BY <1>1, WithIs DEF Ending1
<1> QED
  BY <1>2, WithNothing

LEMMA BegunCardless ==
  ASSUME NEW t \in Cardless
  PROVE  t \in Seq(Steps) /\ t # <<>> /\ Head(t) = "release" /\ Tail(t) \in Ending1
<1>1. PICK u \in Ending1 : t = <<"release">> \o u
  BY DEF Cardless
<1>2. u \in Seq(Steps)
  BY Begun1
<1>3. "release" \in Steps
  BY StepsAre
<1>4. /\ <<"release">> \o u \in Seq(Steps) /\ <<"release">> \o u # <<>>
      /\ Head(<<"release">> \o u) = "release" /\ Tail(<<"release">> \o u) = u
  BY ONLY <1>2, <1>3, Cons
<1> QED
  BY <1>1, <1>4

LEMMA BegunLooking ==
  ASSUME NEW t \in Looking
  PROVE  /\ t \in Seq(Steps) /\ t # <<>> /\ Head(t) \in {"release", "emit", "recheck"}
         /\ Head(t) # "recheck" => Tail(t) \in Looking \cup {<<>>}
<1>1. CASE t \in With(<<"release", "emit">>)
  <2>1. t \in Seq(Steps) /\ t # <<>> /\ Head(t) = "release" /\ Tail(t) \in With(<<"emit">>)
    BY <1>1, TwoSteps, WithIs
  <2> QED
    BY <2>1 DEF Looking
<1>2. ASSUME NEW e \in {"release", "emit"}, t \in With(<<e>>)
      PROVE  t \in Seq(Steps) /\ t # <<>> /\ Head(t) = e /\ Tail(t) \in Looking \cup {<<>>}
  <2>1. <<e>> \in Seq(Steps) /\ <<e>> # <<>> /\ Head(<<e>>) = e /\ Tail(<<e>>) = <<>>
    BY OneStep, StepsAre
  <2>2. t \in Seq(Steps) /\ t # <<>> /\ Head(t) = e /\ Tail(t) \in With(<<>>)
    BY <1>2, <2>1, WithIs
  <2> QED
    BY <2>2, WithNothing
<1>3. CASE t = <<"recheck">>
  BY <1>3, OneStep, StepsAre
<1> QED
  BY <1>1, <1>2, <1>3 DEF Looking

-----------------------------------------------------------------------------
(* The invariant *)

Created == {s \in Sessions : skill[s].status # "none"}
Closed(s) == skill[s].status \in {"saved", "gone"}
Freed(s) == Closed(s) \/ (skill[s].status = "draft" /\ screen # skill[s].lease)
Carded(s) == Closed(s) \/ (skill[s].status = "draft" /\ screen # skill[s].lease /\ card[s] # "none")

\* What has been done for s where a completion, or a look at what was ended before, has got to.
Ending(t, s) ==
  \/ t \in Ending4 \cup Looking
  \/ t \in Ending3 /\ skill[s].status # "recording"
  \/ t \in Ending2 /\ Freed(s)
  \/ t \in Ending1 /\ Carded(s)
  \/ t \in Cardless /\ Closed(s)

Enders == {"get", "stop", "expire"}

\* Where a request or a job stands, and what it has done so far.
ActorInv(a) ==
  LET m == act[a] IN
  \/ m = AtRest
  \/ m.doing = "start" /\ m.of = 0 /\ m.todo = Start3 /\ m.lease \in 0 .. controls
  \/ m.doing = "start" /\ m.of = 0 /\ m.todo = Start2 /\ m.lease \in 1 .. controls
  \/ m.doing = "start" /\ m.of \in Created /\ m.todo = Start1
  \/ m.doing = "save" /\ m.of \in Created /\ m.todo = <<"card">>
  \/ m.doing = "remove" /\ m.of \in Created /\ m.todo \in {Remove3, Remove2, Remove1}
  \/ m.doing \in Enders /\ m.of \in Created /\ Ending(m.todo, m.of)

\* A lease is the control of one session, or of two that extend it, and is never given again.
LeasesGiven == \A s \in Created : skill[s].lease \in 1 .. controls

Busy(a, s) == act[a].of = s /\ act[a].doing \in {"start", "remove"}
Tended(s) == Settled(s) \/ s \in timer \cup untimed \/ \E a \in Actors : Busy(a, s)

TeachInv ==
  /\ TeachingTypeOK /\ LeasesGiven /\ due \subseteq Created
  /\ \A a \in Actors : ActorInv(a)
  /\ \A s \in Sessions : Tended(s)

LEMMA RestIs == AtRest.doing = "none" /\ AtRest.of = 0 /\ AtRest.lease = 0 /\ AtRest.todo = <<>>
BY DEF AtRest

LEMMA TeachingStarts == TeachingInit => TeachInv
<1> SUFFICES ASSUME TeachingInit PROVE TeachInv
  OBVIOUS
<1>1. /\ \A s \in Sessions : skill[s].status = "none" /\ skill[s].lease = 0
      /\ \A a \in Actors : act[a] = AtRest
  BY DEF TeachingInit
<1>2. AtRest \in [doing : {"none", "start", "get", "stop", "save", "remove", "expire"},
                  of : {0} \cup Sessions, lease : ControlLeases, todo : Seq(Steps)]
  BY TeachingAssumption DEF AtRest, ControlLeases
<1>3. TeachingTypeOK
  <2>1. [status |-> "none", lease |-> 0] \in
          [status : {"none", "recording", "draft", "saved", "gone"}, lease : ControlLeases]
    BY TeachingAssumption DEF ControlLeases
  <2> QED
    BY <1>2, <2>1, TeachingAssumption DEF TeachingInit, TeachingTypeOK, ControlLeases
<1>4. LeasesGiven /\ (\A a \in Actors : ActorInv(a)) /\ (\A s \in Sessions : Tended(s))
  BY <1>1 DEF LeasesGiven, Created, ActorInv, Tended, Settled
<1>5. due \subseteq Created
  BY DEF TeachingInit
<1> QED
  BY <1>3, <1>4, <1>5 DEF TeachInv

-----------------------------------------------------------------------------
(* What a step may do to what the others have done *)

\* Leases are new, screens are given back, and sessions go on to their end.
World ==
  /\ controls' \in Nat /\ controls' >= controls
  /\ screen' \in {screen, 0} \/ screen' > controls
  /\ \A s \in Created : skill'[s].lease = skill[s].lease /\ skill'[s].status # "none"
  /\ \A s \in Created : skill'[s].status = "recording" => skill[s].status = "recording"
  /\ \A s \in Sessions : Closed(s) => Closed(s)'
  /\ \A s \in Sessions : skill[s].status = "draft" => skill'[s].status \in {"draft", "saved", "gone"}
  /\ \A s \in Sessions : card[s] # "none" => card'[s] # "none"

LEMMA WorldFreed ==
  ASSUME TeachInv, World, NEW s \in Created
  PROVE  (Freed(s) => Freed(s)') /\ (Carded(s) => Carded(s)')
<1>1. skill[s].lease \in 1 .. controls /\ controls \in Nat /\ screen \in 0 .. controls
  BY DEF TeachInv, LeasesGiven, TeachingTypeOK, ControlLeases
<1>2. screen # skill[s].lease => screen' # skill'[s].lease
  BY <1>1 DEF World
<1>3. s \in Sessions
  BY DEF Created
<1>4. CASE Closed(s)
  BY <1>3, <1>4 DEF World, Freed, Carded
<1>5. CASE skill[s].status = "draft"
  <2>1. skill'[s].status = "draft" \/ Closed(s)'
    BY <1>3, <1>5 DEF World, Closed
  <2> QED
    BY <1>2, <1>3, <1>5, <2>1 DEF World, Freed, Carded, Closed
<1> QED
  BY <1>4, <1>5 DEF Freed, Carded, Closed

LEMMA WorldEnding ==
  ASSUME TeachInv, World, NEW s \in Created, NEW t, Ending(t, s)
  PROVE  Ending(t, s)'
<1>1. (Freed(s) => Freed(s)') /\ (Carded(s) => Carded(s)') /\ (Closed(s) => Closed(s)')
  BY WorldFreed DEF World, Created
<1>2. skill[s].status # "recording" => skill'[s].status # "recording"
  BY DEF World
<1> QED
  BY <1>1, <1>2 DEF Ending

LEMMA WorldCreated == ASSUME World PROVE Created \subseteq Created'
BY DEF World, Created

LEMMA OthersStand ==
  ASSUME TeachInv, World, NEW a \in Actors, act'[a] = act[a]
  PROVE  ActorInv(a)'
<1>1. ActorInv(a) /\ controls \in Nat /\ controls' \in Nat /\ controls' >= controls
  BY DEF TeachInv, World, TeachingTypeOK, ControlLeases
<1>2. 0 .. controls \subseteq 0 .. controls' /\ 1 .. controls \subseteq 1 .. controls'
  BY <1>1
<1>3. CASE act[a].doing \in Enders /\ act[a].of \in Created /\ Ending(act[a].todo, act[a].of)
  <2>1. Ending(act[a].todo, act[a].of)'
    <3>1. \A t : Ending(t, act[a].of) => Ending(t, act[a].of)'
      BY <1>3, WorldEnding
    <3> QED
      BY <1>3, <3>1 DEF Ending, Freed, Carded, Closed
  <2> QED
    BY <1>3, <2>1, WorldCreated DEF ActorInv
<1>4. CASE ~(act[a].doing \in Enders /\ act[a].of \in Created /\ Ending(act[a].todo, act[a].of))
  BY <1>1, <1>2, <1>4, WorldCreated DEF ActorInv
<1> QED
  BY <1>3, <1>4

-----------------------------------------------------------------------------
(* Where the actor of a step stands *)

\* At a step of the end of a session, what has been done before it.
LEMMA EndingAt ==
  ASSUME NEW t, NEW s, Ending(t, s)
  PROVE  /\ t \in Seq(Steps) /\ t # <<>>
         /\ \/ Head(t) = "finalize" /\ t \in Ending4
            \/ /\ Head(t) = "release"
               /\ t \in Looking \/ (t \in Ending3 /\ skill[s].status # "recording") \/ (t \in Cardless /\ Closed(s))
            \/ Head(t) = "emit" /\ (t \in Looking \/ (t \in Ending2 /\ Freed(s)))
            \/ Head(t) = "cancel" /\ t \in Ending1 /\ Carded(s)
            \/ Head(t) = "recheck" /\ t \in Looking
<1>1. CASE t \in Ending4
  BY <1>1, Begun4
<1>2. CASE t \in Ending3 /\ skill[s].status # "recording"
  BY <1>2, Begun3
<1>3. CASE t \in Ending2 /\ Freed(s)
  BY <1>3, Begun2
<1>4. CASE t \in Ending1 /\ Carded(s)
  BY <1>4, Begun1
<1>5. CASE t \in Cardless /\ Closed(s)
  BY <1>5, BegunCardless
<1>6. CASE t \in Looking
  BY <1>6, BegunLooking
<1> QED
  BY <1>1, <1>2, <1>3, <1>4, <1>5, <1>6 DEF Ending

StandsAt(a, step) ==
  LET m == act[a] IN
  CASE step = "grant" -> m.doing = "start" /\ m.of = 0 /\ m.todo = Start3 /\ m.lease \in 0 .. controls
    [] step = "create" -> m.doing = "start" /\ m.of = 0 /\ m.todo = Start2 /\ m.lease \in 1 .. controls
    [] step = "enqueue" -> m.doing = "start" /\ m.of \in Created /\ m.todo = Start1
    [] step = "card" -> m.doing = "save" /\ m.of \in Created /\ m.todo = <<"card">>
    [] step = "delete" -> m.doing = "remove" /\ m.of \in Created /\ m.todo = Remove1
    [] step = "recheck" -> m.doing \in Enders /\ m.of \in Created /\ m.todo \in Looking
    [] step = "finalize" -> m.doing \in Enders /\ m.of \in Created /\ m.todo \in Ending4
    [] step = "emit" -> /\ m.doing \in Enders /\ m.of \in Created
                        /\ m.todo \in Looking \/ (m.todo \in Ending2 /\ Freed(m.of))
    [] step = "release" -> /\ m.of \in Created
                           /\ \/ m.doing = "remove" /\ m.todo = Remove2
                              \/ /\ m.doing \in Enders
                                 /\ \/ m.todo \in Looking
                                    \/ m.todo \in Ending3 /\ skill[m.of].status # "recording"
                                    \/ m.todo \in Cardless /\ Closed(m.of)
    [] step = "cancel" -> /\ m.of \in Created
                          /\ \/ m.doing = "remove" /\ m.todo = Remove3
                             \/ m.doing \in Enders /\ m.todo \in Ending1 /\ Carded(m.of)

LEMMA Stands ==
  ASSUME TeachInv, NEW a \in Actors, NEW step \in Steps, At(a, step)
  PROVE  StandsAt(a, step) /\ act[a].todo \in Seq(Steps) /\ act[a].todo # <<>>
<1> DEFINE m == act[a]
<1>1. m.todo # <<>> /\ Head(m.todo) = step /\ ActorInv(a)
  BY DEF At, TeachInv
<1>2. CASE m = AtRest
  BY <1>1, <1>2, RestIs
<1>3. CASE m.doing = "start" /\ m.of = 0 /\ m.todo = Start3 /\ m.lease \in 0 .. controls
  BY <1>1, <1>3, ThreeSteps DEF StandsAt
<1>4. CASE m.doing = "start" /\ m.of = 0 /\ m.todo = Start2 /\ m.lease \in 1 .. controls
  BY <1>1, <1>4, TwoSteps DEF StandsAt
<1>5. CASE m.doing = "start" /\ m.of \in Created /\ m.todo = Start1
  BY <1>1, <1>5, OneStep DEF StandsAt
<1>6. CASE m.doing = "save" /\ m.of \in Created /\ m.todo = <<"card">>
  BY <1>1, <1>6, OneStep, StepsAre DEF StandsAt
<1>7. CASE m.doing = "remove" /\ m.of \in Created /\ m.todo = Remove3
  BY <1>1, <1>7, ThreeSteps DEF StandsAt
<1>8. CASE m.doing = "remove" /\ m.of \in Created /\ m.todo = Remove2
  BY <1>1, <1>8, TwoSteps DEF StandsAt
<1>9. CASE m.doing = "remove" /\ m.of \in Created /\ m.todo = Remove1
  BY <1>1, <1>9, OneStep DEF StandsAt
<1>10. CASE m.doing \in Enders /\ m.of \in Created /\ Ending(m.todo, m.of)
  <2>1. /\ m.todo \in Seq(Steps)
        /\ \/ step = "finalize" /\ m.todo \in Ending4
           \/ /\ step = "release"
              /\ m.todo \in Looking \/ (m.todo \in Ending3 /\ skill[m.of].status # "recording") \/ (m.todo \in Cardless /\ Closed(m.of))
           \/ step = "emit" /\ (m.todo \in Looking \/ (m.todo \in Ending2 /\ Freed(m.of)))
           \/ step = "cancel" /\ m.todo \in Ending1 /\ Carded(m.of)
           \/ step = "recheck" /\ m.todo \in Looking
    BY <1>1, <1>10, EndingAt
  <2> QED
    BY <1>1, <1>10, <2>1 DEF StandsAt
<1> QED
  BY <1>1, <1>2, <1>3, <1>4, <1>5, <1>6, <1>7, <1>8, <1>9, <1>10 DEF ActorInv

-----------------------------------------------------------------------------
(* How the actors move *)

Acts == [doing : {"none", "start", "get", "stop", "save", "remove", "expire"},
         of : {0} \cup Sessions, lease : ControlLeases, todo : Seq(Steps)]

LEMMA ActsAre ==
  ASSUME TeachingTypeOK
  PROVE  /\ AtRest \in Acts
         /\ \A a \in Actors : act[a] \in Acts
BY TeachingAssumption DEF TeachingTypeOK, Acts, AtRest, ControlLeases

\* a goes on with these steps, and nobody else moves.
GoesOn(a, steps) ==
  /\ act' \in [Actors -> Acts]
  /\ \A b \in Actors : b # a => act'[b] = act[b]
  /\ steps = <<>> => act'[a] = AtRest
  /\ steps # <<>> => /\ act'[a].todo = steps /\ act'[a].doing = act[a].doing
                     /\ act'[a].of = act[a].of /\ act'[a].lease = act[a].lease

LEMMA GoingOn ==
  ASSUME TeachingTypeOK, NEW a \in Actors, NEW steps \in Seq(Steps), Going(a, steps)
  PROVE  GoesOn(a, steps)
<1> DEFINE m == IF steps = <<>> THEN AtRest ELSE [act[a] EXCEPT !.todo = steps]
<1>1. act \in [Actors -> Acts] /\ AtRest \in Acts /\ act[a] \in Acts
  BY ActsAre DEF TeachingTypeOK, Acts
<1>2. act' = [act EXCEPT ![a] = m]
  BY DEF Going
<1>3. m \in Acts
  BY <1>1 DEF Acts
<1>4. act'[a] = m /\ act' \in [Actors -> Acts] /\ \A b \in Actors : b # a => act'[b] = act[b]
  BY <1>1, <1>2, <1>3
<1>5. steps # <<>> => /\ m.todo = steps /\ m.doing = act[a].doing
                      /\ m.of = act[a].of /\ m.lease = act[a].lease
  BY <1>1 DEF Acts
<1> QED
  BY <1>4, <1>5 DEF GoesOn

LEMMA GoesTail ==
  ASSUME TeachingTypeOK, NEW a \in Actors, act[a].todo # <<>>, Goes(a)
  PROVE  GoesOn(a, Tail(act[a].todo))
<1>1. act[a].todo \in Seq(Steps)
  BY ActsAre DEF Acts
<1>2. Tail(act[a].todo) \in Seq(Steps)
  BY <1>1
<1> QED
  BY <1>2, GoingOn DEF Goes

\* a begins something.
BeginsWith(a, what, s, lease, steps) ==
  /\ act' \in [Actors -> Acts] /\ act[a] = AtRest
  /\ \A b \in Actors : b # a => act'[b] = act[b]
  /\ act'[a].doing = what /\ act'[a].of = s /\ act'[a].lease = lease /\ act'[a].todo = steps

LEMMA Begun ==
  ASSUME TeachingTypeOK, NEW a \in Actors, NEW s \in {0} \cup Sessions, NEW lease \in ControlLeases,
         NEW what \in {"none", "start", "get", "stop", "save", "remove", "expire"},
         NEW steps \in Seq(Steps), Begins(a, what, s, lease, steps)
  PROVE  BeginsWith(a, what, s, lease, steps)
<1> DEFINE m == [doing |-> what, of |-> s, lease |-> lease, todo |-> steps]
<1>1. act \in [Actors -> Acts] /\ act' = [act EXCEPT ![a] = m] /\ act[a] = AtRest
  BY DEF TeachingTypeOK, Acts, Begins
<1>2. m \in Acts
  BY DEF Acts
<1>3. act'[a] = m /\ act' \in [Actors -> Acts] /\ \A b \in Actors : b # a => act'[b] = act[b]
  BY <1>1, <1>2
<1> QED
  BY <1>1, <1>3 DEF BeginsWith

\* A step keeps the invariant when it changes the world only forward, leaves whoever moves in
\* order, and lets go of no session that still needs tending.
LEMMA KeptTogether ==
  ASSUME TeachInv, World, TeachingTypeOK', LeasesGiven', due' \subseteq Created',
         untimed \subseteq untimed',
         \A b \in Actors : act'[b] = act[b] \/ (ActorInv(b)' /\ \A s \in Sessions : Busy(b, s) => Tended(s)'),
         \A s \in Sessions : skill[s].status = "none" => Tended(s)',
         \A s \in timer : Tended(s)'
  PROVE  TeachInv'
<1>1. \A b \in Actors : ActorInv(b)'
  BY OthersStand
<1>2. ASSUME NEW s \in Sessions PROVE Tended(s)'
  <2>1. Tended(s)
    BY DEF TeachInv
  <2>2. CASE skill[s].status = "none"
    BY <2>2
  <2>3. CASE skill[s].status \in {"saved", "gone"}
    BY <2>3 DEF World, Closed, Tended, Settled
  <2>4. CASE skill[s].status = "draft" /\ card[s] # "none" /\ screen # skill[s].lease
    <3>1. s \in Created /\ Carded(s)
      BY <2>4 DEF Created, Carded
    <3> QED
      BY <3>1, WorldFreed DEF Carded, Closed, Tended, Settled
  <2>5. CASE s \in timer \cup untimed
    BY <2>5 DEF Tended
  <2>6. CASE \E b \in Actors : Busy(b, s)
    <3>1. PICK b \in Actors : Busy(b, s)
      BY <2>6
    <3>2. CASE act'[b] = act[b]
      BY <3>1, <3>2 DEF Tended, Busy
    <3> QED
      BY <3>1, <3>2
  <2> QED
    BY <2>1, <2>2, <2>3, <2>4, <2>5, <2>6 DEF Tended, Settled
<1> QED
  BY <1>1, <1>2 DEF TeachInv

LEMMA NoSessionIsZero == 0 \notin Sessions
BY DEF Sessions

LEMMA RestBusy == ASSUME NEW a, act[a] = AtRest PROVE \A s \in Sessions : ~Busy(a, s)
BY RestIs DEF Busy

LEMMA TendedNone == ASSUME UNCHANGED skill PROVE \A s \in Sessions : skill[s].status = "none" => Tended(s)'
BY DEF Tended, Settled

LEMMA TendedTimer == \A s \in timer' : Tended(s)'
BY DEF Tended

LEMMA SameWorld ==
  ASSUME TeachInv, UNCHANGED <<skill, card, screen, controls>>
  PROVE  World /\ LeasesGiven' /\ Created' = Created
<1>1. controls \in Nat
  BY DEF TeachInv, TeachingTypeOK, ControlLeases
<1>2. UNCHANGED skill /\ UNCHANGED card /\ UNCHANGED screen /\ UNCHANGED controls
  OBVIOUS
<1>3. Created' = Created
  BY <1>2 DEF Created
<1>4. LeasesGiven'
  BY <1>2, <1>3 DEF TeachInv, LeasesGiven
<1>5. World
  BY <1>1, <1>2 DEF World, Created, Closed
<1> QED
  BY <1>3, <1>4, <1>5

LEMMA SameEnding ==
  ASSUME UNCHANGED <<skill, card, screen>>, NEW t, NEW s, Ending(t, s)
  PROVE  Ending(t, s)'
<1>1. UNCHANGED skill /\ UNCHANGED card /\ UNCHANGED screen
  OBVIOUS
<1> QED
  BY <1>1 DEF Ending, Freed, Carded, Closed

LEMMA EnderStands ==
  ASSUME NEW a \in Actors, NEW t, NEW s, act'[a].doing \in Enders, act'[a].of = s, act'[a].todo = t,
         s \in Created', Ending(t, s)'
  PROVE  ActorInv(a)'
<1>1. Ending(act[a].todo, act[a].of)'
  BY DEF Ending, Freed, Carded, Closed
<1> QED
  BY <1>1 DEF ActorInv

\* Only a moves, and it had no session in its care.
LEMMA QuietStep ==
  ASSUME TeachInv, NEW a \in Actors, act' \in [Actors -> Acts],
         \A b \in Actors : b # a => act'[b] = act[b], ActorInv(a)', \A s \in Sessions : ~Busy(a, s),
         UNCHANGED <<skill, card, timer, due, screen, controls, untimed, hitches>>
  PROVE  TeachInv'
<1>1. /\ UNCHANGED <<skill, card, screen, controls>> /\ UNCHANGED skill /\ UNCHANGED timer /\ UNCHANGED due
      /\ UNCHANGED untimed
  OBVIOUS
<1>2. TeachingTypeOK'
  BY DEF TeachInv, TeachingTypeOK, Acts
<1>3. World /\ LeasesGiven' /\ Created' = Created
  BY <1>1, SameWorld
<1>4. /\ \A s \in timer : Tended(s)'
      /\ \A s \in Sessions : skill[s].status = "none" => Tended(s)'
  BY <1>1, TendedTimer, TendedNone
<1>5. due' \subseteq Created'
  BY <1>1, <1>3 DEF TeachInv
<1>6. \A b \in Actors : act'[b] = act[b] \/ (ActorInv(b)' /\ \A s \in Sessions : Busy(b, s) => Tended(s)')
  OBVIOUS
<1>7. untimed \subseteq untimed'
  BY <1>1
<1> QED
  BY <1>2, <1>3, <1>4, <1>5, <1>6, <1>7, KeptTogether

\* A request or a job begins to end s.
LEMMA BeginsEnding ==
  ASSUME TeachInv, NEW a \in Actors, NEW what \in Enders, NEW s \in Created, NEW t, Ending(t, s),
         BeginsWith(a, what, s, 0, t),
         UNCHANGED <<skill, card, timer, due, screen, controls, untimed, hitches>>
  PROVE  TeachInv'
<1>1. UNCHANGED <<skill, card, screen>> /\ UNCHANGED <<skill, card, screen, controls>>
  OBVIOUS
<1>2. Ending(t, s)' /\ Created' = Created
  BY <1>1, SameEnding, SameWorld
<1>3. ActorInv(a)'
  BY <1>2, EnderStands DEF BeginsWith
<1>4. \A x \in Sessions : ~Busy(a, x)
  BY RestBusy DEF BeginsWith
<1> QED
  BY <1>3, <1>4, QuietStep DEF BeginsWith

-----------------------------------------------------------------------------
(* What the end of a session consists of *)

LEMMA Snoced ==
  ASSUME NEW T, NEW u \in Seq(T), NEW e \in T, NEW w \in Seq(T), Len(w) = Len(u) + 1,
         \A i \in 1 .. Len(u) : w[i] = u[i], w[Len(u) + 1] = e
  PROVE  u \o <<e>> = w
OBVIOUS

LEMMA ReleasedThenCancelled == <<"release", "emit">> \o <<"cancel">> = <<"release", "emit", "cancel">>
<1>1. \A u, w \in Seq(Steps) :
        /\ Len(w) = Len(u) + 1 /\ \A i \in 1 .. Len(u) : w[i] = u[i]
        /\ w[Len(u) + 1] = "cancel"
        => u \o <<"cancel">> = w
  BY Snoced, StepsAre
<1>2. <<"release", "emit">> \in Seq(Steps) /\ <<"release", "emit", "cancel">> \in Seq(Steps)
  BY TwoSteps, ThreeSteps
<1>3. /\ Len(<<"release", "emit", "cancel">>) = Len(<<"release", "emit">>) + 1
      /\ \A i \in 1 .. Len(<<"release", "emit">>) : <<"release", "emit", "cancel">>[i] = <<"release", "emit">>[i]
      /\ <<"release", "emit", "cancel">>[Len(<<"release", "emit">>) + 1] = "cancel"
  OBVIOUS
<1> QED
  BY <1>1, <1>2, <1>3

LEMMA KnownEnding ==
  /\ \A s : Ending(Completion, s)
  /\ Completion \in Seq(Steps) /\ Completion # <<>>
BY FourSteps DEF Completion, Ending, Ending4, With

LEMMA LookingLists ==
  /\ <<"release", "emit">> \in Looking /\ <<"release", "emit">> \o <<"recheck">> \in Looking
  /\ <<"release">> \in Looking /\ <<"release">> \o <<"recheck">> \in Looking
  /\ <<"recheck">> \in Looking
BY DEF Looking, With

LEMMA EndingLists ==
  ASSUME NEW t, NEW s, t \in Looking \cup Ending4
  PROVE  Ending(t, s) /\ t \in Seq(Steps)
BY Begun4, BegunLooking DEF Ending

LEMMA Statuses ==
  ASSUME TeachInv, NEW s \in Created
  PROVE  s \in Sessions /\ skill[s].status \in {"recording", "draft", "saved", "gone"}
BY DEF TeachInv, TeachingTypeOK, Created

LEMMA WhatExpires ==
  ASSUME TeachInv, NEW s \in Created
  PROVE  /\ skill[s].status = "recording" => ExpireSteps(s) \in {<<>>, Completion}
         /\ skill[s].status = "draft" => ExpireSteps(s) = <<"release", "emit">>
         /\ skill[s].status = "saved" => ExpireSteps(s) = <<"release">>
         /\ skill[s].status = "gone" => ExpireSteps(s) = <<>>
BY DEF ExpireSteps

LEMMA ExpireEnding ==
  ASSUME TeachInv, NEW s \in Created, ExpireSteps(s) # <<>>
  PROVE  ExpireSteps(s) \in Looking \cup Ending4
BY WhatExpires, Statuses, LookingLists DEF Completion, Ending4, With

LEMMA StopEnding ==
  ASSUME TeachInv, NEW s \in Created
  PROVE  ExpireSteps(s) \o <<"recheck">> \in Looking \cup Ending4
<1>1. <<>> \o <<"recheck">> = <<"recheck">>
  BY Alone, StepsAre
<1>2. Completion \o <<"recheck">> \in Ending4
  BY DEF Completion, Ending4, With
<1> QED
  BY <1>1, <1>2, WhatExpires, Statuses, LookingLists

LEMMA JobEnding ==
  ASSUME TeachInv, NEW s \in Created, skill[s].status # "recording",
         NEW t, t = ExpireSteps(s) \o <<"cancel">>
  PROVE  Ending(t, s) /\ t \in Seq(Steps)
<1>1. <<>> \o <<"cancel">> = <<"cancel">>
  BY Alone, StepsAre
<1>2. CASE skill[s].status = "draft"
  <2>1. t \in Ending3
    BY <1>2, WhatExpires, ReleasedThenCancelled DEF Ending3, With
  <2> QED
    BY <2>1, <1>2, Begun3 DEF Ending
<1>3. CASE skill[s].status = "saved"
  <2>1. t \in Cardless
    BY <1>3, WhatExpires DEF Cardless, Ending1, With
  <2> QED
    BY <2>1, <1>3, BegunCardless DEF Ending, Closed
<1>4. CASE skill[s].status = "gone"
  <2>1. t \in Ending1
    BY <1>1, <1>4, WhatExpires DEF Ending1, With
  <2> QED
    BY <2>1, <1>4, Begun1 DEF Ending, Carded, Closed
<1> QED
  BY <1>2, <1>3, <1>4, Statuses

LEMMA KnownIsCreated == ASSUME NEW s \in Sessions, Known(s) PROVE s \in Created
BY DEF Known, Created

-----------------------------------------------------------------------------
(* The steps: what begins *)

LEMMA StartTeachingKeeps ==
  ASSUME TeachInv, NEW q \in Requests, StartTeaching(q)
  PROVE  TeachInv'
<1>1. /\ TeachingTypeOK /\ screen \in 0 .. controls /\ controls \in 0 .. MaxControls /\ q \in Actors
      /\ Begins(q, "start", 0, screen, Start3) /\ UNCHANGED controls
  BY DEF TeachInv, TeachingTypeOK, Actors, StartTeaching, Start3, ControlLeases
<1>2. BeginsWith(q, "start", 0, screen, Start3)
  <2>1. Start3 \in Seq(Steps) /\ screen \in ControlLeases /\ 0 \in {0} \cup Sessions
    BY <1>1, ThreeSteps, TeachingAssumption DEF ControlLeases
  <2> QED
    BY <1>1, <2>1, Begun
<1>3. ActorInv(q)'
  BY <1>1, <1>2 DEF BeginsWith, ActorInv
<1>4. \A s \in Sessions : ~Busy(q, s)
  BY <1>2, RestBusy DEF BeginsWith
<1> QED
  BY <1>1, <1>2, <1>3, <1>4, QuietStep DEF BeginsWith, StartTeaching

LEMMA BegunEnding ==
  ASSUME TeachInv, NEW a \in Actors, NEW what \in Enders, NEW s \in Created, NEW t, Ending(t, s),
         t \in Seq(Steps), Begins(a, what, s, 0, t),
         UNCHANGED <<skill, card, timer, due, screen, controls, untimed, hitches>>
  PROVE  TeachInv'
<1>1. /\ TeachingTypeOK /\ s \in {0} \cup Sessions /\ 0 \in ControlLeases
      /\ what \in {"none", "start", "get", "stop", "save", "remove", "expire"}
  BY TeachingAssumption DEF TeachInv, Created, ControlLeases, Enders
<1>2. BeginsWith(a, what, s, 0, t)
  BY <1>1, Begun
<1> QED
  BY <1>2, BeginsEnding

LEMMA GetSkillKeeps ==
  ASSUME TeachInv, NEW q \in Requests, NEW s \in Sessions, GetSkill(q, s)
  PROVE  TeachInv'
<1>1. PICK t : t = ExpireSteps(s)
  OBVIOUS
<1>2. s \in Created /\ q \in Actors /\ Begins(q, "get", s, 0, t) /\ t # <<>>
  BY <1>1, KnownIsCreated DEF GetSkill, Actors, Begins
<1>3. Ending(t, s) /\ t \in Seq(Steps)
  BY <1>1, <1>2, ExpireEnding, EndingLists
<1> QED
  BY <1>2, <1>3, BegunEnding DEF GetSkill, Enders

LEMMA StopTeachingKeeps ==
  ASSUME TeachInv, NEW q \in Requests, NEW s \in Sessions, StopTeaching(q, s)
  PROVE  TeachInv'
<1>1. PICK t : t = ExpireSteps(s) \o <<"recheck">>
  OBVIOUS
<1>2. s \in Created /\ q \in Actors /\ Begins(q, "stop", s, 0, t)
  BY <1>1, KnownIsCreated DEF StopTeaching, Actors
<1>3. Ending(t, s) /\ t \in Seq(Steps)
  BY <1>1, <1>2, StopEnding, EndingLists
<1> QED
  BY <1>2, <1>3, BegunEnding DEF StopTeaching, Enders

LEMMA FireExpiryKeeps ==
  ASSUME TeachInv, NEW w \in Timers, NEW s \in Sessions, FireExpiry(w, s)
  PROVE  TeachInv'
<1>1. PICK t : t = IF skill[s].status = "recording" THEN Completion ELSE ExpireSteps(s) \o <<"cancel">>
  OBVIOUS
<1>2. s \in Created /\ w \in Actors /\ Begins(w, "expire", s, 0, t)
  BY <1>1 DEF FireExpiry, Actors, TeachInv
<1>3. Ending(t, s) /\ t \in Seq(Steps)
  BY <1>1, <1>2, JobEnding, KnownEnding
<1> QED
  BY <1>2, <1>3, BegunEnding DEF FireExpiry, Enders

LEMMA RemoveKeeps ==
  ASSUME TeachInv, NEW q \in Requests, NEW s \in Sessions, Remove(q, s)
  PROVE  TeachInv'
<1>1. PICK t : t = IF skill[s].status = "recording" THEN Remove3 ELSE Remove1
  OBVIOUS
<1>2. /\ TeachingTypeOK /\ s \in Created /\ q \in Actors /\ Begins(q, "remove", s, 0, t)
      /\ UNCHANGED <<skill, card, screen, controls>>
  BY <1>1, KnownIsCreated DEF TeachInv, Remove, Actors, Remove3, Remove1
<1>3. t \in Seq(Steps) /\ t \in {Remove3, Remove2, Remove1} /\ 0 \in ControlLeases /\ s \in {0} \cup Sessions
  BY <1>1, ThreeSteps, OneStep, TeachingAssumption DEF ControlLeases
<1>4. BeginsWith(q, "remove", s, 0, t)
  BY <1>2, <1>3, Begun
<1>5. ActorInv(q)'
  <2>1. s \in Created'
    BY <1>2, SameWorld
  <2> QED
    BY <1>3, <1>4, <2>1 DEF BeginsWith, ActorInv, Remove3, Remove2, Remove1
<1>6. \A x \in Sessions : ~Busy(q, x)
  BY <1>4, RestBusy DEF BeginsWith
<1> QED
  BY <1>2, <1>4, <1>5, <1>6, QuietStep DEF BeginsWith, Remove

LEMMA SaveKeeps ==
  ASSUME TeachInv, NEW q \in Requests, NEW s \in Sessions, Save(q, s)
  PROVE  TeachInv'
<1>1. /\ TeachingTypeOK /\ q \in Actors /\ skill[s].status \in {"draft", "saved"}
      /\ Begins(q, "save", s, 0, <<"card">>)
      /\ skill' = [skill EXCEPT ![s].status = "saved"]
  BY DEF TeachInv, Save, Actors
<1>2. /\ UNCHANGED card /\ UNCHANGED timer /\ UNCHANGED due /\ UNCHANGED screen /\ UNCHANGED controls
      /\ UNCHANGED untimed /\ UNCHANGED hitches
  BY DEF Save
<1>3. BeginsWith(q, "save", s, 0, <<"card">>)
  <2>1. <<"card">> \in Seq(Steps) /\ 0 \in ControlLeases /\ s \in {0} \cup Sessions
    BY OneStep, StepsAre, TeachingAssumption DEF ControlLeases
  <2> QED
    BY <1>1, <2>1, Begun
<1>4. /\ skill'[s].status = "saved" /\ \A x \in Sessions : skill'[x].lease = skill[x].lease
      /\ \A x \in Sessions : x # s => skill'[x] = skill[x]
      /\ skill' \in [Sessions -> [status : {"none", "recording", "draft", "saved", "gone"}, lease : ControlLeases]]
  BY <1>1 DEF TeachingTypeOK
<1>5. TeachingTypeOK'
  BY <1>1, <1>2, <1>3, <1>4 DEF TeachingTypeOK, BeginsWith, Acts
<1>6. World /\ Created' = Created
  BY <1>1, <1>2, <1>4 DEF World, Created, Closed, TeachingTypeOK, ControlLeases
<1>7. LeasesGiven'
  BY <1>2, <1>4, <1>6 DEF TeachInv, LeasesGiven, Created
<1>8. ActorInv(q)'
  BY <1>1, <1>3, <1>6 DEF BeginsWith, ActorInv, Created
<1>9. \A b \in Actors : act'[b] = act[b] \/ (ActorInv(b)' /\ \A x \in Sessions : Busy(b, x) => Tended(x)')
  BY <1>3, <1>8, RestBusy DEF BeginsWith
<1>10. \A x \in Sessions : skill[x].status = "none" => Tended(x)'
  BY <1>1, <1>4 DEF Tended, Settled
<1>11. (\A x \in timer : Tended(x)') /\ due' \subseteq Created' /\ untimed \subseteq untimed'
  BY <1>2, <1>6, TendedTimer DEF TeachInv
<1> QED
  BY <1>5, <1>6, <1>7, <1>9, <1>10, <1>11, KeptTogether

-----------------------------------------------------------------------------
(* The steps: what goes on *)

\* Only a moves.
LEMMA StepKept ==
  ASSUME TeachInv, World, TeachingTypeOK', LeasesGiven', NEW a \in Actors, ActorInv(a)',
         \A b \in Actors : b # a => act'[b] = act[b],
         \A s \in Sessions : Busy(a, s) => Tended(s)',
         \A s \in Sessions : skill[s].status = "none" => Tended(s)',
         \A s \in timer : Tended(s)', UNCHANGED due, untimed \subseteq untimed'
  PROVE  TeachInv'
<1>1. due' \subseteq Created'
  BY WorldCreated DEF TeachInv
<1>2. \A b \in Actors : act'[b] = act[b] \/ (ActorInv(b)' /\ \A s \in Sessions : Busy(b, s) => Tended(s)')
  OBVIOUS
<1> QED
  BY <1>1, <1>2, KeptTogether

LEMMA EnderGoesOn ==
  ASSUME NEW a \in Actors, NEW t, NEW s, GoesOn(a, t), act[a].doing \in Enders, act[a].of = s,
         s \in Created', t = <<>> \/ Ending(t, s)'
  PROVE  ActorInv(a)' /\ \A x \in Sessions : ~Busy(a, x)
<1>1. \A x \in Sessions : ~Busy(a, x)
  BY DEF Enders, Busy
<1>2. CASE t = <<>>
  BY <1>1, <1>2 DEF GoesOn, ActorInv, AtRest
<1>3. CASE t # <<>>
  <2>1. act'[a].doing \in Enders /\ act'[a].of = s /\ act'[a].todo = t /\ Ending(t, s)'
    BY <1>3 DEF GoesOn
  <2> QED
    BY <1>1, <2>1, EnderStands
<1> QED
  BY <1>2, <1>3

LEMMA RecheckKeeps ==
  ASSUME TeachInv, NEW a \in Actors, Recheck(a)
  PROVE  TeachInv'
<1>1. PICK s : s = act[a].of
  OBVIOUS
<1>2. PICK t : t = CASE skill[s].status = "recording" -> Completion
                     [] skill[s].status \in {"draft", "saved"} -> <<"release">>
                     [] OTHER -> <<>>
  OBVIOUS
<1>3. act[a].doing \in Enders /\ s \in Created
  <2>1. At(a, "recheck") /\ "recheck" \in Steps
    BY StepsAre DEF Recheck
  <2>2. StandsAt(a, "recheck")
    BY <2>1, Stands
  <2> QED
    BY <1>1, <2>2 DEF StandsAt
<1>4. UNCHANGED <<skill, card, screen>> /\ UNCHANGED <<skill, card, screen, controls>> /\ TeachingTypeOK
  BY DEF Recheck, TeachInv
<1>5. t \in Seq(Steps) /\ (t = <<>> \/ Ending(t, s))
  <2>1. CASE skill[s].status = "recording"
    BY <1>2, <2>1, KnownEnding
  <2>2. CASE skill[s].status \in {"draft", "saved"}
    BY <1>2, <2>2, LookingLists, EndingLists
  <2>3. CASE skill[s].status = "gone"
    <3>1. t = <<>>
      BY <1>2, <2>3
    <3> QED
      BY <3>1
  <2> QED
    BY <2>1, <2>2, <2>3, <1>3, Statuses
<1>6. Going(a, t)
  BY <1>1, <1>2 DEF Recheck
<1>7. GoesOn(a, t)
  BY <1>4, <1>5, <1>6, GoingOn
<1>8. s \in Created' /\ (t = <<>> \/ Ending(t, s)')
  BY <1>3, <1>4, <1>5, SameWorld, SameEnding
<1>9. ActorInv(a)' /\ \A x \in Sessions : ~Busy(a, x)
  BY <1>1, <1>3, <1>7, <1>8, EnderGoesOn
<1> QED
  BY <1>7, <1>9, QuietStep DEF GoesOn, Recheck

LEMMA UpdateCardKeeps ==
  ASSUME TeachInv, NEW a \in Actors, UpdateCard(a)
  PROVE  TeachInv'
<1>1. At(a, "card") /\ "card" \in Steps /\ Goes(a) /\ TeachingTypeOK
  BY StepsAre DEF UpdateCard, TeachInv
<1>2. act[a].doing = "save" /\ act[a].of \in Created /\ act[a].todo = <<"card">> /\ act[a].todo # <<>>
  BY <1>1, Stands DEF StandsAt
<1>3. GoesOn(a, <<>>)
  <2>1. Tail(<<"card">>) = <<>>
    BY OneStep, StepsAre
  <2> QED
    BY <1>1, <1>2, <2>1, GoesTail
<1>4. /\ UNCHANGED skill /\ UNCHANGED timer /\ UNCHANGED due /\ UNCHANGED screen /\ UNCHANGED controls
      /\ UNCHANGED untimed /\ UNCHANGED hitches
  BY DEF UpdateCard
<1>5. /\ card' \in [Sessions -> {"none", "draft", "saved"}]
      /\ \A s \in Sessions : card[s] # "none" => card'[s] # "none"
  BY <1>1 DEF UpdateCard, TeachingTypeOK
<1>6. TeachingTypeOK'
  BY <1>1, <1>3, <1>4, <1>5 DEF TeachingTypeOK, GoesOn, Acts
<1>7. World /\ LeasesGiven'
  BY <1>1, <1>4, <1>5 DEF World, Created, Closed, TeachingTypeOK, ControlLeases, TeachInv, LeasesGiven
<1>8. ActorInv(a)' /\ \A x \in Sessions : ~Busy(a, x)
  BY <1>2, <1>3 DEF GoesOn, ActorInv, AtRest, Busy
<1>9. /\ \A x \in Sessions : skill[x].status = "none" => Tended(x)'
      /\ \A x \in timer : Tended(x)'
  BY <1>4, TendedNone, TendedTimer
<1>10. (\A b \in Actors : b # a => act'[b] = act[b]) /\ untimed \subseteq untimed'
  BY <1>3, <1>4 DEF GoesOn
<1> QED
  BY <1>4, <1>6, <1>7, <1>8, <1>9, <1>10, StepKept

\* Only s goes on, towards its end.
LEMMA SessionGoesOn ==
  ASSUME TeachInv, NEW s \in Created, UNCHANGED card, UNCHANGED screen, UNCHANGED controls,
         \A x \in Sessions : skill'[x].lease = skill[x].lease,
         \A x \in Sessions : x # s => skill'[x] = skill[x],
         skill'[s].status \in {"draft", "saved", "gone"}, Closed(s) => Closed(s)'
  PROVE  World /\ Created' = Created /\ LeasesGiven'
<1>1. controls \in Nat
  BY DEF TeachInv, TeachingTypeOK, ControlLeases
<1>2. \A x \in Sessions : x # s => skill'[x].status = skill[x].status
  OBVIOUS
<1>3. Created' = Created
  BY <1>2 DEF Created
<1>4. LeasesGiven'
  BY <1>3 DEF TeachInv, LeasesGiven, Created
<1>5. /\ \A x \in Created : skill'[x].lease = skill[x].lease /\ skill'[x].status # "none"
      /\ \A x \in Created : skill'[x].status = "recording" => skill[x].status = "recording"
      /\ \A x \in Sessions : skill[x].status = "draft" => skill'[x].status \in {"draft", "saved", "gone"}
  BY <1>2 DEF Created
<1>6. \A x \in Sessions : Closed(x) => Closed(x)'
  BY <1>2 DEF Closed
<1> QED
  BY <1>1, <1>3, <1>4, <1>5, <1>6 DEF World

LEMMA DeleteKeeps ==
  ASSUME TeachInv, NEW a \in Actors, Delete(a)
  PROVE  TeachInv'
<1>1. At(a, "delete") /\ "delete" \in Steps /\ Goes(a) /\ TeachingTypeOK
  BY StepsAre DEF Delete, TeachInv
<1>2. act[a].doing = "remove" /\ act[a].of \in Created /\ act[a].todo = Remove1 /\ act[a].todo # <<>>
  BY <1>1, Stands DEF StandsAt
<1>3. GoesOn(a, <<>>)
  BY <1>1, <1>2, OneStep, GoesTail
<1>4. PICK s : s = act[a].of
  OBVIOUS
<1>5. /\ UNCHANGED card /\ UNCHANGED timer /\ UNCHANGED due /\ UNCHANGED screen /\ UNCHANGED controls
      /\ UNCHANGED untimed /\ UNCHANGED hitches
  BY DEF Delete
<1>6. /\ s \in Sessions /\ skill'[s].status = "gone" /\ \A x \in Sessions : skill'[x].lease = skill[x].lease
      /\ \A x \in Sessions : x # s => skill'[x] = skill[x]
      /\ skill' \in [Sessions -> [status : {"none", "recording", "draft", "saved", "gone"}, lease : ControlLeases]]
  BY <1>1, <1>2, <1>4 DEF Delete, TeachingTypeOK, Created
<1>7. TeachingTypeOK'
  BY <1>1, <1>3, <1>5, <1>6 DEF TeachingTypeOK, GoesOn, Acts
<1>8. World /\ Created' = Created /\ LeasesGiven'
  BY <1>2, <1>4, <1>5, <1>6, SessionGoesOn DEF Closed
<1>9. ActorInv(a)' /\ \A x \in Sessions : Busy(a, x) => Tended(x)'
  BY <1>3, <1>4, <1>6 DEF GoesOn, ActorInv, AtRest, Busy, Tended, Settled
<1>10. /\ \A x \in Sessions : skill[x].status = "none" => Tended(x)'
       /\ \A x \in timer : Tended(x)'
  BY <1>5, <1>6, TendedTimer DEF Tended, Settled
<1>11. (\A b \in Actors : b # a => act'[b] = act[b]) /\ untimed \subseteq untimed'
  BY <1>3, <1>5 DEF GoesOn
<1> QED
  BY <1>5, <1>7, <1>8, <1>9, <1>10, <1>11, StepKept

LEMMA EnqueueExpiryKeeps ==
  ASSUME TeachInv, NEW a \in Actors, EnqueueExpiry(a)
  PROVE  TeachInv'
<1>1. At(a, "enqueue") /\ "enqueue" \in Steps /\ Goes(a) /\ TeachingTypeOK
  BY StepsAre DEF EnqueueExpiry, TeachInv
<1>2. act[a].doing = "start" /\ act[a].of \in Created /\ act[a].todo = Start1 /\ act[a].todo # <<>>
  BY <1>1, Stands DEF StandsAt
<1>3. GoesOn(a, <<>>)
  BY <1>1, <1>2, OneStep, GoesTail
<1>4. /\ UNCHANGED skill /\ UNCHANGED card /\ UNCHANGED due /\ UNCHANGED screen /\ UNCHANGED controls
      /\ UNCHANGED untimed /\ UNCHANGED hitches /\ UNCHANGED <<skill, card, screen, controls>>
      /\ timer' = timer \cup {act[a].of}
  BY DEF EnqueueExpiry
<1>5. TeachingTypeOK'
  BY <1>1, <1>2, <1>3, <1>4 DEF TeachingTypeOK, GoesOn, Acts, Created
<1>6. World /\ LeasesGiven'
  BY <1>4, SameWorld
<1>7. ActorInv(a)' /\ \A x \in Sessions : Busy(a, x) => Tended(x)'
  BY <1>3, <1>4 DEF GoesOn, ActorInv, AtRest, Busy, Tended
<1>8. /\ \A x \in Sessions : skill[x].status = "none" => Tended(x)'
      /\ \A x \in timer : Tended(x)'
  BY <1>4, TendedTimer, TendedNone
<1>9. (\A b \in Actors : b # a => act'[b] = act[b]) /\ untimed \subseteq untimed'
  BY <1>3, <1>4 DEF GoesOn
<1> QED
  BY <1>4, <1>5, <1>6, <1>7, <1>8, <1>9, StepKept

LEMMA FinalizeKeeps ==
  ASSUME TeachInv, NEW a \in Actors, Finalize(a)
  PROVE  TeachInv'
<1>1. At(a, "finalize") /\ "finalize" \in Steps /\ TeachingTypeOK
  BY StepsAre DEF Finalize, TeachInv
<1>2. act[a].doing \in Enders /\ act[a].of \in Created /\ act[a].todo \in Ending4
  BY <1>1, Stands DEF StandsAt
<1>3. PICK s : s = act[a].of
  OBVIOUS
<1>4. PICK t : t = CASE skill[s].status = "gone" -> <<>>
                     [] skill[s].status = "saved" -> <<"release">> \o AfterCard(act[a].todo)
                     [] OTHER -> Tail(act[a].todo)
  OBVIOUS
<1>5. s \in Sessions /\ s \in Created /\ skill[s].status \in {"recording", "draft", "saved", "gone"}
  BY <1>2, <1>3, Statuses
<1>6. /\ UNCHANGED card /\ UNCHANGED timer /\ UNCHANGED due /\ UNCHANGED screen /\ UNCHANGED controls
      /\ UNCHANGED untimed /\ UNCHANGED hitches
  BY DEF Finalize
<1>7. /\ skill'[s].status = (IF skill[s].status = "recording" THEN "draft" ELSE skill[s].status)
      /\ \A x \in Sessions : skill'[x].lease = skill[x].lease
      /\ \A x \in Sessions : x # s => skill'[x] = skill[x]
      /\ skill' \in [Sessions -> [status : {"none", "recording", "draft", "saved", "gone"}, lease : ControlLeases]]
  BY <1>1, <1>3, <1>5 DEF Finalize, TeachingTypeOK
<1>8. World /\ Created' = Created /\ LeasesGiven'
  BY <1>5, <1>6, <1>7, SessionGoesOn DEF Closed
<1>9. t \in Seq(Steps) /\ (t = <<>> \/ Ending(t, s)')
  <2>1. CASE skill[s].status = "gone"
    <3>1. t = <<>>
      BY <1>4, <2>1
    <3> QED
      BY <3>1
  <2>2. CASE skill[s].status = "saved"
    <3>1. t = <<"release">> \o AfterCard(act[a].todo)
      BY <1>4, <2>2
    <3>2. AfterCard(act[a].todo) \in Ending1
      BY <1>2, Begun4, Begun3, Begun2 DEF AfterCard
    <3>3. t \in Cardless /\ Closed(s)'
      BY <1>7, <2>2, <3>1, <3>2 DEF Cardless, Closed
    <3> QED
      BY <3>3, BegunCardless DEF Ending
  <2>3. CASE skill[s].status \in {"recording", "draft"}
    <3>1. t = Tail(act[a].todo)
      BY <1>4, <2>3
    <3>2. t \in Ending3 /\ skill'[s].status # "recording"
      BY <1>2, <1>7, <2>3, <3>1, Begun4
    <3> QED
      BY <3>2, Begun3 DEF Ending
  <2> QED
    BY <1>5, <2>1, <2>2, <2>3
<1>10. GoesOn(a, t)
  <2>1. Going(a, t)
    BY <1>3, <1>4 DEF Finalize
  <2> QED
    BY <1>1, <1>9, <2>1, GoingOn
<1>11. ActorInv(a)' /\ \A x \in Sessions : ~Busy(a, x)
  BY <1>2, <1>3, <1>5, <1>8, <1>9, <1>10, EnderGoesOn
<1>12. /\ \A x \in Sessions : skill[x].status = "none" => Tended(x)'
       /\ \A x \in timer : Tended(x)'
  BY <1>5, <1>6, <1>7, TendedTimer DEF Tended, Settled
<1>13. (\A b \in Actors : b # a => act'[b] = act[b]) /\ untimed \subseteq untimed'
  BY <1>6, <1>10 DEF GoesOn
<1> QED
  BY <1>1, <1>6, <1>7, <1>8, <1>10, <1>11, <1>12, <1>13, StepKept DEF TeachingTypeOK, GoesOn, Acts

LEMMA GiveBackKeeps ==
  ASSUME TeachInv, NEW a \in Actors, GiveBack(a)
  PROVE  TeachInv'
<1>1. At(a, "release") /\ "release" \in Steps /\ Goes(a) /\ TeachingTypeOK
  BY StepsAre DEF GiveBack, TeachInv
<1>2. StandsAt(a, "release") /\ act[a].todo \in Seq(Steps) /\ act[a].todo # <<>>
  BY <1>1, Stands
<1>3. PICK s : s = act[a].of
  OBVIOUS
<1>4. PICK t : t = Tail(act[a].todo)
  OBVIOUS
<1>5. s \in Created /\ s \in Sessions /\ GoesOn(a, t)
  BY <1>1, <1>2, <1>3, <1>4, GoesTail DEF StandsAt, Created
<1>6. /\ UNCHANGED skill /\ UNCHANGED card /\ UNCHANGED timer /\ UNCHANGED due /\ UNCHANGED controls
      /\ UNCHANGED untimed /\ UNCHANGED hitches
      /\ screen' = (IF screen = skill[s].lease THEN 0 ELSE screen)
  BY <1>3 DEF GiveBack
<1>7. screen \in 0 .. controls /\ controls \in Nat /\ skill[s].lease \in 1 .. controls
  BY <1>1, <1>5 DEF TeachInv, LeasesGiven, TeachingTypeOK, ControlLeases
<1>8. screen' \in {screen, 0} /\ screen' \in 0 .. controls' /\ screen' # skill'[s].lease
  BY <1>6, <1>7
<1>9. TeachingTypeOK'
  BY <1>1, <1>5, <1>6, <1>8 DEF TeachingTypeOK, GoesOn, Acts
<1>10. World /\ Created' = Created /\ LeasesGiven'
  BY <1>6, <1>7, <1>8 DEF World, Created, Closed, TeachInv, LeasesGiven
<1>11. ActorInv(a)' /\ \A x \in Sessions : Busy(a, x) => Tended(x)'
  <2>1. CASE act[a].doing = "remove" /\ act[a].todo = Remove2
    <3>1. t = Remove1 /\ t # <<>>
      BY <1>4, <2>1, TwoSteps, OneStep
    <3>2. act'[a].doing = "remove" /\ act'[a].of = s /\ act'[a].todo = Remove1
      BY <1>3, <1>5, <2>1, <3>1 DEF GoesOn
    <3> QED
      BY <1>3, <1>5, <1>10, <3>2 DEF ActorInv, Busy, Tended, Remove3, Remove2, Remove1
  <2>2. CASE act[a].doing \in Enders
    <3>1. t = <<>> \/ Ending(t, s)'
      <4>1. CASE act[a].todo \in Looking
        BY <1>1, <1>4, <4>1, BegunLooking DEF Ending, At
      <4>2. CASE act[a].todo \in Ending3 /\ skill[s].status # "recording"
        <5>1. t \in Ending2
          BY <1>4, <4>2, Begun3
        <5>2. skill'[s].status \in {"draft", "saved", "gone"}
          BY <1>5, <1>6, <4>2, Statuses
        <5> QED
          BY <1>8, <5>1, <5>2 DEF Ending, Freed, Closed
      <4>3. CASE act[a].todo \in Cardless /\ Closed(s)
        BY <1>4, <1>6, <4>3, BegunCardless DEF Ending, Carded, Closed
      <4>4. \/ act[a].todo \in Looking
            \/ act[a].todo \in Ending3 /\ skill[s].status # "recording"
            \/ act[a].todo \in Cardless /\ Closed(s)
        BY <1>2, <1>3, <2>2 DEF StandsAt, Enders
      <4> QED
        BY <4>1, <4>2, <4>3, <4>4
    <3> QED
      BY <1>3, <1>5, <1>10, <2>2, <3>1, EnderGoesOn
  <2> QED
    BY <1>2, <2>1, <2>2 DEF StandsAt
<1>12. /\ \A x \in Sessions : skill[x].status = "none" => Tended(x)'
       /\ \A x \in timer : Tended(x)'
  BY <1>6, TendedNone, TendedTimer
<1>13. (\A b \in Actors : b # a => act'[b] = act[b]) /\ untimed \subseteq untimed'
  BY <1>5, <1>6 DEF GoesOn
<1> QED
  BY <1>6, <1>9, <1>10, <1>11, <1>12, <1>13, StepKept

LEMMA EmitCardKeeps ==
  ASSUME TeachInv, NEW a \in Actors, EmitCard(a)
  PROVE  TeachInv'
<1>1. At(a, "emit") /\ "emit" \in Steps /\ Goes(a) /\ TeachingTypeOK
  BY StepsAre DEF EmitCard, TeachInv
<1>2. StandsAt(a, "emit") /\ act[a].todo \in Seq(Steps) /\ act[a].todo # <<>>
  BY <1>1, Stands
<1>3. PICK s : s = act[a].of
  OBVIOUS
<1>4. PICK t : t = Tail(act[a].todo)
  OBVIOUS
<1>5. /\ act[a].doing \in Enders /\ s \in Created /\ s \in Sessions /\ GoesOn(a, t)
      /\ act[a].todo \in Looking \/ (act[a].todo \in Ending2 /\ Freed(s))
  BY <1>1, <1>2, <1>3, <1>4, GoesTail DEF StandsAt, Created
<1>6. /\ UNCHANGED skill /\ UNCHANGED timer /\ UNCHANGED due /\ UNCHANGED screen /\ UNCHANGED controls
      /\ UNCHANGED untimed /\ UNCHANGED hitches
  BY DEF EmitCard
<1>7. /\ card' \in [Sessions -> {"none", "draft", "saved"}] /\ card'[s] # "none"
      /\ \A x \in Sessions : card[x] # "none" => card'[x] # "none"
  BY <1>1, <1>3, <1>5 DEF EmitCard, TeachingTypeOK
<1>8. TeachingTypeOK'
  BY <1>1, <1>5, <1>6, <1>7 DEF TeachingTypeOK, GoesOn, Acts
<1>9. World /\ Created' = Created /\ LeasesGiven'
  BY <1>1, <1>6, <1>7 DEF World, Created, Closed, TeachingTypeOK, ControlLeases, TeachInv, LeasesGiven
<1>10. t = <<>> \/ Ending(t, s)'
  <2>1. CASE act[a].todo \in Looking
    BY <1>1, <1>4, <2>1, BegunLooking DEF Ending, At
  <2>2. CASE act[a].todo \in Ending2 /\ Freed(s)
    BY <1>4, <1>6, <1>7, <2>2, Begun2 DEF Ending, Carded, Freed, Closed
  <2> QED
    BY <1>5, <2>1, <2>2
<1>11. ActorInv(a)' /\ \A x \in Sessions : ~Busy(a, x)
  BY <1>3, <1>5, <1>9, <1>10, EnderGoesOn
<1>12. /\ \A x \in Sessions : skill[x].status = "none" => Tended(x)'
       /\ \A x \in timer : Tended(x)'
  BY <1>6, TendedNone, TendedTimer
<1>13. (\A b \in Actors : b # a => act'[b] = act[b]) /\ untimed \subseteq untimed'
  BY <1>5, <1>6 DEF GoesOn
<1> QED
  BY <1>6, <1>8, <1>9, <1>11, <1>12, <1>13, StepKept

LEMMA CancelExpiryKeeps ==
  ASSUME TeachInv, NEW a \in Actors, CancelExpiry(a)
  PROVE  TeachInv'
<1>1. At(a, "cancel") /\ "cancel" \in Steps /\ Goes(a) /\ TeachingTypeOK
  BY StepsAre DEF CancelExpiry, TeachInv
<1>2. StandsAt(a, "cancel") /\ act[a].todo \in Seq(Steps) /\ act[a].todo # <<>>
  BY <1>1, Stands
<1>3. PICK s : s = act[a].of
  OBVIOUS
<1>4. PICK t : t = Tail(act[a].todo)
  OBVIOUS
<1>5. s \in Created /\ s \in Sessions /\ GoesOn(a, t)
  BY <1>1, <1>2, <1>3, <1>4, GoesTail DEF StandsAt, Created
<1>6. /\ UNCHANGED skill /\ UNCHANGED card /\ UNCHANGED due /\ UNCHANGED screen /\ UNCHANGED controls
      /\ UNCHANGED untimed /\ UNCHANGED hitches /\ timer' = timer \ {s}
      /\ UNCHANGED <<skill, card, screen, controls>> /\ UNCHANGED <<skill, card, screen>>
  BY <1>3 DEF CancelExpiry
<1>7. TeachingTypeOK'
  BY <1>1, <1>5, <1>6 DEF TeachingTypeOK, GoesOn, Acts
<1>8. World /\ LeasesGiven' /\ Created' = Created
  BY <1>6, SameWorld
<1>9. ActorInv(a)' /\ Tended(s)' /\ \A x \in Sessions : Busy(a, x) => Tended(x)'
  <2>1. CASE act[a].doing = "remove" /\ act[a].todo = Remove3
    <3>1. t = Remove2 /\ t # <<>>
      BY <1>4, <2>1, ThreeSteps, TwoSteps
    <3>2. act'[a].doing = "remove" /\ act'[a].of = s /\ act'[a].todo = Remove2
      BY <1>3, <1>5, <2>1, <3>1 DEF GoesOn
    <3> QED
      BY <1>3, <1>5, <1>8, <3>2 DEF ActorInv, Busy, Tended, Remove3, Remove2, Remove1
  <2>2. CASE act[a].doing \in Enders /\ act[a].todo \in Ending1 /\ Carded(s)
    <3>1. t = <<>> \/ Ending(t, s)'
      BY <1>4, <2>2, Begun1 DEF Ending
    <3>2. Tended(s)'
      BY <1>6, <2>2 DEF Carded, Closed, Tended, Settled
    <3> QED
      BY <1>3, <1>5, <1>8, <2>2, <3>1, <3>2, EnderGoesOn
  <2> QED
    BY <1>2, <1>3, <2>1, <2>2 DEF StandsAt
<1>10. \A x \in Sessions : skill[x].status = "none" => Tended(x)'
  BY <1>6, TendedNone
<1>11. \A x \in timer : Tended(x)'
  BY <1>6, <1>9, TendedTimer
<1>12. (\A b \in Actors : b # a => act'[b] = act[b]) /\ untimed \subseteq untimed'
  BY <1>5, <1>6 DEF GoesOn
<1> QED
  BY <1>6, <1>7, <1>8, <1>9, <1>10, <1>11, <1>12, StepKept

LEMMA CreateSessionKeeps ==
  ASSUME TeachInv, NEW a \in Actors, CreateSession(a)
  PROVE  TeachInv'
<1>1. At(a, "create") /\ "create" \in Steps /\ TeachingTypeOK
  BY StepsAre DEF CreateSession, TeachInv
<1>2. /\ act[a].doing = "start" /\ act[a].of = 0 /\ act[a].todo = Start2
      /\ act[a].lease \in 1 .. controls
  BY <1>1, Stands DEF StandsAt
<1>3. /\ UNCHANGED card /\ UNCHANGED timer /\ UNCHANGED due /\ UNCHANGED screen /\ UNCHANGED controls
      /\ UNCHANGED untimed /\ UNCHANGED hitches
  BY DEF CreateSession
<1>4. \A x \in Sessions : ~Busy(a, x)
  BY <1>2, NoSessionIsZero DEF Busy
<1>5. CASE Recording # {}
  <2>1. Going(a, <<>>) /\ UNCHANGED skill /\ <<>> \in Seq(Steps)
    BY <1>5, OneStep, StepsAre DEF CreateSession
  <2>2. GoesOn(a, <<>>)
    BY <1>1, <2>1, GoingOn
  <2>3. ActorInv(a)'
    BY <2>2 DEF GoesOn, ActorInv, AtRest
  <2> QED
    BY <1>3, <1>4, <2>1, <2>2, <2>3, QuietStep DEF GoesOn
<1>6. CASE Recording = {}
  <2>1. PICK s \in Sessions :
          /\ skill[s].status = "none"
          /\ skill' = [skill EXCEPT ![s] = [status |-> "recording", lease |-> act[a].lease]]
          /\ act' = [act EXCEPT ![a].of = s, ![a].todo = Tail(@)]
    BY <1>6 DEF CreateSession
  <2>2. act[a] \in Acts /\ act \in [Actors -> Acts] /\ act[a].lease \in ControlLeases
    BY <1>1, ActsAre DEF TeachingTypeOK, Acts
  <2>3. Tail(act[a].todo) = Start1 /\ Start1 \in Seq(Steps)
    BY <1>2, TwoSteps, OneStep
  <2>4. /\ act'[a] = [act[a] EXCEPT !.of = s, !.todo = Start1]
        /\ \A b \in Actors : b # a => act'[b] = act[b]
    BY <2>1, <2>2, <2>3 DEF Acts
  <2>5. act'[a].doing = "start" /\ act'[a].of = s /\ act'[a].todo = Start1 /\ act'[a] \in Acts
    BY <1>2, <2>2, <2>3, <2>4 DEF Acts
  <2>6. act' \in [Actors -> Acts]
    BY <2>1, <2>2, <2>4, <2>5
  <2>7. /\ skill'[s].status = "recording" /\ skill'[s].lease = act[a].lease
        /\ \A x \in Sessions : x # s => skill'[x] = skill[x]
        /\ skill' \in [Sessions -> [status : {"none", "recording", "draft", "saved", "gone"}, lease : ControlLeases]]
    BY <1>1, <2>1, <2>2 DEF TeachingTypeOK
  <2>8. TeachingTypeOK'
    BY <1>1, <1>3, <2>6, <2>7 DEF TeachingTypeOK, Acts
  <2>9. \A x \in Sessions : skill[x].status # "none" => x # s /\ skill'[x] = skill[x]
    BY <2>1, <2>7
  <2>10. Created' = Created \cup {s}
    BY <2>7, <2>9 DEF Created
  <2>11. World
    <3>1. controls \in Nat
      BY <1>1 DEF TeachingTypeOK, ControlLeases
    <3>2. \A x \in Created : skill'[x] = skill[x]
      BY <2>9 DEF Created
    <3>3. \A x \in Sessions : Closed(x) => Closed(x)'
      BY <2>9 DEF Closed
    <3>4. \A x \in Sessions : skill[x].status = "draft" => skill'[x].status \in {"draft", "saved", "gone"}
      BY <2>9
    <3> QED
      BY <1>3, <3>1, <3>2, <3>3, <3>4 DEF World, Created
  <2>12. LeasesGiven'
    BY <1>2, <1>3, <2>7, <2>9, <2>10 DEF TeachInv, LeasesGiven, Created
  <2>13. ActorInv(a)'
    BY <2>5, <2>10 DEF ActorInv, Start3, Start2, Start1
  <2>14. /\ \A x \in Sessions : skill[x].status = "none" => Tended(x)'
         /\ \A x \in timer : Tended(x)'
    BY <1>3, <2>5, <2>7, TendedTimer DEF Tended, Settled, Busy
  <2> QED
    BY <1>3, <1>4, <2>4, <2>8, <2>11, <2>12, <2>13, <2>14, StepKept
<1> QED
  BY <1>5, <1>6

LEMMA GrantControlKeeps ==
  ASSUME TeachInv, NEW a \in Actors, GrantControl(a)
  PROVE  TeachInv'
<1>1. At(a, "grant") /\ "grant" \in Steps /\ TeachingTypeOK
  BY StepsAre DEF GrantControl, TeachInv
<1>2. /\ act[a].doing = "start" /\ act[a].of = 0 /\ act[a].todo = Start3
      /\ act[a].lease \in 0 .. controls /\ act[a].todo # <<>>
  BY <1>1, Stands DEF StandsAt
<1>3. /\ UNCHANGED skill /\ UNCHANGED card /\ UNCHANGED timer /\ UNCHANGED due
      /\ UNCHANGED untimed /\ UNCHANGED hitches
  BY DEF GrantControl
<1>4. \A x \in Sessions : ~Busy(a, x)
  BY <1>2, NoSessionIsZero DEF Busy
<1>5. Tail(act[a].todo) = Start2 /\ Start2 \in Seq(Steps) /\ Start2 # <<>>
  BY <1>2, ThreeSteps, TwoSteps
<1>6. controls \in Nat /\ screen \in 0 .. controls /\ MaxControls \in Nat /\ controls <= MaxControls
  BY <1>1, TeachingAssumption DEF TeachingTypeOK, ControlLeases
<1>7. CASE act[a].lease # 0 /\ screen = act[a].lease
  <2>1. Goes(a) /\ UNCHANGED screen /\ UNCHANGED controls
    BY <1>7 DEF GrantControl
  <2>2. GoesOn(a, Start2)
    BY <1>1, <1>2, <1>5, <2>1, GoesTail
  <2>3. ActorInv(a)'
    BY <1>2, <1>5, <1>6, <1>7, <2>1, <2>2 DEF GoesOn, ActorInv, Start3, Start2, Start1
  <2> QED
    BY <1>3, <1>4, <2>1, <2>2, <2>3, QuietStep DEF GoesOn
<1>8. CASE ~(act[a].lease # 0 /\ screen = act[a].lease)
  <2>1. /\ controls < MaxControls /\ controls' = controls + 1 /\ screen' = controls + 1
        /\ act' = [act EXCEPT ![a].lease = controls + 1, ![a].todo = Tail(@)]
    BY <1>8 DEF GrantControl
  <2>2. act[a] \in Acts /\ act \in [Actors -> Acts] /\ controls + 1 \in ControlLeases
    BY <1>1, <1>6, <2>1, ActsAre DEF TeachingTypeOK, Acts, ControlLeases
  <2>3. /\ act'[a] = [act[a] EXCEPT !.lease = controls + 1, !.todo = Start2]
        /\ \A b \in Actors : b # a => act'[b] = act[b]
    BY <1>5, <2>1, <2>2 DEF Acts
  <2>4. /\ act'[a].doing = "start" /\ act'[a].of = 0 /\ act'[a].lease = controls' /\ act'[a].todo = Start2
        /\ act'[a] \in Acts
    BY <1>2, <1>5, <2>1, <2>2, <2>3 DEF Acts
  <2>5. act' \in [Actors -> Acts]
    BY <2>1, <2>2, <2>3, <2>4
  <2>6. controls' \in ControlLeases /\ screen' \in 0 .. controls' /\ controls' \in 1 .. controls'
    BY <1>6, <2>1, <2>2
  <2>7. TeachingTypeOK'
    BY <1>1, <1>3, <2>5, <2>6 DEF TeachingTypeOK, Acts
  <2>8. World
    BY <1>3, <1>6, <2>1 DEF World, Created, Closed
  <2>9. LeasesGiven'
    BY <1>3, <1>6, <2>1 DEF TeachInv, LeasesGiven, Created
  <2>10. ActorInv(a)'
    BY <2>4, <2>6 DEF ActorInv, Start3, Start2, Start1
  <2>11. /\ \A x \in Sessions : skill[x].status = "none" => Tended(x)'
         /\ \A x \in timer : Tended(x)'
    BY <1>3, TendedNone, TendedTimer
  <2> QED
    BY <1>3, <1>4, <2>3, <2>7, <2>8, <2>9, <2>10, <2>11, StepKept
<1> QED
  BY <1>7, <1>8

-----------------------------------------------------------------------------
(* The steps around the session *)

LEMMA HitchKeeps ==
  ASSUME TeachInv, NEW a \in Actors, Hitch(a)
  PROVE  TeachInv'
<1>1. /\ TeachingTypeOK /\ hitches < MaxHitches /\ hitches' = hitches + 1
      /\ act' = [act EXCEPT ![a] = AtRest]
      /\ UNCHANGED <<skill, card, screen, controls>>
  BY DEF TeachInv, Hitch
<1>2. /\ untimed' = IF act[a].doing \in {"start", "remove"} /\ act[a].of \in Sessions \ timer
                      THEN untimed \cup {act[a].of} ELSE untimed
      /\ UNCHANGED skill /\ UNCHANGED card /\ UNCHANGED timer /\ UNCHANGED due /\ UNCHANGED screen
      /\ UNCHANGED controls
  BY DEF Hitch
<1>3. act \in [Actors -> Acts] /\ AtRest \in Acts
  BY <1>1, ActsAre DEF TeachingTypeOK, Acts
<1>4. act' \in [Actors -> Acts] /\ act'[a] = AtRest /\ \A b \in Actors : b # a => act'[b] = act[b]
  BY <1>1, <1>3
<1>5. hitches' \in 0 .. MaxHitches
  BY <1>1, TeachingAssumption DEF TeachingTypeOK
<1>6. untimed \subseteq untimed' /\ untimed' \subseteq Sessions
  BY <1>1, <1>2 DEF TeachingTypeOK
<1>7. TeachingTypeOK'
  BY <1>1, <1>2, <1>4, <1>5, <1>6 DEF TeachingTypeOK, Acts
<1>8. World /\ LeasesGiven'
  BY <1>1, SameWorld
<1>9. ActorInv(a)' /\ \A x \in Sessions : Busy(a, x) => Tended(x)'
  BY <1>2, <1>4 DEF ActorInv, AtRest, Busy, Tended
<1>10. /\ \A x \in Sessions : skill[x].status = "none" => Tended(x)'
       /\ \A x \in timer : Tended(x)'
  BY <1>2, TendedNone, TendedTimer
<1> QED
  BY <1>2, <1>4, <1>6, <1>7, <1>8, <1>9, <1>10, StepKept

\* Nobody moves.
LEMMA IdleKept ==
  ASSUME TeachInv, World, TeachingTypeOK', LeasesGiven', UNCHANGED act, UNCHANGED skill, UNCHANGED timer,
         UNCHANGED untimed, due' \subseteq Created
  PROVE  TeachInv'
<1>1. /\ \A x \in Sessions : skill[x].status = "none" => Tended(x)'
      /\ \A x \in timer : Tended(x)'
  BY TendedNone, TendedTimer
<1>2. due' \subseteq Created'
  BY WorldCreated
<1>3. \A b \in Actors : act'[b] = act[b] \/ (ActorInv(b)' /\ \A s \in Sessions : Busy(b, s) => Tended(s)')
  OBVIOUS
<1> QED
  BY <1>1, <1>2, <1>3, KeptTogether

LEMMA DeadlinePassesKeeps ==
  ASSUME TeachInv, NEW s \in Sessions, DeadlinePasses(s)
  PROVE  TeachInv'
<1>1. /\ UNCHANGED skill /\ UNCHANGED card /\ UNCHANGED timer /\ UNCHANGED screen /\ UNCHANGED controls
      /\ UNCHANGED act /\ UNCHANGED untimed /\ UNCHANGED hitches /\ UNCHANGED <<skill, card, screen, controls>>
      /\ due' = due \cup {s} /\ s \in Created
  BY DEF DeadlinePasses, Created
<1>2. TeachingTypeOK'
  BY <1>1 DEF TeachInv, TeachingTypeOK
<1>3. World /\ LeasesGiven'
  BY <1>1, SameWorld
<1> QED
  BY <1>1, <1>2, <1>3, IdleKept DEF TeachInv

LEMMA ScreenMovesKeep ==
  ASSUME TeachInv, UserTakesScreen \/ ScreenGivenBack
  PROVE  TeachInv'
<1>1. /\ UNCHANGED skill /\ UNCHANGED card /\ UNCHANGED timer /\ UNCHANGED due
      /\ UNCHANGED act /\ UNCHANGED untimed /\ UNCHANGED hitches
  BY DEF UserTakesScreen, ScreenGivenBack
<1>2. controls \in 0 .. MaxControls /\ MaxControls \in Nat /\ screen \in 0 .. controls
  BY TeachingAssumption DEF TeachInv, TeachingTypeOK, ControlLeases
<1>3. /\ controls' \in 0 .. MaxControls /\ controls' >= controls /\ screen' \in 0 .. controls'
      /\ screen' = 0 \/ screen' > controls
  BY <1>2 DEF UserTakesScreen, ScreenGivenBack
<1>4. TeachingTypeOK'
  BY <1>1, <1>3 DEF TeachInv, TeachingTypeOK, ControlLeases
<1>5. World
  BY <1>1, <1>2, <1>3 DEF World, Created, Closed
<1>6. LeasesGiven'
  BY <1>1, <1>2, <1>3 DEF TeachInv, LeasesGiven, Created
<1> QED
  BY <1>1, <1>4, <1>5, <1>6, IdleKept DEF TeachInv

LEMMA TeachInvKept ==
  ASSUME TeachInv, [TeachingNext]_teachingVars
  PROVE  TeachInv'
<1>1. CASE UNCHANGED teachingVars
  <2>1. /\ UNCHANGED skill /\ UNCHANGED card /\ UNCHANGED timer /\ UNCHANGED due /\ UNCHANGED screen
        /\ UNCHANGED controls /\ UNCHANGED act /\ UNCHANGED untimed /\ UNCHANGED hitches
        /\ UNCHANGED <<skill, card, screen, controls>>
    BY <1>1 DEF teachingVars
  <2>2. TeachingTypeOK'
    BY <2>1 DEF TeachInv, TeachingTypeOK
  <2>3. World /\ LeasesGiven'
    BY <2>1, SameWorld
  <2> QED
    BY <2>1, <2>2, <2>3, IdleKept DEF TeachInv
<1>2. ASSUME NEW q \in Requests, StartTeaching(q) PROVE TeachInv'
  BY <1>2, StartTeachingKeeps
<1>3. ASSUME NEW q \in Requests, NEW s \in Sessions, GetSkill(q, s) \/ StopTeaching(q, s) PROVE TeachInv'
  BY <1>3, GetSkillKeeps, StopTeachingKeeps
<1>4. ASSUME NEW q \in Requests, NEW s \in Sessions, Save(q, s) \/ Remove(q, s) PROVE TeachInv'
  BY <1>4, SaveKeeps, RemoveKeeps
<1>5. ASSUME NEW w \in Timers, NEW s \in Sessions, FireExpiry(w, s) PROVE TeachInv'
  BY <1>5, FireExpiryKeeps
<1>6. ASSUME NEW a \in Actors, TeachingStep(a) PROVE TeachInv'
  BY <1>6, GrantControlKeeps, CreateSessionKeeps, EnqueueExpiryKeeps, RecheckKeeps, UpdateCardKeeps,
     DeleteKeeps, FinalizeKeeps, GiveBackKeeps, EmitCardKeeps, CancelExpiryKeeps DEF TeachingStep
<1>7. ASSUME NEW a \in Actors, Hitch(a) PROVE TeachInv'
  BY <1>7, HitchKeeps
<1>8. ASSUME NEW s \in Sessions, DeadlinePasses(s) PROVE TeachInv'
  BY <1>8, DeadlinePassesKeeps
<1>9. CASE UserTakesScreen \/ ScreenGivenBack
  BY <1>9, ScreenMovesKeep
<1> QED
  BY <1>1, <1>2, <1>3, <1>4, <1>5, <1>6, <1>7, <1>8, <1>9 DEF TeachingNext

LEMMA TeachInvAlways == TeachingSpec => []TeachInv
BY TeachingStarts, TeachInvKept, PTL DEF TeachingSpec

\* The sessions, their cards and jobs, the screen's lease and what every request and job has left
\* to do stay of their types, whatever the number of requests, sessions, controls and failures.
THEOREM TeachingTypeCorrect == TeachingSpec => []TeachingTypeOK
<1>1. TeachInv => TeachingTypeOK
  BY DEF TeachInv
<1> QED
  BY <1>1, TeachInvAlways, PTL

\* A recording, and a draft that lacks its card or still has the screen, keeps its job, unless a
\* start or a removal of it is under way or failed: a completion cancels the job only after its
\* other three steps, and whatever others do in between only carries the session further.
THEOREM SessionsAreTended == TeachingSpec => []SessionTended
<1>1. TeachInv => SessionTended
  BY DEF TeachInv, SessionTended, Tended, Busy
<1> QED
  BY <1>1, TeachInvAlways, PTL
=============================================================================
