------------------------------ MODULE Updater_proofs ------------------------------
(***************************************************************************)
(* What the updater of a self-hosted deployment guarantees for any number  *)
(* of services, branches, releases and failing commands: the answer of a   *)
(* run is what it left behind.                                             *)
(***************************************************************************)
EXTENDS Updater, TLAPS

(* Where a run is *)

Builds == update.strategy = "build"
NewPin == [current |-> update.to, previous |-> update.was.env.current]
Untouched == services = update.was.services /\ ~update.ok /\ update.restart = "not-required" /\ update.lost = {}
AsItWas == tree = update.was.tree /\ refs = update.was.refs

\* The checkout a run has made, or the old one where it makes none.
Ready ==
  \/ /\ Builds /\ update.fetched \in Commits /\ tree = [on |-> update.branch, at |-> update.fetched]
     /\ refs = [update.was.refs EXCEPT ![update.branch] = update.fetched]
  \/ ~Builds /\ AsItWas

BuildSteps == <<"fetch", "checkout", "merge", "pin", "recreate">>

\* Nothing has failed: what is done is what the steps left to do leave out.
GoingOn ==
  \/ /\ update.todo \in {<<"remote">> \o BuildSteps, BuildSteps, <<"checkout", "merge", "pin", "recreate">>}
     /\ Builds /\ AsItWas /\ Untouched /\ env = update.was.env
     /\ update.todo = <<"remote">> \o BuildSteps => update.was.origin # "fork"
     /\ update.todo = <<"checkout", "merge", "pin", "recreate">> => update.fetched \in Commits
  \/ /\ update.todo = <<"merge", "pin", "recreate">>
     /\ Builds /\ Untouched /\ env = update.was.env /\ update.fetched \in Commits
     /\ tree = [on |-> update.branch, at |-> update.was.refs[update.branch]] /\ refs = update.was.refs
  \/ /\ update.todo \in {<<"pin", "recreate">>, <<"pin", "pull", "recreate">>}
     /\ Ready /\ Untouched /\ env = update.was.env
     /\ update.todo = <<"pin", "pull", "recreate">> => ~Builds
  \/ /\ update.todo \in {<<"pull", "recreate">>, <<"recreate">>}
     /\ Ready /\ Untouched /\ env = NewPin /\ update.to \in Tags
     /\ update.todo = <<"pull", "recreate">> => ~Builds
  \/ update.todo = <<>> /\ update.ok /\ Uniform(update.to, tree.at) /\ env = NewPin

\* What can still be undone after a failure, in this order.
UndoName(k) == CASE k = 1 -> "restore-checkout" [] k = 2 -> "unpin" [] k = 3 -> "recover" [] k = 4 -> "restore-remote"
Needed(k, step) ==
  \/ k = 1 /\ Builds /\ step \notin {"remote", "fetch"}
  \/ k = 2 /\ step \in {"pull", "recreate"}
  \/ k = 3 /\ step = "recreate"
  \/ k = 4 /\ Builds /\ update.was.origin # "fork"
Undo4(step) == When(Needed(4, step), UndoName(4), <<>>)
Undo3(step) == When(Needed(3, step), UndoName(3), Undo4(step))
Undo2(step) == When(Needed(2, step), UndoName(2), Undo3(step))
Undo1(step) == When(Needed(1, step), UndoName(1), Undo2(step))
UndoList(k, step) ==
  CASE k = 1 -> Undo1(step) [] k = 2 -> Undo2(step) [] k = 3 -> Undo3(step) [] k = 4 -> Undo4(step)
    [] OTHER -> <<>>

\* Only the branch that was asked for has moved, to what was fetched of it.
Moved == \A b \in LocalBranches :
           refs[b] # update.was.refs[b] => Builds /\ b = update.branch /\ refs[b] = update.fetched
CheckoutBack ==
  \/ "checkout" \in update.lost
  \/ /\ tree = update.was.tree
     /\ tree.on # "HEAD" => refs[tree.on] = update.was.refs[tree.on]
PinBack == env.current = update.was.env.current \/ "pin" \in update.lost
ServicesBack ==
  \/ update.restart = "manual" \/ services = update.was.services
  \/ Uniform(update.was.env.current, update.was.tree.at)
RemoteBack == origin = update.was.origin \/ "remote" \in update.lost

Fallible == {"remote", "fetch", "checkout", "merge", "pin", "pull", "recreate"}

\* The steps before the k-th have been undone or given up, as far as the failed step needs it.
UndoneTo(k, step) ==
  /\ ~update.ok /\ Moved
  /\ CheckoutBack \/ (k = 1 /\ Needed(1, step))
  /\ PinBack \/ (k <= 2 /\ Needed(2, step))
  /\ ServicesBack \/ (k <= 3 /\ Needed(3, step))
  /\ RemoteBack \/ (k <= 4 /\ Needed(4, step))
Undoing(k, step) == update.todo = UndoList(k, step) /\ UndoneTo(k, step)

\* The remote points elsewhere only where the end of the run will put that right.
OriginHeld == origin = update.was.origin \/ Needed(4, "remote") \/ "remote" \in update.lost

\* A checkout on a branch is at the branch's commit.
TreeInv == tree.on # "HEAD" => tree.at = refs[tree.on]
RunInv ==
  /\ update.was.tree.on # "HEAD" => update.was.tree.at = update.was.refs[update.was.tree.on]
  /\ Builds => update.branch \in Branches
  /\ ~Builds => update.to \in Tags
  /\ OriginHeld
  /\ GoingOn \/ \E k \in 1 .. 5, step \in Fallible : Undoing(k, step)

UpdaterInv == UpdaterTypeOK /\ TreeInv /\ (underway => RunInv)

-----------------------------------------------------------------------------
(* The lists of steps *)

TodoSteps == {"remote", "fetch", "checkout", "merge", "pin", "pull", "recreate",
              "restore-checkout", "unpin", "recover", "restore-remote"}

LEMMA WhenIs ==
  ASSUME NEW needed, NEW step \in TodoSteps, NEW steps \in Seq(TodoSteps)
  PROVE  LET list == When(needed, step, steps) IN
         /\ list \in Seq(TodoSteps)
         /\ needed => list # <<>> /\ Head(list) = step /\ Tail(list) = steps
         /\ ~needed => list = steps
<1>1. LET list == <<step>> \o steps IN
      list \in Seq(TodoSteps) /\ list # <<>> /\ Head(list) = step /\ Tail(list) = steps
  OBVIOUS
<1> QED
  BY <1>1 DEF When

LEMMA ListsAre ==
  /\ BuildSteps \in Seq(TodoSteps) /\ BuildSteps # <<>>
  /\ Head(BuildSteps) = "fetch" /\ Tail(BuildSteps) = <<"checkout", "merge", "pin", "recreate">>
  /\ <<"remote">> \o BuildSteps \in Seq(TodoSteps) /\ <<"remote">> \o BuildSteps # <<>>
  /\ Head(<<"remote">> \o BuildSteps) = "remote" /\ Tail(<<"remote">> \o BuildSteps) = BuildSteps
  /\ <<"checkout", "merge", "pin", "recreate">> \in Seq(TodoSteps)
  /\ Head(<<"checkout", "merge", "pin", "recreate">>) = "checkout"
  /\ Tail(<<"checkout", "merge", "pin", "recreate">>) = <<"merge", "pin", "recreate">>
  /\ <<"merge", "pin", "recreate">> \in Seq(TodoSteps) /\ Head(<<"merge", "pin", "recreate">>) = "merge"
  /\ Tail(<<"merge", "pin", "recreate">>) = <<"pin", "recreate">>
  /\ <<"pin", "recreate">> \in Seq(TodoSteps) /\ Head(<<"pin", "recreate">>) = "pin"
  /\ Tail(<<"pin", "recreate">>) = <<"recreate">>
  /\ <<"pin", "pull", "recreate">> \in Seq(TodoSteps) /\ Head(<<"pin", "pull", "recreate">>) = "pin"
  /\ Tail(<<"pin", "pull", "recreate">>) = <<"pull", "recreate">>
  /\ <<"pull", "recreate">> \in Seq(TodoSteps) /\ Head(<<"pull", "recreate">>) = "pull"
  /\ Tail(<<"pull", "recreate">>) = <<"recreate">>
  /\ <<"recreate">> \in Seq(TodoSteps) /\ Head(<<"recreate">>) = "recreate" /\ Tail(<<"recreate">>) = <<>>
  /\ <<>> \in Seq(TodoSteps) /\ <<"recreate">> # <<>> /\ <<"pull", "recreate">> # <<>>
  /\ <<"pin", "recreate">> # <<>> /\ <<"pin", "pull", "recreate">> # <<>>
  /\ <<"merge", "pin", "recreate">> # <<>> /\ <<"checkout", "merge", "pin", "recreate">> # <<>>
<1>1. BuildSteps \in Seq(TodoSteps) /\ BuildSteps # <<>> /\ Head(BuildSteps) = "fetch"
      /\ Tail(BuildSteps) = <<"checkout", "merge", "pin", "recreate">>
  BY DEF BuildSteps, TodoSteps
<1>2. LET list == <<"remote">> \o BuildSteps IN
      list \in Seq(TodoSteps) /\ list # <<>> /\ Head(list) = "remote" /\ Tail(list) = BuildSteps
  BY <1>1 DEF TodoSteps
<1>3. /\ <<"checkout", "merge", "pin", "recreate">> \in Seq(TodoSteps)
      /\ <<"merge", "pin", "recreate">> \in Seq(TodoSteps)
      /\ <<"pin", "recreate">> \in Seq(TodoSteps) /\ <<"pin", "pull", "recreate">> \in Seq(TodoSteps)
      /\ <<"pull", "recreate">> \in Seq(TodoSteps) /\ <<"recreate">> \in Seq(TodoSteps)
      /\ <<>> \in Seq(TodoSteps)
  BY DEF TodoSteps
<1>4. /\ Tail(<<"checkout", "merge", "pin", "recreate">>) = <<"merge", "pin", "recreate">>
      /\ Tail(<<"merge", "pin", "recreate">>) = <<"pin", "recreate">>
      /\ Tail(<<"pin", "recreate">>) = <<"recreate">>
      /\ Tail(<<"pin", "pull", "recreate">>) = <<"pull", "recreate">>
      /\ Tail(<<"pull", "recreate">>) = <<"recreate">> /\ Tail(<<"recreate">>) = <<>>
  OBVIOUS
<1> QED
  BY <1>1, <1>2, <1>3, <1>4

\* The list that undoes a failed step, one undo after the other.
LEMMA UndoIs ==
  ASSUME NEW step \in Fallible
  PROVE  /\ UndoList(1, step) = Undo(step) /\ UndoList(5, step) = <<>>
         /\ \A k \in 1 .. 5 : UndoList(k, step) \in Seq(TodoSteps)
         /\ \A k \in 1 .. 4 :
              /\ Needed(k, step) => /\ UndoList(k, step) # <<>>
                                    /\ Head(UndoList(k, step)) = UndoName(k)
                                    /\ Tail(UndoList(k, step)) = UndoList(k + 1, step)
              /\ ~Needed(k, step) => UndoList(k, step) = UndoList(k + 1, step)
<1>1. \A k \in 1 .. 4 : Needed(k, step) \in BOOLEAN /\ UndoName(k) \in TodoSteps
  BY DEF Needed, UndoName, TodoSteps
<1>2. /\ UndoList(1, step) = Undo1(step) /\ UndoList(2, step) = Undo2(step)
      /\ UndoList(3, step) = Undo3(step) /\ UndoList(4, step) = Undo4(step) /\ UndoList(5, step) = <<>>
  BY DEF UndoList
<1>3. <<>> \in Seq(TodoSteps)
  OBVIOUS
<1>4. /\ UndoList(4, step) = When(Needed(4, step), UndoName(4), UndoList(5, step))
      /\ UndoList(3, step) = When(Needed(3, step), UndoName(3), UndoList(4, step))
      /\ UndoList(2, step) = When(Needed(2, step), UndoName(2), UndoList(3, step))
      /\ UndoList(1, step) = When(Needed(1, step), UndoName(1), UndoList(2, step))
  BY <1>2 DEF Undo1, Undo2, Undo3, Undo4
<1>5. UndoList(5, step) \in Seq(TodoSteps)
  BY <1>2, <1>3
<1>6. UndoList(4, step) \in Seq(TodoSteps)
  BY <1>1, <1>4, <1>5, WhenIs
<1>7. UndoList(3, step) \in Seq(TodoSteps)
  BY <1>1, <1>4, <1>6, WhenIs
<1>8. UndoList(2, step) \in Seq(TodoSteps)
  BY <1>1, <1>4, <1>7, WhenIs
<1>9. UndoList(1, step) \in Seq(TodoSteps)
  BY <1>1, <1>4, <1>8, WhenIs
<1>10. \A k \in 1 .. 5 : UndoList(k, step) \in Seq(TodoSteps)
  BY <1>5, <1>6, <1>7, <1>8, <1>9
<1>11. \A k \in 1 .. 4 : UndoList(k, step) = When(Needed(k, step), UndoName(k), UndoList(k + 1, step))
  BY <1>4
<1>12. UndoList(1, step) = Undo(step)
  <2>1. /\ UndoName(1) = "restore-checkout" /\ UndoName(2) = "unpin" /\ UndoName(3) = "recover"
        /\ UndoName(4) = "restore-remote"
    BY DEF UndoName
  <2>2. /\ Needed(1, step) <=> update.strategy = "build" /\ step \notin {"remote", "fetch"}
        /\ Needed(2, step) <=> step \in {"pull", "recreate"}
        /\ Needed(3, step) <=> step = "recreate"
        /\ Needed(4, step) <=> update.strategy = "build" /\ update.was.origin # "fork"
    BY DEF Needed, Builds
  <2> QED
    BY <1>2, <2>1, <2>2 DEF Undo, Undo1, Undo2, Undo3, Undo4, When
<1>13. ASSUME NEW k \in 1 .. 4
       PROVE  /\ Needed(k, step) => /\ UndoList(k, step) # <<>>
                                    /\ Head(UndoList(k, step)) = UndoName(k)
                                    /\ Tail(UndoList(k, step)) = UndoList(k + 1, step)
              /\ ~Needed(k, step) => UndoList(k, step) = UndoList(k + 1, step)
  <2>1. k + 1 \in 1 .. 5
    OBVIOUS
  <2>2. UndoList(k + 1, step) \in Seq(TodoSteps)
    BY <1>10, <2>1
  <2>3. UndoList(k, step) = When(Needed(k, step), UndoName(k), UndoList(k + 1, step))
    BY <1>11
  <2>4. UndoName(k) \in TodoSteps
    BY <1>1
  <2>5. LET list == When(Needed(k, step), UndoName(k), UndoList(k + 1, step)) IN
        /\ Needed(k, step) => /\ list # <<>> /\ Head(list) = UndoName(k)
                              /\ Tail(list) = UndoList(k + 1, step)
        /\ ~Needed(k, step) => list = UndoList(k + 1, step)
    BY <2>2, <2>4, WhenIs
  <2> QED
    BY <2>3, <2>5
<1> QED
  BY <1>2, <1>10, <1>12, <1>13

\* Where an undo that is not needed counts as done, the list begins with the next one.
LEMMA Advance ==
  ASSUME NEW step \in Fallible, NEW k \in 1 .. 4, Undoing(k, step), ~Needed(k, step)
  PROVE  Undoing(k + 1, step)
<1>1. UndoList(k, step) = UndoList(k + 1, step)
  BY UndoIs
<1>2. UndoneTo(k + 1, step)
  <2>1. CASE k = 1
    BY <2>1 DEF Undoing, UndoneTo
  <2>2. CASE k = 2
    BY <2>2 DEF Undoing, UndoneTo
  <2>3. CASE k = 3
    BY <2>3 DEF Undoing, UndoneTo
  <2>4. CASE k = 4
    BY <2>4 DEF Undoing, UndoneTo
  <2> QED
    BY <2>1, <2>2, <2>3, <2>4
<1> QED
  BY <1>1, <1>2 DEF Undoing

LEMMA Stage ==
  ASSUME NEW step \in Fallible, NEW k \in 1 .. 5, Undoing(k, step)
  PROVE  Undoing(5, step) \/ \E j \in 1 .. 4 : Undoing(j, step) /\ Needed(j, step)
<1>1. Undoing(4, step) => Undoing(5, step) \/ \E j \in 1 .. 4 : Undoing(j, step) /\ Needed(j, step)
  BY Advance
<1>2. Undoing(3, step) => Undoing(5, step) \/ \E j \in 1 .. 4 : Undoing(j, step) /\ Needed(j, step)
  BY <1>1, Advance
<1>3. Undoing(2, step) => Undoing(5, step) \/ \E j \in 1 .. 4 : Undoing(j, step) /\ Needed(j, step)
  BY <1>2, Advance
<1>4. Undoing(1, step) => Undoing(5, step) \/ \E j \in 1 .. 4 : Undoing(j, step) /\ Needed(j, step)
  BY <1>3, Advance
<1> QED
  BY <1>1, <1>2, <1>3, <1>4

\* A command that undoes something stands where its turn is.
LEMMA UndoAt ==
  ASSUME RunInv, NEW j \in 1 .. 4, At(UndoName(j))
  PROVE  \E step \in Fallible :
           Undoing(j, step) /\ Needed(j, step) /\ Tail(update.todo) = UndoList(j + 1, step)
<1>1. ~GoingOn
  <2>1. UndoName(j) \in {"restore-checkout", "unpin", "recover", "restore-remote"}
    BY DEF UndoName
  <2> QED
    BY <2>1, ListsAre DEF GoingOn, At
<1>2. PICK k \in 1 .. 5, step \in Fallible : Undoing(k, step)
  BY <1>1 DEF RunInv
<1>3. ~Undoing(5, step)
  BY UndoIs DEF Undoing, At
<1>4. PICK i \in 1 .. 4 : Undoing(i, step) /\ Needed(i, step)
  BY <1>2, <1>3, Stage
<1>5. update.todo = UndoList(i, step) /\ Head(update.todo) = UndoName(i)
      /\ Tail(update.todo) = UndoList(i + 1, step)
  BY <1>4, UndoIs DEF Undoing
<1>6. UndoName(i) = UndoName(j)
  BY <1>5 DEF At
<1>7. i = j
  <2>1. /\ UndoName(1) = "restore-checkout" /\ UndoName(2) = "unpin" /\ UndoName(3) = "recover"
        /\ UndoName(4) = "restore-remote"
    BY DEF UndoName
  <2> QED
    BY <1>6, <2>1
<1> QED
  BY <1>4, <1>5, <1>7

\* A command that may fail stands where nothing has failed.
LEMMA GoesOnAt ==
  ASSUME RunInv, NEW x \in Fallible, At(x)
  PROVE  GoingOn /\ ~update.ok
<1>1. ASSUME NEW k \in 1 .. 5, NEW step \in Fallible, Undoing(k, step) PROVE FALSE
  <2>1. ~Undoing(5, step)
    BY UndoIs DEF Undoing, At
  <2>2. PICK i \in 1 .. 4 : Undoing(i, step) /\ Needed(i, step)
    BY <1>1, <2>1, Stage
  <2>3. Head(update.todo) = UndoName(i)
    BY <2>2, UndoIs DEF Undoing
  <2>4. UndoName(i) \in {"restore-checkout", "unpin", "recover", "restore-remote"}
    BY DEF UndoName
  <2> QED
    BY <2>3, <2>4 DEF At, Fallible
<1>2. GoingOn
  BY <1>1 DEF RunInv
<1> QED
  BY <1>2 DEF GoingOn, Untouched, At

LEMMA Starts == UpdaterInit => UpdaterInv
<1> SUFFICES ASSUME UpdaterInit PROVE UpdaterInv
  OBVIOUS
<1> DEFINE installed == <<"sha", <<"release", 0>>>>
<1>1. 0 \in 0 .. MaxCommits /\ 0 \in 0 .. MaxUpsets
  BY UpdaterAssumption
<1>2. \A b \in LocalBranches \cup {"release"} : <<b, 0>> \in Commits
  BY <1>1 DEF Commits
<1>3. installed \in Tags /\ installed # NoTag
  BY <1>2 DEF Tags, NoTag
<1>4. tree \in Trees /\ Home \in LocalBranches
  BY <1>2 DEF UpdaterInit, Trees, LocalBranches
<1>5. env \in Pins /\ images \subseteq Tags
  BY <1>3 DEF UpdaterInit, Pins
<1>6. services \in Deployed
  BY <1>3, <1>4 DEF UpdaterInit, Deployed, Trees
<1>7. refs \in [LocalBranches -> Commits] /\ origin \in {"official", "fork"}
  BY <1>2 DEF UpdaterInit
<1>8. heads \in [Branches \cup {"release"} -> 0 .. MaxCommits]
  BY <1>1 DEF UpdaterInit
<1>9. UpdaterTypeOK /\ ~underway
  BY <1>1, <1>4, <1>5, <1>6, <1>7, <1>8 DEF UpdaterTypeOK, underway, UpdaterInit
<1>10. TreeInv
  BY DEF UpdaterInit, TreeInv
<1> QED
  BY <1>9, <1>10 DEF UpdaterInv

-----------------------------------------------------------------------------
(* Runs begin *)

LEMMA UpdateIs ==
  ASSUME UpdaterInv, underway
  PROVE  /\ UpdaterTypeOK /\ RunInv /\ TreeInv /\ update \in Updates
         /\ update.was \in [env : Pins, services : Deployed, tree : Trees, refs : [LocalBranches -> Commits],
                            origin : {"official", "fork"}]
         /\ update.was.env \in Pins /\ update.was.services \in Deployed /\ update.was.tree \in Trees
         /\ update.was.refs \in [LocalBranches -> Commits] /\ update.was.origin \in {"official", "fork"}
         /\ update.todo \in Seq(TodoSteps) /\ update.to \in Tags \cup {NoTag}
         /\ update.fetched \in Commits \cup {NoCommit} /\ update.ok \in BOOLEAN
         /\ update.lost \subseteq {"checkout", "pin", "remote"}
<1>1. update \in Updates /\ UpdaterTypeOK /\ RunInv /\ TreeInv
  BY DEF UpdaterInv, UpdaterTypeOK
<1>2. /\ update.was \in [env : Pins, services : Deployed, tree : Trees, refs : [LocalBranches -> Commits],
                         origin : {"official", "fork"}]
      /\ update.todo \in Seq(TodoSteps) /\ update.to \in Tags \cup {NoTag}
      /\ update.fetched \in Commits \cup {NoCommit} /\ update.ok \in BOOLEAN
      /\ update.lost \subseteq {"checkout", "pin", "remote"}
  BY <1>1 DEF Updates, TodoSteps
<1> QED
  BY <1>1, <1>2

LEMMA Begun ==
  ASSUME UpdaterInv, NEW strategy \in {"pull", "build", "rollback"}, NEW branch \in Branches \cup {"none"},
         NEW to \in Tags \cup {NoTag}, NEW steps \in Seq(TodoSteps),
         StartUpdate(strategy, branch, to, steps),
         UNCHANGED <<env, images, services, tree, refs, origin, heads, upsets>>,
         strategy = "build" => branch \in Branches, strategy # "build" => to \in Tags,
         \/ strategy = "build" /\ steps = <<"remote">> \o BuildSteps /\ origin # "fork"
         \/ strategy = "build" /\ steps = BuildSteps
         \/ strategy = "pull" /\ steps = <<"pin", "pull", "recreate">>
         \/ strategy = "rollback" /\ steps = <<"pin", "recreate">>
  PROVE  UpdaterInv'
<1>1. UpdaterTypeOK /\ TreeInv
  BY DEF UpdaterInv
<1> DEFINE was == [env |-> env, services |-> services, tree |-> tree, refs |-> refs, origin |-> origin]
<1>2. was \in [env : Pins, services : Deployed, tree : Trees, refs : [LocalBranches -> Commits],
               origin : {"official", "fork"}]
      /\ was.env = env /\ was.services = services /\ was.tree = tree /\ was.refs = refs /\ was.origin = origin
  BY <1>1 DEF UpdaterTypeOK
<1> HIDE DEF was
<1>3. update' = [strategy |-> strategy, branch |-> branch, todo |-> steps, to |-> to, fetched |-> NoCommit,
                 was |-> was, ok |-> FALSE, restart |-> "not-required", lost |-> {}]
  BY DEF StartUpdate, was
<1>4. /\ update' \in Updates /\ update'.strategy = strategy /\ update'.branch = branch /\ update'.todo = steps
      /\ update'.to = to /\ update'.was = was /\ ~update'.ok /\ update'.restart = "not-required"
      /\ update'.lost = {}
  BY <1>2, <1>3 DEF Updates, TodoSteps
<1>5. UpdaterTypeOK' /\ TreeInv'
  BY <1>1, <1>4 DEF UpdaterTypeOK, TreeInv
<1>6. AsItWas' /\ Untouched' /\ env' = update'.was.env /\ origin' = update'.was.origin
  BY <1>2, <1>4 DEF AsItWas, Untouched
<1>7. GoingOn'
  <2>1. <<"pin", "recreate">> # <<"pin", "pull", "recreate">>
        /\ BuildSteps # <<"remote">> \o BuildSteps /\ BuildSteps # <<"checkout", "merge", "pin", "recreate">>
        /\ <<"remote">> \o BuildSteps # <<"checkout", "merge", "pin", "recreate">>
    BY ListsAre
  <2>2. CASE steps = <<"remote">> \o BuildSteps /\ strategy = "build" /\ origin # "fork"
    BY <1>2, <1>4, <1>6, <2>1, <2>2 DEF GoingOn, Builds
  <2>3. CASE steps = BuildSteps /\ strategy = "build"
    BY <1>4, <1>6, <2>1, <2>3 DEF GoingOn, Builds
  <2>4. CASE steps = <<"pin", "pull", "recreate">> /\ strategy = "pull"
    BY <1>4, <1>6, <2>1, <2>4 DEF GoingOn, Builds, Ready
  <2>5. CASE steps = <<"pin", "recreate">> /\ strategy = "rollback"
    BY <1>4, <1>6, <2>1, <2>5 DEF GoingOn, Builds, Ready
  <2> QED
    BY <2>2, <2>3, <2>4, <2>5
<1>8. RunInv'
  BY <1>1, <1>2, <1>4, <1>6, <1>7 DEF RunInv, Builds, OriginHeld, TreeInv
<1> QED
  BY <1>5, <1>8 DEF UpdaterInv

LEMMA RunsBegin ==
  ASSUME UpdaterInv, ApplyRelease \/ (\E b \in Branches : ApplyBranch(b)) \/ Rollback
  PROVE  UpdaterInv'
<1>1. UpdaterTypeOK
  BY DEF UpdaterInv
<1>2. CASE ApplyRelease
  <2> DEFINE to == <<"sha", <<"release", heads["release"]>>>>
  <2>1. to \in Tags
    BY <1>1 DEF UpdaterTypeOK, Tags, Commits
  <2>2. StartUpdate("pull", "none", to, <<"pin", "pull", "recreate">>)
        /\ UNCHANGED <<env, images, services, tree, refs, origin, heads, upsets>>
    BY <1>2 DEF ApplyRelease
  <2> HIDE DEF to
  <2> QED
    BY <2>1, <2>2, ListsAre, Begun
<1>3. ASSUME NEW b \in Branches, ApplyBranch(b) PROVE UpdaterInv'
  <2> DEFINE steps == When(origin # "fork", "remote", <<"fetch", "checkout", "merge", "pin", "recreate">>)
  <2>1. \/ steps = <<"remote">> \o BuildSteps /\ origin # "fork"
        \/ steps = BuildSteps
    BY DEF When, BuildSteps
  <2>2. steps \in Seq(TodoSteps)
    BY <2>1, ListsAre
  <2>3. StartUpdate("build", b, NoTag, steps)
        /\ UNCHANGED <<env, images, services, tree, refs, origin, heads, upsets>>
    BY <1>3 DEF ApplyBranch
  <2> HIDE DEF steps
  <2> QED
    BY <2>1, <2>2, <2>3, Begun
<1>4. CASE Rollback
  <2>1. env.previous \in Tags
    BY <1>1, <1>4 DEF Rollback, UpdaterTypeOK, Pins
  <2>2. StartUpdate("rollback", "none", env.previous, <<"pin", "recreate">>)
        /\ UNCHANGED <<env, images, services, tree, refs, origin, heads, upsets>>
    BY <1>4 DEF Rollback
  <2> QED
    BY <2>1, <2>2, ListsAre, Begun
<1> QED
  BY <1>2, <1>3, <1>4

-----------------------------------------------------------------------------
(* Commands *)

\* What no command of a run changes.
Kept == update'.was = update.was /\ update'.strategy = update.strategy /\ update'.branch = update.branch

LEMMA RunKept ==
  ASSUME UpdaterInv, underway, UpdaterTypeOK', TreeInv', Kept, ~Builds => update'.to = update.to, OriginHeld',
         GoingOn' \/ \E k \in 1 .. 5, step \in Fallible :
                       update'.todo = UndoList(k, step) /\ UndoneTo(k, step)'
  PROVE  UpdaterInv'
<1>1. RunInv
  BY DEF UpdaterInv
<1>2. ASSUME NEW k \in 1 .. 5, NEW step \in Fallible, update'.todo = UndoList(k, step), UndoneTo(k, step)'
      PROVE  Undoing(k, step)'
  <2>1. /\ Needed(1, step)' <=> Needed(1, step)
        /\ Needed(2, step)' <=> Needed(2, step)
        /\ Needed(3, step)' <=> Needed(3, step)
        /\ Needed(4, step)' <=> Needed(4, step)
    BY DEF Kept, Needed, Builds
  <2>2. UndoList(k, step)' = UndoList(k, step)
    BY <2>1 DEF UndoList, Undo1, Undo2, Undo3, Undo4, When
  <2> QED
    BY <1>2, <2>2 DEF Undoing
<1>3. GoingOn' \/ \E k \in 1 .. 5, step \in Fallible : Undoing(k, step)'
  BY <1>2
<1>4. RunInv'
  BY <1>1, <1>3 DEF RunInv, Kept, Builds
<1> QED
  BY <1>4 DEF UpdaterInv

LEMMA ThenIs ==
  ASSUME UpdaterInv, NEW x \in Fallible, At(x), NEW done \in BOOLEAN
  PROVE  /\ Then(done) \in Seq(TodoSteps)
         /\ done => Then(done) = Tail(update.todo)
         /\ ~done => Then(done) = UndoList(1, x)
<1>1. underway /\ Head(update.todo) = x /\ update.todo # <<>>
  BY DEF At
<1>2. update.todo \in Seq(TodoSteps)
  BY <1>1, UpdateIs
<1>3. Tail(update.todo) \in Seq(TodoSteps)
  BY <1>1, <1>2
<1>4. UndoList(1, x) = Undo(x) /\ UndoList(1, x) \in Seq(TodoSteps)
  BY UndoIs
<1> QED
  BY <1>1, <1>3, <1>4 DEF Then

LEMMA CountIs == ASSUME UpdaterTypeOK, NEW done \in BOOLEAN, Counted(done) PROVE upsets' \in 0 .. MaxUpsets
BY UpdaterAssumption DEF UpdaterTypeOK, Counted

LEMMA PointRemoteKeeps ==
  ASSUME UpdaterInv, NEW done \in BOOLEAN, PointRemote(done)
  PROVE  UpdaterInv'
<1> DEFINE x == "remote"
<1>1. At(x) /\ x \in Fallible /\ underway /\ update.todo # <<>> /\ Head(update.todo) = x
  BY DEF PointRemote, Fallible, At
<1>2. UpdaterTypeOK /\ RunInv /\ TreeInv /\ update \in Updates /\ GoingOn
  BY <1>1, UpdateIs, GoesOnAt
<1>3. /\ update.todo = <<"remote">> \o BuildSteps /\ Builds /\ AsItWas /\ Untouched /\ env = update.was.env
      /\ update.was.origin # "fork"
  BY <1>1, <1>2, ListsAre DEF GoingOn
<1>4. /\ update' = [update EXCEPT !.todo = Then(done)] /\ origin' \in {"fork", origin}
      /\ UNCHANGED env /\ UNCHANGED images /\ UNCHANGED services /\ UNCHANGED tree /\ UNCHANGED refs
      /\ UNCHANGED heads
  BY DEF PointRemote
<1>5. /\ Then(done) \in Seq(TodoSteps)
      /\ done => Then(done) = BuildSteps
      /\ ~done => Then(done) = UndoList(1, x)
  BY <1>1, <1>3, ThenIs, ListsAre
<1>6. /\ update' \in Updates /\ update'.todo = Then(done) /\ Kept /\ update'.to = update.to
      /\ update'.ok = update.ok /\ update'.restart = update.restart /\ update'.lost = update.lost
      /\ update'.fetched = update.fetched
  BY <1>2, <1>4, <1>5 DEF Updates, Kept, TodoSteps
<1>7. upsets' \in 0 .. MaxUpsets
  BY <1>2, CountIs DEF PointRemote
<1>8. UpdaterTypeOK' /\ TreeInv'
  BY <1>2, <1>4, <1>6, <1>7 DEF UpdaterTypeOK, TreeInv
<1>9. OriginHeld'
  BY <1>3, <1>6 DEF OriginHeld, Needed, Builds, Kept
<1>10. CASE done
  <2>1. GoingOn'
    BY <1>3, <1>4, <1>5, <1>6, <1>10, ListsAre DEF GoingOn, Builds, AsItWas, Untouched, Kept
  <2> QED
    BY <1>1, <1>6, <1>8, <1>9, <2>1, RunKept
<1>11. CASE ~done
  <2>1. UndoneTo(1, x)'
    BY <1>2, <1>3, <1>4, <1>6
       DEF UndoneTo, Moved, CheckoutBack, PinBack, ServicesBack, RemoteBack, Needed, Builds, Kept, AsItWas, Untouched
  <2> QED
    BY <1>1, <1>5, <1>6, <1>8, <1>9, <1>11, <2>1, RunKept
<1> QED
  BY <1>10, <1>11

LEMMA FetchKeeps ==
  ASSUME UpdaterInv, NEW done \in BOOLEAN, Fetch(done)
  PROVE  UpdaterInv'
<1> DEFINE x == "fetch"
           got == <<update.branch, heads[update.branch]>>
<1>1. At(x) /\ x \in Fallible /\ underway /\ update.todo # <<>> /\ Head(update.todo) = x
  BY DEF Fetch, Fallible, At
<1>2. UpdaterTypeOK /\ RunInv /\ TreeInv /\ update \in Updates /\ GoingOn
  BY <1>1, UpdateIs, GoesOnAt
<1>3. update.todo = BuildSteps /\ Builds /\ AsItWas /\ Untouched /\ env = update.was.env
  BY <1>1, <1>2, ListsAre DEF GoingOn
<1>4. /\ update' = [update EXCEPT !.todo = Then(done), !.fetched = got]
      /\ UNCHANGED env /\ UNCHANGED images /\ UNCHANGED services /\ UNCHANGED tree /\ UNCHANGED refs
      /\ UNCHANGED heads /\ UNCHANGED origin
  BY DEF Fetch
<1>5. /\ Then(done) \in Seq(TodoSteps)
      /\ done => Then(done) = <<"checkout", "merge", "pin", "recreate">>
      /\ ~done => Then(done) = UndoList(1, x)
  BY <1>1, <1>3, ThenIs, ListsAre
<1>6. got \in Commits
  BY <1>2, <1>3 DEF RunInv, UpdaterTypeOK, Commits, LocalBranches
<1> HIDE DEF got
<1>7. /\ update' \in Updates /\ update'.todo = Then(done) /\ Kept /\ update'.to = update.to
      /\ update'.ok = update.ok /\ update'.restart = update.restart /\ update'.lost = update.lost
      /\ update'.fetched = got
  BY <1>2, <1>4, <1>5, <1>6 DEF Updates, Kept, TodoSteps
<1>8. upsets' \in 0 .. MaxUpsets
  BY <1>2, CountIs DEF Fetch
<1>9. UpdaterTypeOK' /\ TreeInv'
  BY <1>2, <1>4, <1>7, <1>8 DEF UpdaterTypeOK, TreeInv
<1>10. OriginHeld /\ OriginHeld' /\ (origin' = update'.was.origin \/ (Builds' /\ update'.was.origin # "fork"))
  BY <1>2, <1>3, <1>4, <1>7 DEF RunInv, OriginHeld, Needed, Builds, Kept, Untouched
<1>11. CASE done
  <2>1. GoingOn'
    BY <1>3, <1>4, <1>5, <1>6, <1>7, <1>11, ListsAre DEF GoingOn, Builds, AsItWas, Untouched, Kept
  <2> QED
    BY <1>1, <1>7, <1>9, <1>10, <2>1, RunKept
<1>12. CASE ~done
  <2>1. UndoneTo(1, x)'
    BY <1>2, <1>3, <1>4, <1>7, <1>10
       DEF UndoneTo, Moved, CheckoutBack, PinBack, ServicesBack, RemoteBack, Needed, Builds, Kept, AsItWas, Untouched
  <2> QED
    BY <1>1, <1>5, <1>7, <1>9, <1>10, <1>12, <2>1, RunKept
<1> QED
  BY <1>11, <1>12

LEMMA CheckoutKeeps ==
  ASSUME UpdaterInv, NEW done \in BOOLEAN, Checkout(done)
  PROVE  UpdaterInv'
<1> DEFINE x == "checkout"
<1>1. At(x) /\ x \in Fallible /\ underway /\ update.todo # <<>> /\ Head(update.todo) = x
  BY DEF Checkout, Fallible, At
<1>2. UpdaterTypeOK /\ RunInv /\ TreeInv /\ update \in Updates /\ GoingOn
  BY <1>1, UpdateIs, GoesOnAt
<1>3. /\ update.todo = <<"checkout", "merge", "pin", "recreate">> /\ Builds /\ AsItWas /\ Untouched
      /\ env = update.was.env /\ update.fetched \in Commits
  BY <1>1, <1>2, ListsAre DEF GoingOn
<1>4. /\ update' = [update EXCEPT !.todo = Then(done)]
      /\ UNCHANGED env /\ UNCHANGED images /\ UNCHANGED services /\ UNCHANGED refs /\ UNCHANGED heads
      /\ UNCHANGED origin
      /\ tree' = [on |-> update.branch, at |-> refs[update.branch]] \/ (~done /\ UNCHANGED tree)
  BY DEF Checkout
<1>5. /\ Then(done) \in Seq(TodoSteps)
      /\ done => Then(done) = <<"merge", "pin", "recreate">>
      /\ ~done => Then(done) = UndoList(1, x)
  BY <1>1, <1>3, ThenIs, ListsAre
<1>6. /\ update' \in Updates /\ update'.todo = Then(done) /\ Kept /\ update'.to = update.to
      /\ update'.ok = update.ok /\ update'.restart = update.restart /\ update'.lost = update.lost
      /\ update'.fetched = update.fetched
  BY <1>2, <1>4, <1>5 DEF Updates, Kept, TodoSteps
<1>7. upsets' \in 0 .. MaxUpsets
  BY <1>2, CountIs DEF Checkout
<1>8. update.branch \in LocalBranches
  BY <1>2, <1>3 DEF RunInv, LocalBranches
<1>9. UpdaterTypeOK' /\ TreeInv'
  <2>1. tree' \in Trees /\ TreeInv'
    BY <1>2, <1>4, <1>8 DEF UpdaterTypeOK, Trees, TreeInv
  <2> QED
    BY <1>2, <1>4, <1>6, <1>7, <2>1 DEF UpdaterTypeOK
<1>10. OriginHeld' /\ (origin' = update'.was.origin \/ (Builds' /\ update'.was.origin # "fork"))
  BY <1>2, <1>3, <1>4, <1>6 DEF RunInv, OriginHeld, Needed, Builds, Kept, Untouched
<1>11. CASE done
  <2>1. GoingOn'
    BY <1>3, <1>4, <1>5, <1>6, <1>11, ListsAre DEF GoingOn, Builds, AsItWas, Untouched, Kept
  <2> QED
    BY <1>1, <1>6, <1>9, <1>10, <2>1, RunKept
<1>12. CASE ~done
  <2>1. UndoneTo(1, x)'
    BY <1>2, <1>3, <1>4, <1>6, <1>10
       DEF UndoneTo, Moved, CheckoutBack, PinBack, ServicesBack, RemoteBack, Needed, Builds, Kept, AsItWas, Untouched
  <2> QED
    BY <1>1, <1>5, <1>6, <1>9, <1>10, <1>12, <2>1, RunKept
<1> QED
  BY <1>11, <1>12

\* A merge that fails may have moved the branch all the same.
LEMMA MergeKeeps ==
  ASSUME UpdaterInv, NEW done \in BOOLEAN, Merge(done)
  PROVE  UpdaterInv'
<1> DEFINE x == "merge"
<1>1. At(x) /\ x \in Fallible /\ underway /\ update.todo # <<>> /\ Head(update.todo) = x
  BY DEF Merge, Fallible, At
<1>2. UpdaterTypeOK /\ RunInv /\ TreeInv /\ update \in Updates /\ GoingOn
  BY <1>1, UpdateIs, GoesOnAt
<1>3. /\ update.todo = <<"merge", "pin", "recreate">> /\ Builds /\ Untouched
      /\ env = update.was.env /\ update.fetched \in Commits
      /\ tree = [on |-> update.branch, at |-> update.was.refs[update.branch]] /\ refs = update.was.refs
  BY <1>1, <1>2, ListsAre DEF GoingOn
<1>4. /\ update' = [update EXCEPT !.todo = Then(done)]
      /\ UNCHANGED env /\ UNCHANGED images /\ UNCHANGED services /\ UNCHANGED heads /\ UNCHANGED origin
      /\ \/ tree' = [tree EXCEPT !.at = update.fetched] /\ refs' = [refs EXCEPT ![tree.on] = update.fetched]
         \/ ~done /\ tree' = tree /\ refs' = refs
  BY DEF Merge
<1>5. /\ Then(done) \in Seq(TodoSteps)
      /\ done => Then(done) = <<"pin", "recreate">>
      /\ ~done => Then(done) = UndoList(1, x)
  BY <1>1, <1>3, ThenIs, ListsAre
<1>6. /\ update' \in Updates /\ update'.todo = Then(done) /\ Kept /\ update'.to = update.to
      /\ update'.ok = update.ok /\ update'.restart = update.restart /\ update'.lost = update.lost
      /\ update'.fetched = update.fetched
  BY <1>2, <1>4, <1>5 DEF Updates, Kept, TodoSteps
<1>7. upsets' \in 0 .. MaxUpsets
  BY <1>2, CountIs DEF Merge
<1>8. update.branch \in LocalBranches /\ tree.on = update.branch /\ refs \in [LocalBranches -> Commits]
  BY <1>2, <1>3 DEF RunInv, LocalBranches, UpdaterTypeOK
<1>9. \/ /\ tree' = [on |-> update.branch, at |-> update.fetched]
         /\ refs' = [update.was.refs EXCEPT ![update.branch] = update.fetched]
      \/ ~done /\ tree' = tree /\ refs' = refs
  BY <1>3, <1>4, <1>8
<1>10. UpdaterTypeOK' /\ TreeInv'
  <2>1. tree' \in Trees /\ refs' \in [LocalBranches -> Commits] /\ TreeInv'
    BY <1>2, <1>3, <1>8, <1>9 DEF UpdaterTypeOK, Trees, TreeInv
  <2> QED
    BY <1>2, <1>4, <1>6, <1>7, <2>1 DEF UpdaterTypeOK
<1>11. OriginHeld' /\ (origin' = update'.was.origin \/ (Builds' /\ update'.was.origin # "fork"))
  BY <1>2, <1>3, <1>4, <1>6 DEF RunInv, OriginHeld, Needed, Builds, Kept, Untouched
<1>12. CASE done
  <2>1. GoingOn'
    <3>1. Ready'
      BY <1>3, <1>6, <1>9, <1>12 DEF Ready, Builds, Kept
    <3>2. Untouched' /\ env' = update'.was.env
      BY <1>3, <1>4, <1>6 DEF Untouched, Kept
    <3>3. update'.todo = <<"pin", "recreate">>
      BY <1>5, <1>6, <1>12
    <3>4. <<"pin", "recreate">> # <<"pin", "pull", "recreate">>
      BY ListsAre
    <3> QED
      BY <3>1, <3>2, <3>3, <3>4 DEF GoingOn
  <2> QED
    BY <1>1, <1>6, <1>10, <1>11, <2>1, RunKept
<1>13. CASE ~done
  <2>1. Moved'
    BY <1>3, <1>6, <1>8, <1>9 DEF Moved, Builds, Kept
  <2>2. UndoneTo(1, x)'
    BY <1>2, <1>3, <1>4, <1>6, <1>11, <2>1
       DEF UndoneTo, PinBack, ServicesBack, RemoteBack, Needed, Builds, Kept, Untouched
  <2> QED
    BY <1>1, <1>5, <1>6, <1>10, <1>11, <1>13, <2>2, RunKept
<1> QED
  BY <1>12, <1>13

\* What a checkout that was made, or none, can be undone from.
LEMMA ReadyIs ==
  ASSUME UpdaterInv, underway, Ready
  PROVE  Moved /\ (~Builds => CheckoutBack)
<1>1. update.was.refs \in [LocalBranches -> Commits] /\ RunInv
  BY UpdateIs
<1> QED
  BY <1>1 DEF Ready, Moved, CheckoutBack, AsItWas, RunInv, LocalBranches

LEMMA PinKeeps ==
  ASSUME UpdaterInv, NEW done \in BOOLEAN, Pin(done)
  PROVE  UpdaterInv'
<1> DEFINE x == "pin"
           to == IF update.strategy = "build" THEN <<"local", tree.at>> ELSE update.to
<1>1. At(x) /\ x \in Fallible /\ underway /\ update.todo # <<>> /\ Head(update.todo) = x
  BY DEF Pin, Fallible, At
<1>2. UpdaterTypeOK /\ RunInv /\ TreeInv /\ update \in Updates /\ GoingOn /\ update.was.env \in Pins
  BY <1>1, UpdateIs, GoesOnAt
<1>3. /\ update.todo \in {<<"pin", "recreate">>, <<"pin", "pull", "recreate">>}
      /\ Ready /\ Untouched /\ env = update.was.env
      /\ update.todo = <<"pin", "pull", "recreate">> => ~Builds
  BY <1>1, <1>2, ListsAre DEF GoingOn
<1>4. /\ update' = [update EXCEPT !.todo = Then(done), !.to = to]
      /\ UNCHANGED images /\ UNCHANGED services /\ UNCHANGED tree /\ UNCHANGED refs
      /\ UNCHANGED heads /\ UNCHANGED origin
      /\ env' = IF done THEN [current |-> to, previous |-> update.was.env.current] ELSE env
  BY DEF Pin
<1>5. /\ Then(done) \in Seq(TodoSteps)
      /\ done => \/ Then(done) = <<"recreate">>
                 \/ Then(done) = <<"pull", "recreate">> /\ ~Builds
      /\ ~done => Then(done) = UndoList(1, x)
  BY <1>1, <1>3, ThenIs, ListsAre
<1>6. to \in Tags /\ (~Builds => to = update.to)
  BY <1>2 DEF RunInv, UpdaterTypeOK, Tags, Trees, Builds
<1> HIDE DEF to
<1>7. /\ update' \in Updates /\ update'.todo = Then(done) /\ Kept /\ update'.to = to
      /\ update'.ok = update.ok /\ update'.restart = update.restart /\ update'.lost = update.lost
      /\ update'.fetched = update.fetched
  BY <1>2, <1>4, <1>5, <1>6 DEF Updates, Kept, TodoSteps
<1>8. upsets' \in 0 .. MaxUpsets
  BY <1>2, CountIs DEF Pin
<1>9. UpdaterTypeOK' /\ TreeInv'
  <2>1. env' \in Pins
    BY <1>2, <1>4, <1>6 DEF Pins, UpdaterTypeOK
  <2> QED
    BY <1>2, <1>4, <1>7, <1>8, <2>1 DEF UpdaterTypeOK, TreeInv
<1>10. OriginHeld' /\ (origin' = update'.was.origin \/ (Builds' /\ update'.was.origin # "fork"))
  BY <1>2, <1>3, <1>4, <1>7 DEF RunInv, OriginHeld, Needed, Builds, Kept, Untouched
<1>11. Ready' /\ Untouched'
  BY <1>3, <1>4, <1>7 DEF Ready, Untouched, AsItWas, Builds, Kept
<1>12. CASE done
  <2>1. env' = NewPin'
    BY <1>4, <1>7, <1>12 DEF NewPin, Kept
  <2>2. GoingOn'
    BY <1>5, <1>6, <1>7, <1>11, <1>12, <2>1, ListsAre DEF GoingOn, Builds, Kept
  <2> QED
    BY <1>1, <1>6, <1>7, <1>9, <1>10, <2>2, RunKept
<1>13. CASE ~done
  <2>1. Moved /\ (~Builds => CheckoutBack)
    BY <1>1, <1>3, ReadyIs
  <2>2. UndoneTo(1, x)'
    BY <1>2, <1>3, <1>4, <1>7, <1>10, <1>13, <2>1
       DEF UndoneTo, Moved, CheckoutBack, PinBack, ServicesBack, RemoteBack, Needed, Builds, Kept, Untouched
  <2> QED
    BY <1>1, <1>5, <1>6, <1>7, <1>9, <1>10, <1>13, <2>2, RunKept
<1> QED
  BY <1>12, <1>13

LEMMA PullKeeps ==
  ASSUME UpdaterInv, NEW done \in BOOLEAN, PullImages(done)
  PROVE  UpdaterInv'
<1> DEFINE x == "pull"
<1>1. At(x) /\ x \in Fallible /\ underway /\ update.todo # <<>> /\ Head(update.todo) = x
  BY DEF PullImages, Fallible, At
<1>2. UpdaterTypeOK /\ RunInv /\ TreeInv /\ update \in Updates /\ GoingOn
  BY <1>1, UpdateIs, GoesOnAt
<1>3. /\ update.todo = <<"pull", "recreate">> /\ ~Builds /\ Ready /\ Untouched /\ env = NewPin
      /\ update.to \in Tags
  BY <1>1, <1>2, ListsAre DEF GoingOn
<1>4. /\ update' = [update EXCEPT !.todo = Then(done)]
      /\ UNCHANGED env /\ UNCHANGED services /\ UNCHANGED tree /\ UNCHANGED refs
      /\ UNCHANGED heads /\ UNCHANGED origin
      /\ images' = IF done THEN images \cup {update.to} ELSE images
  BY DEF PullImages
<1>5. /\ Then(done) \in Seq(TodoSteps)
      /\ done => Then(done) = <<"recreate">>
      /\ ~done => Then(done) = UndoList(1, x)
  BY <1>1, <1>3, ThenIs, ListsAre
<1>6. /\ update' \in Updates /\ update'.todo = Then(done) /\ Kept /\ update'.to = update.to
      /\ update'.ok = update.ok /\ update'.restart = update.restart /\ update'.lost = update.lost
      /\ update'.fetched = update.fetched
  BY <1>2, <1>4, <1>5 DEF Updates, Kept, TodoSteps
<1>7. upsets' \in 0 .. MaxUpsets
  BY <1>2, CountIs DEF PullImages
<1>8. UpdaterTypeOK' /\ TreeInv'
  <2>1. images' \subseteq Tags
    BY <1>2, <1>3, <1>4 DEF UpdaterTypeOK
  <2> QED
    BY <1>2, <1>4, <1>6, <1>7, <2>1 DEF UpdaterTypeOK, TreeInv
<1>9. OriginHeld' /\ origin' = update'.was.origin
  BY <1>2, <1>3, <1>4, <1>6 DEF RunInv, OriginHeld, Needed, Builds, Kept, Untouched
<1>10. Ready' /\ Untouched' /\ env' = NewPin'
  BY <1>3, <1>4, <1>6 DEF Ready, Untouched, AsItWas, Builds, Kept, NewPin
<1>11. CASE done
  <2>1. GoingOn'
    BY <1>3, <1>5, <1>6, <1>10, <1>11, ListsAre DEF GoingOn
  <2> QED
    BY <1>1, <1>6, <1>8, <1>9, <2>1, RunKept
<1>12. CASE ~done
  <2>1. Moved /\ CheckoutBack
    BY <1>1, <1>3, ReadyIs
  <2>2. UndoneTo(1, x)'
    BY <1>2, <1>3, <1>4, <1>6, <1>9, <2>1
       DEF UndoneTo, Moved, CheckoutBack, PinBack, ServicesBack, RemoteBack, Needed, Builds, Kept, Untouched
  <2> QED
    BY <1>1, <1>5, <1>6, <1>8, <1>9, <1>12, <2>2, RunKept
<1> QED
  BY <1>11, <1>12

\* Of the services a failing recreation may leave any set new.
LEMMA CreatedIs ==
  ASSUME UpdaterTypeOK, NEW some \in SUBSET AppServices, NEW tag \in Tags, Created(some, tag)
  PROVE  /\ services' \in Deployed
         /\ some = {} => services' = services
         /\ some = AppServices => \A s \in AppServices : services'[s] = [image |-> tag, config |-> tree.at]
<1>1. services \in Deployed /\ tree.at \in Commits
  BY DEF UpdaterTypeOK, Trees
<1>2. services' \in Deployed
  BY <1>1 DEF Created, Deployed
<1>3. some = {} => services' = services
  BY <1>1 DEF Created, Deployed
<1> QED
  BY <1>2, <1>3 DEF Created

LEMMA RecreateKeeps ==
  ASSUME UpdaterInv, NEW done \in BOOLEAN, Recreate(done)
  PROVE  UpdaterInv'
<1> DEFINE x == "recreate"
           restart == IF done THEN "recreated" ELSE update.restart
<1>1. At(x) /\ x \in Fallible /\ underway /\ update.todo # <<>> /\ Head(update.todo) = x
  BY DEF Recreate, Fallible, At
<1>2. UpdaterTypeOK /\ RunInv /\ TreeInv /\ update \in Updates /\ GoingOn
  BY <1>1, UpdateIs, GoesOnAt
<1>3. update.todo = <<"recreate">> /\ Ready /\ Untouched /\ env = NewPin /\ update.to \in Tags
  BY <1>1, <1>2, ListsAre DEF GoingOn
<1>4. /\ update' = [update EXCEPT !.todo = Then(done), !.ok = done, !.restart = restart]
      /\ UNCHANGED env /\ UNCHANGED tree /\ UNCHANGED refs /\ UNCHANGED heads /\ UNCHANGED origin
  BY DEF Recreate
<1>5. PICK some \in SUBSET AppServices :
        Created(some, update.to) /\ (done => some = AppServices) /\ images' \in {images, images \cup {update.to}}
  BY DEF Recreate
<1>6. /\ Then(done) \in Seq(TodoSteps)
      /\ done => Then(done) = <<>>
      /\ ~done => Then(done) = UndoList(1, x)
  BY <1>1, <1>3, ThenIs, ListsAre
<1>7. restart \in {"not-required", "recreated", "manual"} /\ (~done => restart = "not-required")
  BY <1>3 DEF Untouched
<1> HIDE DEF restart
<1>8. /\ update' \in Updates /\ update'.todo = Then(done) /\ Kept /\ update'.to = update.to
      /\ update'.ok = done /\ update'.restart = restart /\ update'.lost = update.lost
      /\ update'.fetched = update.fetched
  BY <1>2, <1>4, <1>6, <1>7 DEF Updates, Kept, TodoSteps
<1>9. upsets' \in 0 .. MaxUpsets
  BY <1>2, CountIs DEF Recreate, UpdaterTypeOK
<1>10. UpdaterTypeOK' /\ TreeInv'
  <2>1. images' \subseteq Tags /\ services' \in Deployed
    BY <1>2, <1>3, <1>5, CreatedIs DEF UpdaterTypeOK
  <2> QED
    BY <1>2, <1>4, <1>8, <1>9, <2>1 DEF UpdaterTypeOK, TreeInv
<1>11. OriginHeld' /\ (origin' = update'.was.origin \/ (Builds' /\ update'.was.origin # "fork"))
  BY <1>2, <1>3, <1>4, <1>8 DEF RunInv, OriginHeld, Needed, Builds, Kept, Untouched
<1>12. CASE done
  <2>1. Uniform(update.to, tree.at)' /\ env' = NewPin'
    BY <1>2, <1>3, <1>4, <1>5, <1>8, <1>12, CreatedIs DEF Uniform, NewPin, Kept
  <2>2. GoingOn'
    BY <1>6, <1>8, <1>12, <2>1 DEF GoingOn
  <2> QED
    BY <1>1, <1>8, <1>10, <1>11, <2>2, RunKept
<1>13. CASE ~done
  <2>1. Moved /\ (~Builds => CheckoutBack)
    BY <1>1, <1>3, ReadyIs
  <2>2. UndoneTo(1, x)'
    BY <1>2, <1>3, <1>4, <1>8, <1>11, <1>13, <2>1
       DEF UndoneTo, Moved, CheckoutBack, RemoteBack, Needed, Builds, Kept, Untouched
  <2> QED
    BY <1>1, <1>6, <1>8, <1>10, <1>11, <1>13, <2>2, RunKept
<1> QED
  BY <1>12, <1>13

-----------------------------------------------------------------------------
(* What undoes a failed run *)

LEMMA RestoreCheckoutKeeps ==
  ASSUME UpdaterInv, NEW done \in BOOLEAN, RestoreCheckout(done)
  PROVE  UpdaterInv'
<1> DEFINE was == update.was.tree
           lost == IF done THEN update.lost ELSE update.lost \cup {"checkout"}
<1>1. At(UndoName(1)) /\ underway /\ update.todo # <<>>
  BY DEF RestoreCheckout, At, UndoName
<1>2. UpdaterTypeOK /\ RunInv /\ TreeInv /\ update \in Updates /\ was \in Trees
      /\ update.was.refs \in [LocalBranches -> Commits] /\ update.todo \in Seq(TodoSteps)
      /\ update.lost \subseteq {"checkout", "pin", "remote"}
  BY <1>1, UpdateIs
<1>3. PICK step \in Fallible :
        Undoing(1, step) /\ Needed(1, step) /\ Tail(update.todo) = UndoList(2, step)
  BY <1>1, <1>2, UndoAt
<1>4. /\ update' = [update EXCEPT !.todo = UndoList(2, step), !.lost = lost]
      /\ UNCHANGED env /\ UNCHANGED images /\ UNCHANGED services /\ UNCHANGED heads /\ UNCHANGED origin
      /\ tree' = IF done THEN was ELSE tree
      /\ refs' = IF done /\ was.on # "HEAD" THEN [refs EXCEPT ![was.on] = was.at] ELSE refs
  BY <1>3 DEF RestoreCheckout, Undone
<1>5. UndoList(2, step) \in Seq(TodoSteps) /\ lost \subseteq {"checkout", "pin", "remote"}
      /\ update.lost \subseteq lost /\ (~done => "checkout" \in lost)
  BY <1>2, UndoIs
<1> HIDE DEF lost
<1>6. /\ update' \in Updates /\ update'.todo = UndoList(2, step) /\ Kept /\ update'.to = update.to
      /\ update'.ok = update.ok /\ update'.restart = update.restart /\ update'.lost = lost
      /\ update'.fetched = update.fetched
  BY <1>2, <1>4, <1>5 DEF Updates, Kept, TodoSteps
<1>7. upsets' \in 0 .. MaxUpsets
  BY <1>2, CountIs DEF RestoreCheckout
<1>8. was.on # "HEAD" => was.on \in LocalBranches /\ was.at = update.was.refs[was.on]
  BY <1>2 DEF RunInv, Trees
<1>9. UpdaterTypeOK' /\ TreeInv'
  <2>1. tree' \in Trees /\ refs' \in [LocalBranches -> Commits] /\ TreeInv'
    BY <1>2, <1>4, <1>8 DEF UpdaterTypeOK, Trees, TreeInv
  <2> QED
    BY <1>2, <1>4, <1>6, <1>7, <2>1 DEF UpdaterTypeOK
<1>10. OriginHeld'
  BY <1>2, <1>4, <1>5, <1>6 DEF RunInv, OriginHeld, Needed, Builds, Kept
<1>11. UndoneTo(1, step)
  BY <1>3 DEF Undoing
<1>12. UndoneTo(2, step)'
  <2>1. Moved'
    BY <1>2, <1>4, <1>6, <1>8, <1>11 DEF UndoneTo, Moved, Builds, Kept, UpdaterTypeOK
  <2>2. CheckoutBack'
    BY <1>2, <1>4, <1>5, <1>6, <1>8 DEF CheckoutBack, Kept, UpdaterTypeOK
  <2> QED
    BY <1>4, <1>5, <1>6, <1>11, <2>1, <2>2
       DEF UndoneTo, PinBack, ServicesBack, RemoteBack, Needed, Builds, Kept, Uniform
<1> QED
  BY <1>1, <1>6, <1>9, <1>10, <1>12, RunKept

LEMMA UnpinKeeps ==
  ASSUME UpdaterInv, NEW done \in BOOLEAN, Unpin(done)
  PROVE  UpdaterInv'
<1> DEFINE was == update.was.env
           previous == IF was.previous = NoTag THEN was.current ELSE was.previous
           lost == IF done THEN update.lost ELSE update.lost \cup {"pin"}
<1>1. At(UndoName(2)) /\ underway /\ update.todo # <<>>
  BY DEF Unpin, At, UndoName
<1>2. UpdaterTypeOK /\ RunInv /\ TreeInv /\ update \in Updates /\ was \in Pins
      /\ update.todo \in Seq(TodoSteps) /\ update.lost \subseteq {"checkout", "pin", "remote"}
  BY <1>1, UpdateIs
<1>3. PICK step \in Fallible :
        Undoing(2, step) /\ Needed(2, step) /\ Tail(update.todo) = UndoList(3, step)
  BY <1>1, <1>2, UndoAt
<1>4. /\ update' = [update EXCEPT !.todo = UndoList(3, step), !.lost = lost]
      /\ UNCHANGED images /\ UNCHANGED services /\ UNCHANGED tree /\ UNCHANGED refs /\ UNCHANGED heads
      /\ UNCHANGED origin
      /\ env' = IF done THEN [was EXCEPT !.previous = previous] ELSE env
  BY <1>3 DEF Unpin, Undone
<1>5. UndoList(3, step) \in Seq(TodoSteps) /\ lost \subseteq {"checkout", "pin", "remote"}
      /\ update.lost \subseteq lost /\ ("checkout" \in lost => "checkout" \in update.lost)
      /\ (~done => "pin" \in lost) /\ previous \in Tags \cup {NoTag}
  BY <1>2, UndoIs DEF Pins
<1> HIDE DEF lost, previous
<1>6. /\ update' \in Updates /\ update'.todo = UndoList(3, step) /\ Kept /\ update'.to = update.to
      /\ update'.ok = update.ok /\ update'.restart = update.restart /\ update'.lost = lost
      /\ update'.fetched = update.fetched
  BY <1>2, <1>4, <1>5 DEF Updates, Kept, TodoSteps
<1>7. upsets' \in 0 .. MaxUpsets
  BY <1>2, CountIs DEF Unpin
<1>8. env' \in Pins /\ (done => env'.current = was.current)
  BY <1>2, <1>4, <1>5 DEF Pins, UpdaterTypeOK
<1>9. UpdaterTypeOK' /\ TreeInv'
  BY <1>2, <1>4, <1>6, <1>7, <1>8 DEF UpdaterTypeOK, TreeInv
<1>10. OriginHeld'
  BY <1>2, <1>4, <1>5, <1>6 DEF RunInv, OriginHeld, Needed, Builds, Kept
<1>11. UndoneTo(2, step)
  BY <1>3 DEF Undoing
<1>12. UndoneTo(3, step)'
  <2>1. Moved' /\ CheckoutBack'
    BY <1>4, <1>5, <1>6, <1>11 DEF UndoneTo, Moved, CheckoutBack, Builds, Kept
  <2>2. PinBack'
    BY <1>5, <1>6, <1>8 DEF PinBack, Kept
  <2> QED
    BY <1>4, <1>5, <1>6, <1>11, <2>1, <2>2
       DEF UndoneTo, ServicesBack, RemoteBack, Needed, Builds, Kept, Uniform
<1> QED
  BY <1>1, <1>6, <1>9, <1>10, <1>12, RunKept

\* Recovery is tried only from the checkout the services ran from.
LEMMA RecoverKeeps ==
  ASSUME UpdaterInv, NEW done \in BOOLEAN, Recover(done)
  PROVE  UpdaterInv'
<1> DEFINE from == update.was.env.current
           restart == IF done THEN "not-required" ELSE "manual"
<1>1. At(UndoName(3)) /\ underway /\ update.todo # <<>>
  BY DEF Recover, At, UndoName
<1>2. UpdaterTypeOK /\ RunInv /\ TreeInv /\ update \in Updates /\ from \in Tags
      /\ update.todo \in Seq(TodoSteps)
  BY <1>1, UpdateIs DEF Pins
<1>3. PICK step \in Fallible :
        Undoing(3, step) /\ Needed(3, step) /\ Tail(update.todo) = UndoList(4, step)
  BY <1>1, <1>2, UndoAt
<1>4. /\ update' = [update EXCEPT !.todo = UndoList(4, step), !.restart = restart]
      /\ UNCHANGED env /\ UNCHANGED images /\ UNCHANGED tree /\ UNCHANGED refs /\ UNCHANGED heads
      /\ UNCHANGED origin /\ (done => "checkout" \notin update.lost)
  BY <1>3 DEF Recover
<1>5. PICK some \in SUBSET AppServices : Created(some, from) /\ (done => some = AppServices)
  BY DEF Recover
<1>6. UndoList(4, step) \in Seq(TodoSteps) /\ restart \in {"not-required", "recreated", "manual"}
      /\ (~done => restart = "manual")
  BY UndoIs
<1> HIDE DEF restart
<1>7. /\ update' \in Updates /\ update'.todo = UndoList(4, step) /\ Kept /\ update'.to = update.to
      /\ update'.ok = update.ok /\ update'.restart = restart /\ update'.lost = update.lost
      /\ update'.fetched = update.fetched
  BY <1>2, <1>4, <1>6 DEF Updates, Kept, TodoSteps
<1>8. upsets' \in 0 .. MaxUpsets
  BY <1>2, CountIs DEF Recover, UpdaterTypeOK
<1>9. UpdaterTypeOK' /\ TreeInv'
  <2>1. services' \in Deployed
    BY <1>2, <1>5, CreatedIs
  <2> QED
    BY <1>2, <1>4, <1>7, <1>8, <2>1 DEF UpdaterTypeOK, TreeInv
<1>10. OriginHeld'
  BY <1>2, <1>4, <1>7 DEF RunInv, OriginHeld, Needed, Builds, Kept
<1>11. UndoneTo(3, step)
  BY <1>3 DEF Undoing
<1>12. UndoneTo(4, step)'
  <2>1. CheckoutBack
    BY <1>11 DEF UndoneTo
  <2>2. Moved' /\ CheckoutBack'
    BY <1>4, <1>7, <1>11, <2>1 DEF UndoneTo, Moved, CheckoutBack, Builds, Kept
  <2>3. ServicesBack'
    <3>1. CASE done
      <4>1. tree.at = update.was.tree.at
        BY <1>4, <2>1, <3>1 DEF CheckoutBack
      <4>2. \A s \in AppServices : services'[s] = [image |-> from, config |-> tree.at]
        BY <1>2, <1>5, <3>1, CreatedIs
      <4> QED
        BY <1>7, <4>1, <4>2 DEF ServicesBack, Uniform, Kept
    <3>2. CASE ~done
      BY <1>6, <1>7, <3>2 DEF ServicesBack
    <3> QED
      BY <3>1, <3>2
  <2> QED
    BY <1>4, <1>7, <1>11, <2>2, <2>3 DEF UndoneTo, PinBack, RemoteBack, Needed, Builds, Kept
<1> QED
  BY <1>1, <1>7, <1>9, <1>10, <1>12, RunKept

LEMMA RestoreRemoteKeeps ==
  ASSUME UpdaterInv, NEW done \in BOOLEAN, RestoreRemote(done)
  PROVE  UpdaterInv'
<1> DEFINE lost == IF done THEN update.lost ELSE update.lost \cup {"remote"}
<1>1. At(UndoName(4)) /\ underway /\ update.todo # <<>>
  BY DEF RestoreRemote, At, UndoName
<1>2. UpdaterTypeOK /\ RunInv /\ TreeInv /\ update \in Updates
      /\ update.was.origin \in {"official", "fork"}
      /\ update.todo \in Seq(TodoSteps) /\ update.lost \subseteq {"checkout", "pin", "remote"}
  BY <1>1, UpdateIs
<1>3. PICK step \in Fallible :
        Undoing(4, step) /\ Needed(4, step) /\ Tail(update.todo) = UndoList(5, step)
  BY <1>1, <1>2, UndoAt
<1>4. /\ update' = [update EXCEPT !.todo = UndoList(5, step), !.lost = lost]
      /\ UNCHANGED env /\ UNCHANGED images /\ UNCHANGED services /\ UNCHANGED tree /\ UNCHANGED refs
      /\ UNCHANGED heads
      /\ origin' = IF done THEN update.was.origin ELSE origin
  BY <1>3 DEF RestoreRemote, Undone
<1>5. UndoList(5, step) \in Seq(TodoSteps) /\ lost \subseteq {"checkout", "pin", "remote"}
      /\ update.lost \subseteq lost /\ (~done => "remote" \in lost)
      /\ ("checkout" \in lost => "checkout" \in update.lost) /\ ("pin" \in lost => "pin" \in update.lost)
  BY <1>2, UndoIs
<1> HIDE DEF lost
<1>6. /\ update' \in Updates /\ update'.todo = UndoList(5, step) /\ Kept /\ update'.to = update.to
      /\ update'.ok = update.ok /\ update'.restart = update.restart /\ update'.lost = lost
      /\ update'.fetched = update.fetched
  BY <1>2, <1>4, <1>5 DEF Updates, Kept, TodoSteps
<1>7. upsets' \in 0 .. MaxUpsets
  BY <1>2, CountIs DEF RestoreRemote
<1>8. UpdaterTypeOK' /\ TreeInv'
  <2>1. origin' \in {"official", "fork"}
    BY <1>2, <1>4 DEF UpdaterTypeOK
  <2> QED
    BY <1>2, <1>4, <1>6, <1>7, <2>1 DEF UpdaterTypeOK, TreeInv
<1>9. OriginHeld' /\ RemoteBack'
  BY <1>4, <1>5, <1>6 DEF OriginHeld, RemoteBack, Kept
<1>10. UndoneTo(4, step)
  BY <1>3 DEF Undoing
<1>11. UndoneTo(5, step)'
  <2>1. Moved' /\ CheckoutBack'
    BY <1>4, <1>5, <1>6, <1>10 DEF UndoneTo, Moved, CheckoutBack, Builds, Kept
  <2> QED
    BY <1>4, <1>5, <1>6, <1>9, <1>10, <2>1
       DEF UndoneTo, PinBack, ServicesBack, Kept, Uniform
<1> QED
  BY <1>1, <1>6, <1>8, <1>9, <1>11, RunKept

-----------------------------------------------------------------------------
(* The rest, and the theorems *)

\* A run sees nothing of what is published or pruned beside it.
LEMMA BesideKeeps ==
  ASSUME UpdaterInv, UpdaterTypeOK', UNCHANGED <<env, services, tree, refs, origin, update>>
  PROVE  UpdaterInv'
<1>1. TreeInv'
  BY DEF UpdaterInv, TreeInv
<1>2. ASSUME underway PROVE UpdaterInv'
  <2>1. Kept /\ update'.to = update.to /\ RunInv
    BY <1>2 DEF UpdaterInv, Kept
  <2>2. OriginHeld'
    BY <2>1 DEF RunInv, OriginHeld, Needed, Builds
  <2>3. GoingOn => GoingOn'
    BY DEF GoingOn, Builds, AsItWas, Untouched, Ready, NewPin, Uniform
  <2>4. ASSUME NEW k \in 1 .. 5, NEW step \in Fallible, Undoing(k, step)
        PROVE  update'.todo = UndoList(k, step) /\ UndoneTo(k, step)'
    BY <2>4 DEF Undoing, UndoneTo, Moved, CheckoutBack, PinBack, ServicesBack, RemoteBack, Needed, Builds, Uniform
  <2>5. GoingOn' \/ \E k \in 1 .. 5, step \in Fallible :
                      update'.todo = UndoList(k, step) /\ UndoneTo(k, step)'
    BY <2>1, <2>3, <2>4 DEF RunInv
  <2> QED
    BY <1>1, <1>2, <2>1, <2>2, <2>5, RunKept
<1>3. underway' <=> underway
  BY DEF underway
<1> QED
  BY <1>1, <1>2, <1>3 DEF UpdaterInv

LEMMA Preserves == UpdaterInv /\ [UpdaterNext]_updaterVars => UpdaterInv'
<1> SUFFICES ASSUME UpdaterInv, [UpdaterNext]_updaterVars PROVE UpdaterInv'
  OBVIOUS
<1>1. UpdaterTypeOK /\ TreeInv
  BY DEF UpdaterInv
<1>2. CASE ApplyRelease \/ (\E b \in Branches : ApplyBranch(b)) \/ Rollback
  BY <1>2, RunsBegin
<1>3. ASSUME NEW done \in BOOLEAN, Command(done) PROVE UpdaterInv'
  BY <1>3, PointRemoteKeeps, FetchKeeps, CheckoutKeeps, MergeKeeps, PinKeeps, PullKeeps, RecreateKeeps,
     RestoreCheckoutKeeps, UnpinKeeps, RecoverKeeps, RestoreRemoteKeeps DEF Command
<1>4. CASE Answered \/ UpdaterDies
  <2>1. update' = NoUpdate /\ UNCHANGED <<env, images, services, tree, refs, origin, heads>>
        /\ upsets' \in 0 .. MaxUpsets
    BY <1>1, <1>4, UpdaterAssumption DEF Answered, UpdaterDies, UpdaterTypeOK
  <2>2. ~underway' /\ TreeInv'
    BY <1>1, <2>1 DEF underway, TreeInv
  <2>3. UpdaterTypeOK'
    BY <1>1, <2>1, <2>2 DEF UpdaterTypeOK
  <2> QED
    BY <2>2, <2>3 DEF UpdaterInv
<1>5. ASSUME NEW l \in DOMAIN heads, Publish(l) PROVE UpdaterInv'
  <2>1. heads' \in [Branches \cup {"release"} -> 0 .. MaxCommits]
    BY <1>1, <1>5, UpdaterAssumption DEF UpdaterTypeOK, Publish
  <2>2. UNCHANGED <<env, images, services, tree, refs, origin, update, upsets>>
    BY <1>5 DEF Publish
  <2>3. UpdaterTypeOK'
    BY <1>1, <2>1, <2>2 DEF UpdaterTypeOK, underway
  <2> QED
    BY <2>2, <2>3, BesideKeeps
<1>6. ASSUME NEW tag \in images, Prune(tag) PROVE UpdaterInv'
  <2>1. images' \subseteq Tags /\ upsets' \in 0 .. MaxUpsets
    BY <1>1, <1>6, UpdaterAssumption DEF UpdaterTypeOK, Prune
  <2>2. UNCHANGED <<env, services, tree, refs, origin, heads, update>>
    BY <1>6 DEF Prune
  <2>3. UpdaterTypeOK'
    BY <1>1, <2>1, <2>2 DEF UpdaterTypeOK, underway
  <2> QED
    BY <2>2, <2>3, BesideKeeps
<1>7. CASE UNCHANGED updaterVars
  <2>1. UNCHANGED <<env, images, services, tree, refs, origin, heads, update, upsets>>
    BY <1>7 DEF updaterVars
  <2>2. UpdaterTypeOK'
    BY <1>1, <2>1 DEF UpdaterTypeOK, underway
  <2> QED
    BY <2>1, <2>2, BesideKeeps
<1> QED
  BY <1>2, <1>3, <1>4, <1>5, <1>6, <1>7 DEF UpdaterNext

LEMMA UpdaterHolds == UpdaterSpec => []UpdaterInv
BY Starts, Preserves, PTL DEF UpdaterSpec

\* The pin, the images, the services, the checkout and the run stay within their types: no command
\* creates a service from, or pins, what is no image.  (execute of the updater)
THEOREM UpdaterTypeCorrect == UpdaterSpec => []UpdaterTypeOK
<1>1. UpdaterInv => UpdaterTypeOK
  BY DEF UpdaterInv
<1> QED
  BY <1>1, UpdaterHolds, PTL

\* However many services and branches there are and whichever commands and undos fail, what a run
\* answers is what it left behind.  (execute of the updater)
THEOREM ReportsAreHonest == UpdaterSpec => []HonestReport
<1>1. UpdaterInv => HonestReport
  <2> SUFFICES ASSUME UpdaterInv, underway, update.todo = <<>>
               PROVE  LET was == update.was IN
                 /\ update.ok => Uniform(update.to, tree.at) /\ env = [current |-> update.to, previous |-> was.env.current]
                 /\ (~update.ok /\ update.restart = "not-required") =>
                      services = was.services \/ Uniform(was.env.current, was.tree.at)
                 /\ (~update.ok /\ "pin" \notin update.lost) => env.current = was.env.current
                 /\ (~update.ok /\ "checkout" \notin update.lost) =>
                      /\ tree = was.tree
                      /\ \A b \in LocalBranches : refs[b] # was.refs[b] =>
                             b = update.branch /\ b # was.tree.on /\ refs[b] = update.fetched
                 /\ (~update.ok /\ "remote" \notin update.lost) => origin = was.origin
    BY DEF HonestReport
  <2>1. RunInv
    BY UpdateIs
  <2>2. CASE GoingOn
    <3>1. update.ok /\ Uniform(update.to, tree.at) /\ env = NewPin
      BY <2>2, ListsAre DEF GoingOn
    <3> QED
      BY <3>1 DEF NewPin
  <2>3. ASSUME NEW k \in 1 .. 5, NEW step \in Fallible, Undoing(k, step) PROVE Undoing(5, step)
    <3>1. \A j \in 1 .. 4 : ~(Undoing(j, step) /\ Needed(j, step))
      BY UndoIs DEF Undoing
    <3> QED
      BY <2>3, <3>1, Stage
  <2>4. CASE \E k \in 1 .. 5, step \in Fallible : Undoing(k, step)
    <3>1. PICK step \in Fallible : Undoing(5, step)
      BY <2>3, <2>4
    <3>2. ~update.ok /\ Moved /\ CheckoutBack /\ PinBack /\ ServicesBack /\ RemoteBack
      BY <3>1 DEF Undoing, UndoneTo
    <3>3. ASSUME NEW b \in LocalBranches, "checkout" \notin update.lost, refs[b] # update.was.refs[b]
          PROVE  b = update.branch /\ b # update.was.tree.on /\ refs[b] = update.fetched
      <4>1. b = update.branch /\ refs[b] = update.fetched /\ b \in Branches
        BY <2>1, <3>2, <3>3 DEF Moved, RunInv
      <4>2. b # "HEAD"
        BY <4>1, UpdaterAssumption
      <4> QED
        BY <3>2, <3>3, <4>1, <4>2 DEF CheckoutBack
    <3> QED
      BY <3>2, <3>3 DEF CheckoutBack, PinBack, ServicesBack, RemoteBack
  <2> QED
    BY <2>1, <2>2, <2>4 DEF RunInv
<1> QED
  BY <1>1, UpdaterHolds, PTL

=============================================================================
