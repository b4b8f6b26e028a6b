--------------------------------- MODULE Updater ---------------------------------
(***************************************************************************)
(* The updater sidecar of a self-hosted deployment: one update or rollback *)
(* at a time moves the checkout, the pin in .env, the image cache and the  *)
(* running services, and a failure of any command undoes what the ones     *)
(* before it did, each undo being a command that may fail too.             *)
(* A commit is <<line, number>>; a tag is <<"sha" or "local", commit>>.    *)
(***************************************************************************)
EXTENDS Naturals, Sequences, FiniteSets

CONSTANTS
  AppServices,  \* the services that run the application image
  Branches,     \* branches of the fork
  MaxCommits,   \* bound: commits published on a branch, and stable releases
  MaxUpsets     \* bound: commands that fail, deaths of the sidecar, prunings of the cache

ASSUME UpdaterAssumption ==  \* git refuses a branch of that name
  "HEAD" \notin Branches /\ MaxCommits \in Nat \ {0} /\ MaxUpsets \in Nat

VARIABLES
  env,      \* RAKAZO_IMAGE_TAG and RAKAZO_IMAGE_TAG_PREVIOUS
  images,   \* tags in the Docker cache of the host
  services, \* image and Compose configuration each service was created from
  tree,     \* branch ("HEAD" when detached) and commit of the checkout
  refs,     \* local branches
  origin,   \* the repository the remote of the checkout points at
  heads,    \* last commit of each branch of the fork and, under "release", the newest release
  update,   \* the run in progress, with the record it will answer
  upsets

updaterVars == <<env, images, services, tree, refs, origin, heads, update, upsets>>

\* The operator installed from a branch of its own, or from one of the fork's.
Home == "deploy"
LocalBranches == Branches \cup {Home}
Commits == (LocalBranches \cup {"release"}) \X (0 .. MaxCommits)
Tags == {"sha", "local"} \X Commits
NoCommit == <<"none", 0>>
NoTag == <<"none", NoCommit>>
Pins == [current : Tags, previous : Tags \cup {NoTag}]
Trees == [on : LocalBranches \cup {"HEAD"}, at : Commits]
Deployed == [AppServices -> [image : Tags, config : Commits]]
NoUpdate == [todo |-> <<"idle">>]
underway == update # NoUpdate

\* The record and the locals of execute; "was" is what it read before its first command.
Updates ==
  [strategy : {"pull", "build", "rollback"}, branch : Branches \cup {"none"},
   todo : Seq({"remote", "fetch", "checkout", "merge", "pin", "pull", "recreate",
               "restore-checkout", "unpin", "recover", "restore-remote"}),
   to : Tags \cup {NoTag}, fetched : Commits \cup {NoCommit},
   was : [env : Pins, services : Deployed, tree : Trees, refs : [LocalBranches -> Commits],
          origin : {"official", "fork"}],
   ok : BOOLEAN, restart : {"not-required", "recreated", "manual"},
   lost : SUBSET {"checkout", "pin", "remote"}]

UpdaterTypeOK ==
  /\ env \in Pins /\ images \subseteq Tags /\ services \in Deployed
  /\ tree \in Trees /\ refs \in [LocalBranches -> Commits] /\ origin \in {"official", "fork"}
  /\ heads \in [Branches \cup {"release"} -> 0 .. MaxCommits]
  /\ (underway => update \in Updates)
  /\ upsets \in 0 .. MaxUpsets

\* A deployment on the first release, its checkout on a branch or detached.
UpdaterInit ==
  LET installed == <<"sha", <<"release", 0>>>> IN
  /\ env = [current |-> installed, previous |-> NoTag] /\ images = {installed}
  /\ tree \in {[on |-> b, at |-> <<b, 0>>] : b \in LocalBranches} \cup {[on |-> "HEAD", at |-> <<Home, 0>>]}
  /\ services = [s \in AppServices |-> [image |-> installed, config |-> tree.at]]
  /\ refs = [b \in LocalBranches |-> <<b, 0>>] /\ origin \in {"official", "fork"}
  /\ heads = [l \in Branches \cup {"release"} |-> 0]
  /\ update = NoUpdate /\ upsets = 0

--------------------------------------------------------------------------------
(* The plan of a run *)

When(needed, step, steps) == IF needed THEN <<step>> \o steps ELSE steps

StartUpdate(strategy, branch, to, steps) ==
  update' = [strategy |-> strategy, branch |-> branch, todo |-> steps, to |-> to, fetched |-> NoCommit,
             was |-> [env |-> env, services |-> services, tree |-> tree, refs |-> refs,
                      origin |-> origin],
             ok |-> FALSE, restart |-> "not-required", lost |-> {}]

\* apply of the official repository; a host that is pinned to the newest release answers so.
ApplyRelease ==
  LET to == <<"sha", <<"release", heads["release"]>>>> IN
  /\ ~underway /\ env.current # to
  /\ StartUpdate("pull", "none", to, <<"pin", "pull", "recreate">>)
  /\ UNCHANGED <<env, images, services, tree, refs, origin, heads, upsets>>

\* apply of a branch of a fork: current only when the checkout is on its head and that build is pinned.
ApplyBranch(b) ==
  /\ ~underway /\ ~(tree.at = <<b, heads[b]>> /\ env.current = <<"local", tree.at>>)
  /\ StartUpdate("build", b, NoTag,
                 When(origin # "fork", "remote", <<"fetch", "checkout", "merge", "pin", "recreate">>))
  /\ UNCHANGED <<env, images, services, tree, refs, origin, heads, upsets>>

\* rollback: the recorded tag from the cache, never a pull.
Rollback ==
  /\ ~underway /\ env.previous \notin {NoTag, env.current}
  /\ StartUpdate("rollback", "none", env.previous, <<"pin", "recreate">>)
  /\ UNCHANGED <<env, images, services, tree, refs, origin, heads, upsets>>

--------------------------------------------------------------------------------
(* execute, one command at a time *)

At(step) == underway /\ update.todo # <<>> /\ Head(update.todo) = step

\* A command that fails is one of the upsets.
Counted(done) == (done \/ upsets < MaxUpsets) /\ upsets' = IF done THEN upsets ELSE upsets + 1

\* The services would be recreated before the checkout they are created from is back.
UndoMutantRecoverFirst(step) ==
  When(step \in {"pull", "recreate"}, "unpin",
  When(step = "recreate", "recover",
  When(update.strategy = "build" /\ step \notin {"remote", "fetch"}, "restore-checkout",
  When(update.strategy = "build" /\ update.was.origin # "fork", "restore-remote", <<>>))))

\* restoreCheckout before Compose recovery, else in finally; the remote last.
Undo(step) ==
  When(update.strategy = "build" /\ step \notin {"remote", "fetch"}, "restore-checkout",
  When(step \in {"pull", "recreate"}, "unpin",
  When(step = "recreate", "recover",
  When(update.strategy = "build" /\ update.was.origin # "fork", "restore-remote", <<>>))))

Then(done) == IF done THEN Tail(update.todo) ELSE Undo(Head(update.todo))

\* A git command that fails may have done its work all the same.
PointRemote(done) ==
  /\ At("remote") /\ Counted(done)
  /\ origin' = "fork" \/ (~done /\ UNCHANGED origin)
  /\ update' = [update EXCEPT !.todo = Then(done)]
  /\ UNCHANGED <<env, images, services, tree, refs, heads>>

Fetch(done) ==
  /\ At("fetch") /\ Counted(done)
  /\ update' = [update EXCEPT !.todo = Then(done), !.fetched = <<update.branch, heads[update.branch]>>]
  /\ UNCHANGED <<env, images, services, tree, refs, origin, heads>>

Checkout(done) ==
  /\ At("checkout") /\ Counted(done)
  /\ tree' = [on |-> update.branch, at |-> refs[update.branch]] \/ (~done /\ UNCHANGED tree)
  /\ update' = [update EXCEPT !.todo = Then(done)]
  /\ UNCHANGED <<env, images, services, refs, origin, heads>>

Merge(done) ==
  /\ At("merge") /\ Counted(done)
  /\ \/ tree' = [tree EXCEPT !.at = update.fetched] /\ refs' = [refs EXCEPT ![tree.on] = update.fetched]
     \/ ~done /\ UNCHANGED <<tree, refs>>
  /\ update' = [update EXCEPT !.todo = Then(done)]
  /\ UNCHANGED <<env, images, services, origin, heads>>

\* A build knows its tag only now: it is the commit of the checkout.  .env is replaced by a rename.
Pin(done) ==
  LET to == IF update.strategy = "build" THEN <<"local", tree.at>> ELSE update.to IN
  /\ At("pin") /\ Counted(done)
  /\ env' = IF done THEN [current |-> to, previous |-> update.was.env.current] ELSE env
  /\ update' = [update EXCEPT !.todo = Then(done), !.to = to]
  /\ UNCHANGED <<images, services, tree, refs, origin, heads>>

PullImages(done) ==
  /\ At("pull") /\ Counted(done)
  /\ images' = IF done THEN images \cup {update.to} ELSE images
  /\ update' = [update EXCEPT !.todo = Then(done)]
  /\ UNCHANGED <<env, services, tree, refs, origin, heads>>

\* compose up --pull never: some services may be new when it fails, none without the image.
Created(some, tag) ==
  services' = [s \in AppServices |-> IF s \in some THEN [image |-> tag, config |-> tree.at] ELSE services[s]]

Recreate(done) ==
  LET held == update.to \in images  builds == update.strategy = "build" IN
  /\ At("recreate") /\ (done => held \/ builds)
  /\ IF held \/ builds THEN Counted(done) ELSE UNCHANGED upsets
  /\ \E built \in {held, held \/ builds}, some \in SUBSET AppServices :
       /\ done => built /\ some = AppServices
       /\ ~built => some = {}
       /\ images' = IF built THEN images \cup {update.to} ELSE images
       /\ Created(some, update.to)
  /\ update' = [update EXCEPT !.todo = Then(done), !.ok = done,
                              !.restart = IF done THEN "recreated" ELSE @]
  /\ UNCHANGED <<env, tree, refs, origin, heads>>

--------------------------------------------------------------------------------
(* What undoes a failed run *)

Undone(what, done) == update' = [update EXCEPT !.todo = Tail(@), !.lost = IF done THEN @ ELSE @ \cup {what}]

\* checkout -B moves the branch back with it; --detach leaves every branch where it is.
RestoreCheckout(done) ==
  LET was == update.was.tree IN
  /\ At("restore-checkout") /\ Counted(done) /\ Undone("checkout", done)
  /\ tree' = IF done THEN was ELSE tree
  /\ refs' = IF done /\ was.on # "HEAD" THEN [refs EXCEPT ![was.on] = was.at] ELSE refs
  /\ UNCHANGED <<env, images, services, origin, heads>>

Unpin(done) ==
  LET was == update.was.env IN
  /\ At("unpin") /\ Counted(done) /\ Undone("pin", done)
  /\ env' = IF done THEN [was EXCEPT !.previous = IF @ = NoTag THEN was.current ELSE @] ELSE env
  /\ UNCHANGED <<images, services, tree, refs, origin, heads>>

\* The image that ran before, from the checkout it ran from; skipped when that was not restored.
Recover(done) ==
  LET from == update.was.env.current  held == from \in images
      tried == "checkout" \notin update.lost /\ held IN
  /\ At("recover") /\ (done => tried)
  /\ IF tried THEN Counted(done) ELSE UNCHANGED upsets
  /\ \E some \in SUBSET AppServices :
       (done => some = AppServices) /\ (~tried => some = {}) /\ Created(some, from)
  /\ update' = [update EXCEPT !.todo = Tail(@), !.restart = IF done THEN "not-required" ELSE "manual"]
  /\ UNCHANGED <<env, images, tree, refs, origin, heads>>

RestoreRemote(done) ==
  /\ At("restore-remote") /\ Counted(done) /\ Undone("remote", done)
  /\ origin' = IF done THEN update.was.origin ELSE origin
  /\ UNCHANGED <<env, images, services, tree, refs, heads>>

--------------------------------------------------------------------------------
(* The rest of the deployment *)

Answered ==
  /\ underway /\ update.todo = <<>>
  /\ update' = NoUpdate
  /\ UNCHANGED <<env, images, services, tree, refs, origin, heads, upsets>>

\* The sidecar dies: what it did stays, nothing undoes it and no report says so.
UpdaterDies ==
  /\ underway /\ update.todo # <<>> /\ upsets < MaxUpsets
  /\ update' = NoUpdate /\ upsets' = upsets + 1
  /\ UNCHANGED <<env, images, services, tree, refs, origin, heads>>

Publish(l) ==
  /\ heads[l] < MaxCommits
  /\ heads' = [heads EXCEPT ![l] = @ + 1]
  /\ UNCHANGED <<env, images, services, tree, refs, origin, update, upsets>>

\* The operator prunes an image no container uses.
Prune(tag) ==
  /\ tag \in images /\ upsets < MaxUpsets /\ \A s \in AppServices : services[s].image # tag
  /\ images' = images \ {tag} /\ upsets' = upsets + 1
  /\ UNCHANGED <<env, services, tree, refs, origin, heads, update>>

Command(done) ==
  \/ PointRemote(done) \/ Fetch(done) \/ Checkout(done) \/ Merge(done) \/ Pin(done)
  \/ PullImages(done) \/ Recreate(done)
  \/ RestoreCheckout(done) \/ Unpin(done) \/ Recover(done) \/ RestoreRemote(done)

UpdaterNext ==
  \/ ApplyRelease \/ (\E b \in Branches : ApplyBranch(b)) \/ Rollback
  \/ \E done \in BOOLEAN : Command(done)
  \/ Answered \/ UpdaterDies
  \/ \E l \in DOMAIN heads : Publish(l)
  \/ \E tag \in images : Prune(tag)

UpdaterSpec == UpdaterInit /\ [][UpdaterNext]_updaterVars

--------------------------------------------------------------------------------
(* Correctness *)

\* All services were created from this tag with the configuration of this commit.
Uniform(tag, commit) == \A s \in AppServices : services[s] = [image |-> tag, config |-> commit]

\* What a run answers is what it left behind, whichever commands failed in whatever order: after a
\* success every service runs the tag that is pinned; after a failure that asks for no manual work
\* the services are untouched or all recreated from the old image and the old checkout, and the
\* pin, the checkout with its branches and the remote are the old ones unless the answer says that
\* this one could not be restored (execute of the updater).
HonestReport ==
  (underway /\ update.todo = <<>>) =>
    LET was == update.was IN
    /\ update.ok => Uniform(update.to, tree.at) /\ env = [current |-> update.to, previous |-> was.env.current]
    /\ (~update.ok /\ update.restart = "not-required") =>
         services = was.services \/ Uniform(was.env.current, was.tree.at)
    /\ (~update.ok /\ "pin" \notin update.lost) => env.current = was.env.current
    /\ (~update.ok /\ "checkout" \notin update.lost) =>
         /\ tree = was.tree
         /\ \A b \in LocalBranches : refs[b] # was.refs[b] =>
                b = update.branch /\ b # was.tree.on /\ refs[b] = update.fetched
    /\ (~update.ok /\ "remote" \notin update.lost) => origin = was.origin
=============================================================================
