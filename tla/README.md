# Verification of Filecloud

Filecloud keeps worktrees of several devices in step with a library on a
server. Snapshots are content addressed; a library has one Head, published by
compare-and-set; merges are made on the client. This directory holds TLA+
modules translated from the Go sources, TLC configurations that check them on
small instances, and proofs checked by TLAPS. `PROJECT.json` maps every
definition to the lines it stands for and lists runs, mutants, hazards,
findings and theorems.

## The system

| Part | State | Operations | Hard behaviour |
|---|---|---|---|
| Head publication (`internal/library/head.go`, `head_limits.go`, `internal/storage/libraries.go`) | `libraries.head_commit_id`, `head_version`, tables `published_commits`, `published_commit_roles`, the limiter in memory | `PUT head`: admit, validate the candidate and its chain of second parents, compare-and-set with role rows | two requests race; uploads go on; requests time out; the server stops between steps |
| Commit roles backfill (`internal/storage/published_roles.go`) | the same tables | migration 6 derives the roles of histories published before roles existed | must agree with what the server would have written |
| Object publication (`internal/storage/objects.go`, `upload.go`, handlers) | object files, temporary files, `upload_charges`, slots, disk reservation, a gate per object | `PUT` of blocks and metadata | concurrent uploads of one object, faults at each step, loss of power between link and directory sync, refunds |
| Garbage collection (`internal/storage/gc.go`) | the mark set and the plan | mark from the published commits, plan, delete; offline, under the data lock | stops between deletions, unreadable metadata, servers that start on the rest |
| Synchronisation (`cmd/filecloud/library_sync.go`, `library_merge.go`) | `bindings` (Sync Base), `pending_publications`, `pending_checkouts`, `path_index`, the worktree | scan, read Head, capture, merge, upload, publish, recover, check out | users edit at any moment, devices overtake one another, answers are lost, the client is killed |
| Three-way merge (`library_merge.go`) | none (trees of objects) | merge by path, conflict copies and their names, the lineage of captured files, replay of a candidate that was overtaken | structural conflicts, repeated merges, promotions that must agree with the result |
| Checkout and its journal (`client_fs_actions.go`, `library_sync.go`, `library_checkout.go`) | `pending_checkouts`, `checkout_paths`, `sync_recoveries`, `sync_recovery_promotions`, `fs_actions`, the worktree | capture, install, promote, check, commit of the Sync Base, cleanup; recovery, rollback, unbind | kill between row and call; users change the same paths; rollback of a half-made checkout |
| Restore (`library_restore*.go`) | a row of `pending_publications` of kind restore | lay files of an old commit over the current tree and preview it; confirm; publish; give up | Head and worktree move between preview, confirmation and PUT; sync and watch meet the row |
| Worktree scan (`worktree_scan.go`) | none | hash a tree that may change meanwhile | torn reads |
| History API (`history.go`, `history_limits.go`) | none (the token pins an anchor) | list, get | pages while the Head moves |
| Accounts and sessions (`accounts.go`, `internal/auth`) | users, tokens, KDF limiter | create, reset, login, logout | limiter accounting |
| Integrity check, schema and migrations, data lock (`integrity.go`, `storage.go`, `lock_*.go`) | the data directory | open, check, migrate | processes sharing one directory |
| Object encoding, health, log, filesystem wrappers, tools | none | pure functions, reporting | |

Devices talk to the server by HTTP requests; handlers share the database (one
transaction per operation), the object directory and counters in memory.
Server, collector and administrative commands exclude one another by the data
lock. `sync` of one worktree is exclusive by the client's lock; different
devices meet only at the server.

What makes each part correct:

* **Head publication**: a published history is complete, its role rows tell
  its shape, versions count it, conflicts mean that somebody else progressed,
  and the whole handler is one atomic step to its clients.
* **Object publication**: an acknowledged object survives; slots, reservation,
  gates and charges are exact over every exit; budgets and the minimum of free
  disk hold; every upload is answered.
* **Garbage collection**: nothing of a published history is removed.
* **Synchronisation**: no version of a file is lost unless a user deleted it;
  what was deleted stays deleted; large deletions are confirmed; the rows of
  the client can always be gone on from; devices come to rest at the Head.
* **Merge and checkout**: what both sides did to their base is there at the
  end; user files are never overwritten or deleted; what a kill leaves can be
  completed or rolled back from the rows and the paths alone; a rollback ends
  where the checkout began; the journal passes its own validation.
* **Restore**: only what the user saw and confirmed is published, by whichever
  command; it goes over the very tree it was made of, never over a newer one;
  the preview names what changes, and only that changes.
* **History**: a listing is one chain. (Not modelled.)

## Modules

| Module | Models |
|---|---|
| `HeadPublication` | `updateHead` step by step, with limiter, walk, transaction, cancelled requests, uploads, stop and start of the server |
| `AtomicPublication` | what it promises: publication in one atomic step, objects that appear |
| `PublishedRoles` | the proof of roles by migration 6, as operators over a history |
| `HeadPublicationProofs` | the theorems about `HeadPublication` and about the proof of roles |
| `GarbageCollection` | the collector, the server of `HeadPublication` and loss of power over one data directory |
| `ObjectPublication` | `putObject`, admission, gates, reservation, budget and faults |
| `ObjectStore` | what it promises: objects that are visible, durable, acknowledged |
| `LibrarySync` | the `sync` command of several devices, their users, PUTs on their way, and the server as `AtomicPublication` has it |
| `Worktree` | paths, objects, the system calls of a checkout, what a scan yields |
| `TreeMerge` | the merge by path, conflict names, lineage, replay over several Heads |
| `RestorePlan` | the overlay of an old tree over the current one, and the paths the preview names |
| `FSActions` | the rows of `fs_actions`: intent, system call, completion; their recovery and validation |
| `SyncCheckout` | bind, the checkout of a synchronisation, rollback and unbind, step by step, with the user and kills |
| `FiniteSums` | lemmas on sums over finite sets, and on smallest sets and numbers |
| `GarbageCollectionProofs`, `ObjectPublicationProofs`, `LibrarySyncProofs` | the theorems about the module they name |
| `LibrarySyncHistoryProofs` | more about `LibrarySync`: chains of candidates, and deletions that stay |
| `SyncCheckoutTables` | lemmas on `Worktree`, on the tables of a checkout and on what single steps do to them; the inductive invariant and the stages of a command |
| `SyncCheckoutProofs` | the theorems about `SyncCheckout` |
| `MC*` | instances for TLC |

`GarbageCollection` extends `HeadPublication`; `SyncCheckout` extends
`FSActions` and `RestorePlan`, which extends `TreeMerge`; all rest on
`Worktree`: a merge or a restore yields what is checked out, the checkout is made of journaled actions, and these change the
tree. `LibrarySync` uses the server as `AtomicPublication` states it and takes
a checkout for one step.

### Correspondence

*HeadPublication.* A handler is a record with the phase it is in and what it
has read. `Begin` is the first read of Head and version with the test of
`If-Match`; `Admit` the limiter; `ValidateCandidate`, `VisitSource` and
`CheckSource` the candidate and one iteration of the loop over second parents,
split where the code reads the database again; `UpdateHead` the transaction
(SQLite serialises it, so it is one step), `Respond` the answer, which may be
lost. `Abandon` is a timeout, a cancelled request or a failing read at any
point of it. The graph of commits is chosen at the start and never changes: an
object's id is the digest of its content. A snapshot is the set of contents
below a root, `refused` the commits `validateCandidate` refuses for reasons
other than their parents (author, shape). `LinkObject` and `SyncObject` are
uploads as the library sees them.

*GarbageCollection.* The collector can only open while the server is down and
the server only start while it is closed (`openDataLock` on both sides). One
action marks a commit, one makes the plan from files older than the grace
period (`aged`), one deletes a victim; `Close` may come at any moment, which
is also its end by a signal or an error.

*ObjectPublication.* A PUT walks through the phases of `admitObjectPut`,
`putObject` and its deferred calls. Sizes are small numbers; `files` are
visible objects, `durable` those whose directory was synced, `orphans`
temporary files left by a stopped process. A charge has the row id SQLite
gives it: one more than the largest id in the table, since the column is not
AUTOINCREMENT.

*LibrarySync.* A run is a record with its phase, its last scan and the Head it
read; the rows of the client database are variables of their own and survive
`Stop`. `Resume` is `resumeSyncPublication` with its branches as disjuncts
(`Recover`, `Finalize`, `Discard`, `Retry`, and the merge). A tree is a set of
file versions. A version is saved once; saving over a file is a deletion and
a new version, and two versions of one path after a merge are the file and its
conflict copy. The client merges entry by entry, and for a directory that the
Head no longer has (or has a file in its place) while the device changed
something in it, the whole directory of the device comes under a conflict name;
one the device removed and the Head changed stays whole. `Folders` says which
versions were saved below one directory, and `WithDirectory` which unchanged
ones may come back, or stay, in that way. Whether the other side removed the
directory or only files in it is not in a set of versions, so `Merge` is the
set of all trees that either could give. A conflict copy is at a new path:
`InPlace` leaves it out where the guard of deletions counts what is gone. A PUT of the Head is a message that is handled, handled late or
lost; `HandlePut` tests what `AtomicPublication` tests.

A restore is a candidate whose `source` names the commit it takes files from
(the code has it in the message and in a column of the row); `confirmed` of
its row is `restore_confirmed`. `PreviewRestore` and `ConfirmRestore` are one
step each: what other devices and users do between the scan, the reading of
the Head and the write of the row could as well happen after it, and is caught
by the same tests there. After the confirmation a restore takes the phases of
any publication; `Resume` tells the kinds apart as the dispatcher does.
`Overlays` allows any choice of versions a path and a source could give, and
more: a file or an empty directory of the source may take the place of any of
the current ones.

*Worktree.* A tree maps paths to objects with an identity (device and inode),
a kind and data, the pair of bytes and mtime. The leaf of a path is
`<<form, name, n>>`: the names the client derives from a name (temporary,
recovery, tombstone, rollback, the n-th conflict name) are values, not
strings. `Shape` and `Scan` are what the scanner computes, `Moved`, `Made`,
`Removed`, `Stamped` the system calls, which also touch the parent's mtime.

*TreeMerge.* Trees are functions from paths. `MergeEntry` has the cases of
`mergeEntry` and of the conflict copy before it, in their order; `Merge` is
the recursion; a set of records follows the captured files (`moveLineage`,
`dropLineage`); `Replay` folds the merge over the Heads that overtook the
candidate, as `_rebuildPendingMerge` and `_authoritativePromotionReplay` do.

*RestorePlan.* `Overlay` is the recursion of the planner, one branch per case
of `OverlayEntry`; it returns the tree with the sets of changed and of removed
paths that the code collects on the way. A restore is checked out like a
synchronisation with nothing local (`Restoration`).

*FSActions.* `db.journal` is the table `fs_actions`. An action is committed as
an intent (`Journal*`), then `Execute` makes the system call, and the row is
completed in a step of its own; a kill may come between any two of them, since
`run.acted` is all that is remembered outside the tables. `Execute` takes the
intents in the order of `recoverFSActions`, so that the same steps are the
normal course and the recovery. A creation has three steps (call, identity,
completion), and one whose identity was not recorded turns the checkout back
and moves the unknown object aside. `PromotionStep`, `PreserveCollision` and
`JournalLatePromotion` make the chains of conflict names.
`ChainsAccepted` and `OwnershipAccepted` are the checks every command makes on
the rows before it does anything else.

*SyncCheckout.* `run` is the process: command, stage and the item it is at. A
stage is a loop of the code and names the function (`prepareSyncRecoveries`,
`installCheckoutFile`, ...); each action is one transaction, one system call
with the checks made right before it, or one check of the tree; a check that
the code repeats with nothing in between is made once. An error ends the
command (`Fail`) and leaves rows and tree as they are. `Dispatch` decides from
the rows what a new command goes on with. `User` writes files in place under
any name they have by then (an open descriptor follows the inode), replaces,
creates and deletes them by visible name.

## Runs

| Run | Instance | Shows |
|---|---|---|
| `HeadPublication_graphs` | 2 requests, every graph of 4 commits with one root, depth and introduction limits 2, symmetric | roles, versions, conflicts; implements `AtomicPublication` |
| `HeadPublication_uploads` | 2 requests for one slot, a history with a merge of a merge, one variant with a refused source, objects uploaded meanwhile | completeness of what is published; limiter; handlers end |
| `GarbageCollection_power` | 3 commits with a merge, a tree and a block, 1 request, stops and loss of power | nothing of the history is collected; the plan spares it; durable history survives |
| `ObjectPublication_crashes` | 2 PUTs, a block and a tree of one user, a budget of one object, room for two | accounts, gate, budget, disk, implements `ObjectStore`, every PUT ends |
| `ObjectPublication_short_window` | the same, a charge may expire under its PUT | **violated** (finding 1) |
| `LibrarySync_edits` | 2 devices, 2 versions below one directory, 5 commits, users edit until the fifth, restores over the first two, everything disturbed | the safety of sync and of restores beside it |
| `LibrarySync_liveness` | 2 devices, 2 versions, edits between runs, users stop editing after 3 commits, restores after 2 | candidates merged repeatedly; devices come to rest |
| `LibrarySync_refused` | 6 commits, disturbed | **violated** (finding 2) |
| `LibrarySync_superseded` | as `LibrarySync_liveness` | **violated** (finding 3) |
| `SyncCheckout_restarts` | every merge over a base of one file, of one directory, of two files in a directory, and two candidates merged twice, and restores of every path between six trees, each with 1 kill; 4 checkouts and a bind with 1 edit and 2 kills, and with 2 edits (the two with promotions then with 1 kill); unbind in the middle of each | both sides' changes, or what a preview named, arrive; nothing is lost or stays hidden; the journal stays valid; restarts complete or roll back |
| `SyncCheckout_adopted` | a file changed inside a directory, 1 edit | **violated** (finding 4) |
| `SyncCheckout_early_unbind` | a changed and a deleted file, 1 kill, then unbind | **violated** (finding 5) |

Why the bounds are enough. Publication conflicts are between two requests: a
third can only conflict with either. Four commits hold a Head, two siblings
and a merge of them, the smallest graphs in which a commit is reached twice,
a source is itself a merge, or a source hangs off another source; the limits
of 2 (1 in the runs that use them) put every comparison at its edge. In the collector three commits suffice
for a commit that only a second parent reaches and a block only that commit
has. Two PUTs are a holder and a waiter of a gate; a budget and disk that one
object fills put each test at its edge. In sync two devices are one that
publishes and one that is overtaken; five commits are the first tree, a
candidate, the Head that overtakes it, and its capture and merge; seven let a
candidate be replaced and be overtaken again. Two versions below one directory
are one that the Head removed and one that the device changed: in
`LibrarySync_edits` a directory does come back (without `CopiedBack`, TLC finds
`DeletionsLast` violated), and a deletion whose device changed nothing else
there still has to last. `MaxCommit`, `LastEdit`,
`LastRestore` and `MaxRow` are bounds of the instances, `LastEdit` also the
point where users stop editing; a restore needs one published commit besides
the Head, so two commits are enough to prepare one. The passing runs of sync disable the deadlock check because
users and commits run out.

In a checkout the loops of a stage treat the paths one after the other and
apart from one another, but for a directory and what is below it and for the
chain of one conflict name; two top-level paths, one directory with two files
and one conflict name hold these relations. Kills matter by where they come: a
second kill hits the recovery of the first, a third could only hit the same
recovery again. The merge decides at each path from the three objects there;
the sides (absent, as the base, touched, changed, of the other kind) are all
combinations of them, at the top, in a directory both sides changed, and for
the directory itself. `edits` and `kills` of a scenario are bounds.

## Fairness

* `HeadPublication`: weak fairness of each handler's own step. `net/http` runs
  every request in a goroutine and no step waits for another handler; the
  limiter refuses instead of waiting. Uploads, timeouts and restarts are not
  fair.
* `ObjectPublication`: weak fairness of the steps of a PUT, strong fairness of
  taking its gate: a Go channel serves its receivers in the order they came.
  Faults and deadlines are not assumed to come.
* `LibrarySync`: `sync` is run again (by `library watch` under a supervisor or
  by the user, as its messages ask), a run takes its next step, and a PUT is
  handled or lost; strong fairness per device of handling a PUT, so that not
  every one of its PUTs is lost for ever. Users, kills and confirmations are
  not fair, and the run assumes that users edit between runs and are done
  eventually. `Converges` therefore allows a device that waits for a
  confirmation, of a deletion or of a restore, and one that is stuck as
  finding 3 has it.

* `SyncCheckout`: a running command takes its next step (weak fairness: the
  process is not waiting for anybody), and the command the scenario ends with
  is started again and again (strong fairness of `Again`: `library watch`
  repeats a synchronisation, the user a bind or an unbind that failed). Kills
  and edits are not fair, and `Completes` promises nothing once the user has
  edited (`edits > 0`): an edit may be a conflict that only he can resolve.

## Proofs

Each theorem holds for every finite instance of its module's constants, not
only for the one TLC explores.

| Module | Theorem | States |
|---|---|---|
| `HeadPublicationProofs` | `TypeCorrect`, `HistoryHasNoHole`, `RolesAreSound`, `VersionIsMainlineLength`, `RoleConflictUnreachable`, `ConflictsAreReal`, `LimiterIsExact` | `TypeOK`, `PublishedIsComplete`, `RolesSound`, `VersionCountsMainline`, `NoRoleConflict`, `ConflictMeansProgress`, `LimiterExact` |
| | `PublicationRefinesAtomic` | `HeadPublication` implements `AtomicPublication` |
| | `RolesCanBeProved` | `RolesProvable` of `PublishedRoles` |
| `GarbageCollectionProofs` | `DirectoryTypeCorrect`, `PlansSpareHistory`, `OnlyPowerLossMakesHoles`, `SyncedObjectsSurvive` | `DirectoryTypeOK`, `PlanSparesHistory`, `HistoryComplete`, `SyncedHistorySurvives` |
| | `CollectionsMakeNoHole`, `RowsSurvivePowerLoss` | `PublishedIsComplete`, `RolesSound`, with the collector running |
| `ObjectPublicationProofs` | `TypeCorrect`, `AccountsStayExact`, `AbsentUntilLinked`, `BudgetHolds`, `MinimumStaysFree` | `TypeOK`, `AccountsExact`, `StillAbsent`, `AcceptedWithinBudget`, `BlocksLeaveMinimum` |
| | `HandlersStoreObjects` | `ObjectPublication` implements `ObjectStore` |
| `LibrarySyncProofs` | `TypeCorrect`, `BasesArePublished`, `RowsMatchBindings`, `NoFileIsLost`, `OnlyConfirmedIsPublished` | `TypeOK`, `BindingIsPublished`, `PendingMatchesBinding`, `NothingLost`, `PublicationsConfirmed` |
| `LibrarySyncHistoryProofs` | `AnchoredChainsAccepted`, `DeletionsStay` | `AnchoredCandidatesAccepted`, `DeletionsLast` |
| `SyncCheckoutProofs` | `TypeCorrect`, `NothingIsLost`, `JournalIsAccepted` | `TypeOK`, `NothingLost`, `JournalAccepted` of `SyncCheckout` |
| | `Invariant` | the inductive invariant of the checkout (`IInv`) |

None of these properties is inductive: each program decides on what it read
steps earlier. The inductive invariants say what it may still rely on.

**Head publication** (`IInv`). (1) *Limiter*: the counter counts the slotted
handlers, of which at most one is of this library. (2) *History*: published
rows only grow, so what a handler found published stays published; rows it
found absent may appear, but only together with a new version of the Head.
(3) *Walk*: while the version is the one the handler read, the Head is the one
it read, and the sources it collected are unpublished, stored, hang off
mainline commits and form the chain of second parents of its candidate down to
where it stands. At `UpdateHead` the compare-and-set supplies exactly the
hypothesis of (3), which gives the invariants for the new rows and the guard of
the atomic step. Objects never disappear while the server runs (the collector
is kept out by the data lock), which carries completeness from the moment of
the check to the transaction.

**Proof of roles** (`HistoryProvable`, `SourcesBounded`). The migration knows
only the Head and the commit objects; what it reads back are two recursively
defined chains. `SourcesAreChain` shows that the set of sources a walk collected
step by step is the second-parent chain the migration will read - nothing of the
chain was left out and nothing else got a row - and `SourcesBounded` that a walk
which ended under the limit never recorded more than the limit, although the test
runs before the source is added. With `IInv` a publication then appends one
mainline commit the migration accepts, and leaves every earlier one acceptable.
One limit stands for both tests: a server may be configured with a limit below
the 1024 of the migration (`published_roles.go:18`), never above it
(`head_limits.go:67-70`).

**Garbage collection** (`DirectoryInv`). The server's `IInv`, plus: a server
that is down has no handlers, and the collector works only while it is down;
while it marks, every published commit is marked or waits to be, whatever the
links between commits, and the snapshot of a marked commit is marked; no victim
of the plan is needed. The rows the collector read at the start are those at
the end because no handler runs meanwhile. A loss of power takes only files
whose directory entry was not synced, which is why `OnlyPowerLossMakesHoles`
names the losses it excepts and `CollectionsMakeNoHole` is about a directory
that has none.

**Object publication** (`IInv`). A handler's phase determines what it holds: a
slot, a token of its gate, a reservation, a row of the window. The counters are
sums over the handlers, the charges sums over the rows, so each step needs that
a sum changes by the one summand that changed (`FiniteSums`). `AbsentUntilLinked`
rests on mutual exclusion by the gate table, including gates whose last
reference goes while another handler asks for the same object; the budget rests
on every installed file having a row in the window until the prune that drops
both.

**Library synchronisation** (`SInv`). (1) *History*: an agreed commit - one
that restores nothing, or that a user confirmed - lacks no file of any of its
ancestors but those users deleted, and whatever a commit was made of was agreed
to. (2) *Roles*: the commits with a role are exactly the ancestors of the Head.
(3) *Place*: a device's worktree lacks no file of its Sync Base but those users
deleted, and what it checks out is published and descends from that base.
(4) *Rows*: the tree a row captured is one the worktree held; the chain of
candidates over it hangs, link by link, off descendants of the Sync Base; what
such a candidate removes from the Head it expects was either not protected or
the row says it must be confirmed. The client compares a merge with the *base*
of the merge, the server's Head would be another measure;
`ProtectedAgainstBase` shows that what is protected against the Head is
protected against the base, where copies under a conflict name count as gone.
(5) *Runs*: what a run read is still good for what
it does next, also after users edited, other devices published, and other runs
died. (6) *Messages*: a PUT in flight is an agreed candidate over a published
Head, confirmed if it needs to be - whatever became of the row it came from.
TLC checked `SInv` on the instance of `LibrarySync_edits` before it was proved.

**Chains and deletions** (`SInv`, `GraphInv`, `FileInv`). `GraphInv` is about
the commits of all devices together: a merge follows a Head that had not
published its second parent; a commit is merged at most once; a commit was
published either as the next Head or together with the merge it was made for.
Hence nothing of the chain below a candidate that follows the Head is published
yet, and every Head the chain was merged with is a mainline commit: what the
server asks for. `FileInv` says who can have published a file: what is news to a
device's Sync Base, in its worktree or captured (`Own`), is in no other device's
`Own`, and it is either unpublished and not under way with anybody else's PUT,
or published with the row the device still has, or `forgotten`. A candidate
adds to the Head it expects only files of this kind and those that one of its
merges kept with their directory (`RowFiles`, `Back`), however often it was
merged, so a PUT that meets the Head brings back nothing else that was
published and removed (`MessageFiles`). A step of a device either keeps its row
(`Keeps`), ends it (`Settles`) or writes one for a new candidate (`Builds`);
both invariants are shown for the three, and every action is shown to be one of
them. TLC checked the two invariants on the instances of `LibrarySync_edits`
and `LibrarySync_liveness`, and with every disturbance, before they were
proved.

**Checkout** (`IInv`). After a crash the next command decides from the rows of
the journal alone, written any number of steps earlier; the type of what it
does next - which row, which path, which kind - follows only from what those
rows must look like together. (1) *Tables*: every row is found at its own key
and belongs to the scenario (`Indexed`), a checkout that has no run is where a
killed run may have left it (`Unstarted`), the phase of the checkout bounds the
states of its rows (`Phases`), created entries and captured roots have the rows
they were made for (`Creations`, `Roots`), and promotions are linked into the
chains the validator expects (`Linked`). (2) *Intents*: which of them can be in
the table together, and what each may still name. (3) *Worktree*: the tree is
well formed - every object below a directory, every object at one place - which
the moves, removals and new entries keep because of the intent they act for.
(4) *Control*: what the run that is going on read, by its place in the code
(`Stages`, `Places`, `Acting`). `SyncCheckoutTables` has the lemmas on trees,
one on each change of a table and the steps from one stage to the next,
`SyncCheckoutProofs` the other actions.
TLC checked `IInv` on the scenarios of `SyncCheckout_restarts` before it was
proved.

**Contents in a checkout** (`DInv`, on top of `IInv`). A content is in the
worktree as long as some file has it, and a checkout deletes, renames and
writes files on the word of rows that were written before the last kill.
`NothingLost` follows from five things. (1) *Objects*: a file of the base keeps
its identity wherever it is moved, and no such object is ever at or below a
temporary name, so the names the client deletes or overwrites freely hold none.
(2) *Contents*: a content owed to the user is in a file that is no temporary,
and if it is the base's, in a file of the base; what the recovery table knows
of a captured path is of the base, adopted, or not the user's. (3) *Promotions*:
a promotion that is not taken back holds its object, no two hold the same one,
and a row that registered an object of the base did so for a promotion that
still holds it or has given it back: this is what keeps a rollback, which
removes what the rows say was installed, from removing a file of the user's
that had been promoted to the same name. (4) *Intents*: an intent of removal
names no object of the base before the Sync Base has moved, a plain rename is
one of four kinds, a restore belongs to the promotion it takes back. (5) A
restore that was acted on has its file at its target. Of each action it is
shown what it does to the objects in the tree (`Stays`: none gets a new path;
`Relocates`: one subtree does; `Replaceable`: what was deleted may be) and to the
rows, and `DInv` follows for the action. The user's own steps may delete or
overwrite what he is owed, and then he is owed it no more. TLC checked `DInv` on
the scenarios of `SyncCheckout_restarts` before it was proved.

**Journal of a checkout** (`CInv`, on top of `IInv`). What a command writes into
the journal has to pass the validators at the start of every later action, and
a row they refuse can never be settled. `JournalAccepted` speaks of chains of
rows of which each was appended by another step, possibly of another command.
(1) *Chains* says how they grow: a chain has its root in the journal, its
attempts count up from one without a gap and without a fork, each promotion
goes to the name after the one before it, a chain that moves an object of
unknown origin aside hangs on a creation that was given up, while its path's
row still names that creation. (2) *Owners*: a link's source is captured and the
rows it stands for are there, no two links share a chain or a restore, and no
promotion or restore is without its link; so a row that one link's rollback
completes is never the one another link is waiting for. (3) *Course*: what the
place in the code adds, as that a cleanup has forgotten what it passed. A step
that appends a row shows where it hangs, one that settles a row or drops what
no chain needs leaves chains and links as they are (`ChainsUnaltered`). TLC
checked `CInv` on the scenarios of `SyncCheckout_restarts` before it was proved.
The exception `StartedOver` stays: there the code really refuses.

**Helpers.** `FiniteSums` proves what the folds of the community modules
compute on finite sets, the first part of `LibrarySyncProofs` what the recursive
functions over the commit sequence (`Ancestors`, `SecondChain`) compute: that they unfold at every
commit, that later commits do not change them, that they are transitive, and the
first part of `SyncCheckoutTables` what the operators of `Worktree` do to paths
and trees. The
library's induction theorems take an operator as a parameter and cannot be used;
these modules argue by a smallest counterexample instead - a set of finite sets
has a minimal member (from the well-foundedness of strict inclusion), a
non-empty set of naturals a smallest - and over sets where induction needs a
predicate.

Assumptions, all named and evaluated by TLC in the runs: `CommitAssumption`
(commits are non-zero naturals ordered by age, finite, apart from contents),
`GraphAssumption` (parents are older, a second parent needs a first),
`LimitAssumption` (limits are positive), `BlockAssumption` (blocks are
contents); `ObjectAssumption` (finitely many objects and PUTs, sizes positive),
`GateAssumption` (a name for every gate that can exist at once),
`BoundAssumption` (limits are naturals); `TreeAssumption` (finitely many
versions), `FolderAssumption` (directories are sets of versions), `CommitBound`
(bounds are naturals); `ScenarioAssumption` (a checkout goes from one snapshot to
another, both with the directories their files are in, and moves files of the
base to distinct files of the target, as the plan of `library_merge.go` does)
and `EditAssumption` (users write contents that are in neither snapshot and were
not written before).

Only model-checked: of `SyncCheckout`, what is in the tree when a checkout or a
rollback is over (`NothingHidden`, `BothSidesMerged`, `ConflictKeepsFile`,
`RestoredAsPreviewed`, `RolledBack`: they need an account of where every object
of both snapshots is at every stage); the merge by path in `TreeMerge` and the
preview in `RestorePlan`, which are recursive over paths; and all liveness.
Liveness under fairness and `ENABLED` are outside TLAPS.

## Findings

1. *The refund of an upload can delete the charge of another one.*
   `upload_charges.id` is reused after a prune (`storage.go:79-80`,
   `upload.go:211`); with a budget window shorter than an upload, which the
   flags allow, more bytes are accepted than the budget. Run
   `ObjectPublication_short_window`. With a window longer than any upload the
   accounts are exact (`ObjectPublication_crashes`).
2. *A device can end up with candidates that are always refused.* Recovery of
   a published merge candidate makes the captured commit, a merge source, the
   Sync Base (`library_sync.go:758-762`); commits captured on it break the
   server's rule that a captured commit hangs off the mainline. Run
   `LibrarySync_refused`. As long as the Sync Base is a mainline commit, the
   chains of candidates are accepted (`AnchoredCandidatesAccepted` in
   `LibrarySync_liveness`).
3. *A superseded row with a changed worktree is never given up.*
   `replacePendingForTrivialMerge` returns an error and keeps the row
   (`library_sync.go:651`), and discarding is reached only while the Head is
   the expected one. Run `LibrarySync_superseded`.

4. *An edit inside a captured directory can be deleted.* After the promotions
   every captured directory is scanned again and the result becomes what the
   checkout expects of it (`library_sync.go:2797-2820`). What an open
   descriptor wrote there since the first scan is adopted, the final check
   passes, and the cleanup deletes it. Run `SyncCheckout_adopted`;
   `NothingLost` holds for every other content (`adopted` is its only
   exception).
5. *Unbind during an unfinished capture never succeeds.* The rollback of a
   checkout that was killed before it had captured every path takes a file of
   the base at a target path for one it should have installed
   (`library_sync.go:3412-3414`), and `rolling_back` blocks every later sync.
   Run `SyncCheckout_early_unbind`.

Also visible in the models, and not counted as findings:

* When a publication row is discarded while its PUT is still on its way, the
  device later takes its own published files for new ones of the worktree, and
  a deletion another device made meanwhile is undone (`forgotten` in
  `DeletionsLast`).
* An object moved aside below a newly installed directory makes the rollback's
  `rmdir` fail (`client_fs_actions.go:878`), and neither sync nor unbind gets
  past it (`AsideBelow` in `Completes`).
* An unbind that was killed after it removed temporaries, followed by a bind
  or sync: `installCheckoutFile` creates the temporary anew outside the
  journal, its identity fits no row (`library_checkout.go:1264-1281`), and
  every later command fails (`TempReplaced` in `Completes`).
* With two edits of a promoted file, a second collision or late promotion
  starts from the first target, while the validator wants the target of the
  row before it (`client_fs_actions.go:1083-1112`): the client refuses its own
  journal. It is the one exception in `JournalAccepted` (`StartedOver`);
  without it TLC finds the refused journal in the scenarios with two edits.
* A captured top-level file that is edited turns the checkout back, and the
  rollback then refuses to move the changed file to its visible name: the
  content stays under the hidden one until the user acts
  (`library_sync_test.go:6222-6266` expects this).
* An edit of an installed or restored file before its row is settled leaves a
  checkout that every command refuses to go on with.
* A restore nobody confirms stops the synchronisation of its worktree: every
  run ends with the request to confirm (`Waits` in `Converges`), also when the
  Head has long moved on and the confirmation would only give the row up.
* Where the chosen path of a restore runs through a directory of the source
  that is a file in the current tree, `applyPath` takes that whole directory,
  with files beside the chosen path (`ReplaceNode`); the preview names them.
* A directory that one side deleted and in which the other changed a file comes
  back whole, with the files nobody changed (`library_merge.go:571-597`,
  `674-679`; `architecture.md` asks for this). So a deletion that was published
  can be undone: the exception in `BothSidesMerged`, and with `CopiedBack` in
  `DeletionsLast`.

## Not modelled

* Bytes, hashes and encodings: an object is its id. Two captures of the same
  tree with the same parents within one second have one id in the code and two
  in `LibrarySync`.
* `LibrarySync` merges sets of versions and takes a checkout for one step;
  names and steps are in `TreeMerge` and `SyncCheckout`, for one device. The
  times of directories are left out, and so are empty ones: a directory of
  which only the mtime changed counts as unchanged there, while the code takes
  it for a change and copies it. `PendingMatchesBinding` relates a row to its
  whole chain, but does not repeat every test `verifyPendingPublicationChain`
  makes of each link. The deletion guard counts versions where the code counts
  paths, so it asks for confirmation also of a file saved over.
* In the checkout: names that differ only in case, the fallback directories
  for conflict names that are too long (`ensurePromotionFallbackRoot`,
  `applyFallbacks`), links, a user who renames internal names or replaces a
  directory, loss of power, the download cache, and an edit between a check
  and the system call right after it. Completed rows nobody reads are deleted
  early, and a temporary that is complete is not written again. Where late
  paths were found, `Reconcile` goes on without `materializeCheckoutFiles`
  (`library_sync.go:2295-2299`): the run fails, and the next one installs what
  is missing. `OwnershipAccepted` leaves out the content of fixed targets and
  the mtimes of parents (`client_fs_actions.go:1629-1760`).
* Of a restore: the counts of the preview and its limit of a hundred paths,
  reading the source again at confirmation and upload (commits do not change),
  and the row given up when the server no longer has the source.
* The merge of an object that has a conflict name itself; the budgets of depth,
  paths and objects.
* A scan while a file changes: a scan is one step (`worktree_scan.go:306`).
* The `If-Match` version of a client's PUT: a Head is never published twice,
  so it names its version. Retries of 429 and 503 are PUTs that are lost.
* A wall clock that steps back, in the budget window and in the collector.
* `GetObject`, listings, tokens and decoding of requests: no state.

## Plan

1. (done) `HeadPublication` with `AtomicPublication` and `PublishedRoles`,
   proofs; `GarbageCollection`; `ObjectPublication` with `ObjectStore`;
   `LibrarySync`; `TreeMerge`, `FSActions` and `SyncCheckout`; restores in
   `LibrarySync` and `RestorePlan`.
2. Fallback conflict roots in `TreeMerge` and `FSActions`; the import of a
   first tree and the client's lock; `SyncCheckout` as a refinement of the
   `Apply` step of `LibrarySync`.
3. `DataDirectory`: the lock with its shared downgrade and a replaced lock
   file, migrations and the collector; `HistoryPages`; `Sessions`.
4. (done) Proofs of `PublishedRoles`, `GarbageCollection`, `ObjectPublication`,
   the safety of `LibrarySync`, and for `SyncCheckout` the shape of its tables
   and that no content is lost.
5. Proofs to come: that the journal is always accepted and what the worktree
   holds at the end of a checkout, lemmas on the merge by path.
