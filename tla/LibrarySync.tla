---------------------------- MODULE LibrarySync ----------------------------
(***************************************************************************)
(* The devices of one user that keep a worktree each in step with the Head *)
(* of a library (cmd/filecloud/library_sync.go and library_merge.go).      *)
(*                                                                         *)
(* A run of sync scans the worktree, reads the Head, writes down what it   *)
(* is about to publish, scans again, reads the Head again, sends the PUT,  *)
(* reads the Head and scans once more, and only then moves its Sync Base.  *)
(* Users save and delete files, other devices publish, and the run may be  *)
(* killed between any two of these; the next run goes on from the rows of  *)
(* the client database.  A restore of old files goes the same way, once    *)
(* its user has seen a preview and confirmed it (library_restore.go,       *)
(* library_restore_publication.go).                                        *)
(*                                                                         *)
(* The server takes one step per PUT: AtomicPublication, which             *)
(* HeadPublication implements.  The If-Match version of a PUT is left out: *)
(* a Head is never published twice, so it names its version.               *)
(*                                                                         *)
(* A tree is the set of file versions it holds; a version is saved once,   *)
(* and saving over a file is a deletion and a new version.  Where two      *)
(* sides changed one path the merge keeps both versions, the local one     *)
(* under a conflict name: in the set both are there.  Of the directories a *)
(* model knows which versions were saved below one of them; how they are   *)
(* nested, their times and empty ones are left out, and so is the place of *)
(* a conflict copy: a version is in a tree as long as any copy of it is.   *)
(***************************************************************************)
EXTENDS Integers, Sequences, FiniteSets

CONSTANTS
    Devices,     \* bound worktrees, each with its client database
    Files,       \* file versions users may ever save
    FirstTree,   \* those of the commit all devices start from
    Folders,     \* of versions: those below one top-level directory or its copies
    MaxCommit,   \* bound on the commits of a behaviour
    LastEdit,    \* bound: users stop editing when there are more commits
    LastRestore, \* bound: no restore is prepared when there are more commits
    Disturbed    \* users edit during a run, runs are killed, PUTs come late

NoCommit == 0
FirstCommit == 1

CommitIds == 1 .. MaxCommit

ASSUME TreeAssumption == FirstTree \subseteq Files /\ IsFiniteSet(Files)

ASSUME FolderAssumption == Folders \subseteq SUBSET Files

ASSUME CommitBound == MaxCommit \in Nat \ {0} /\ LastEdit \in Nat /\ LastRestore \in Nat

ASSUME DisturbedAssumption == Disturbed \in BOOLEAN

VARIABLES
    commits,    \* commit objects; the id of one is its place in the sequence
    head,       \* the library's Head
    role,       \* its role rows
    net,        \* PUTs of the Head the server has not seen yet
    worktree,   \* the files of each device
    base,       \* bindings.sync_base_commit
    pending,    \* the row of pending_publications, if any
    checkout,   \* target of the row of pending_checkouts, if any
    run,        \* the running sync command
    saved,      \* history: versions that were ever saved
    deleted,    \* history: versions some user deleted
    dropped,    \* history: versions that left the Head, and that neither a
                \*          restore nor a copy of their directory brought back
    forgotten,  \* history: what was captured for PUTs given up on their way
    approved    \* history: candidates some user confirmed

serverVars == <<head, role, dropped>>
rowVars    == <<base, pending, checkout>>
userVars   == <<worktree, saved, deleted>>
historyVars == <<forgotten, approved>>
vars == <<commits, serverVars, net, userVars, rowVars, run, historyVars>>

-----------------------------------------------------------------------------
(* Commits and their history.                                              *)

(* Mutant of MergeCommit: the captured side is its first parent.           *)
LocalFirst(h, local, tree) ==
    [first |-> local, second |-> h, tree |-> tree, source |-> NoCommit]

MergeCommit(h, local, tree) ==
    [first |-> h, second |-> local, tree |-> tree, source |-> NoCommit]

Captured(parent, tree) ==
    [first |-> parent, second |-> NoCommit, tree |-> tree, source |-> NoCommit]

(* Its message names the commit that files are restored from.              *)
RestoreCommit(h, tree, source) ==
    [first |-> h, second |-> NoCommit, tree |-> tree, source |-> source]

Commit == [first : {NoCommit} \cup CommitIds, second : {NoCommit} \cup CommitIds,
           tree : SUBSET Files, source : {NoCommit} \cup CommitIds]

Restores == {c \in 1 .. Len(commits) : commits[c].source # NoCommit}

Tree(c) == commits[c].tree

(* All commits from which c descends, and c.                               *)
Ancestors(c) ==
    LET up[x \in 0 .. Len(commits)] ==
            IF x = NoCommit THEN {}
            ELSE {x} \cup up[commits[x].first] \cup up[commits[x].second]
    IN  up[c]

(* c and the commits its second parents lead to.                           *)
SecondChain(c) ==
    LET chain[x \in 0 .. Len(commits)] ==
            IF x = NoCommit THEN {} ELSE {x} \cup chain[commits[x].second]
    IN  chain[c]

(* All versions of the directories that some of the files are below.       *)
Around(files) == UNION {folder \in Folders : folder \cap files # {}}

(* _localConflictCopy and mergeEntry decide for a directory as a whole: if *)
(* one side removed it, or put a file in its place, and the other side     *)
(* changed something below it, that other side's directory is taken as it  *)
(* is, with the files that nobody but the one side touched.                *)
WithDirectory(b, side, other) ==
    ((b \cap side) \ other) \cap Around((side \ b) \cup (b \ (side \cup other)))

(* Mutants of Merge: what only the local side has is taken for a deletion  *)
(* of the remote side, or the result is made of what either side has.      *)
MergeRemote(b, local, remote) == {(local \cap remote) \cup (remote \ b)}

MergeUnion(b, local, remote) == {local \cup remote}

(* The three-way merges of trees: a version stays if both sides have it,   *)
(* if the side that has it is the one that brought it, or perhaps with its *)
(* directory: whether that was removed or only emptied a set does not tell.*)
Merge(b, local, remote) ==
    {(local \cap remote) \cup (local \ b) \cup (remote \ b) \cup kept :
        kept \in SUBSET (WithDirectory(b, local, remote)
                             \cup WithDirectory(b, remote, local))}

(* What is in a merged tree at its old place: the local copy of a removed  *)
(* directory comes under a conflict name.                                  *)
InPlace(b, local, remote, tree) == tree \ WithDirectory(b, local, remote)

(* What the merge c brought back in that way.                              *)
CopiedBack(c) ==
    LET local == commits[c].second
        remote == commits[c].first
    IN  IF local = NoCommit THEN {}
        ELSE Tree(c) \cap
                WithDirectory(Tree(commits[local].first), Tree(local), Tree(remote))

(* deletionStats and protectedDeletion.  The code counts paths: as every   *)
(* version counts here, a file saved over asks for a confirmation too.     *)
Protected(before, after) ==
    LET gone == Cardinality(before \ after)
        tracked == Cardinality(before)
    IN  gone > 100 \/ (tracked # 0 /\ gone >= (tracked + 9) \div 10)

NoPending == [base |-> NoCommit, expected |-> NoCommit, candidate |-> NoCommit,
              captured |-> NoCommit, protected |-> FALSE, confirmed |-> FALSE]

Pending == [base : {NoCommit} \cup CommitIds, expected : {NoCommit} \cup CommitIds,
            candidate : {NoCommit} \cup CommitIds,
            captured : {NoCommit} \cup CommitIds,
            protected : BOOLEAN, confirmed : BOOLEAN]

CapturedTree(d) == Tree(pending[d].captured)

(* The row is of kind restore: confirmed is then restore_confirmed.        *)
IsRestore(d) == pending[d].candidate \in Restores

Phases == {"idle", "scanned", "merge", "verify", "publish", "await",
           "observe", "checkout"}

(* A run: its last scan, the Head it last read and its --confirm-delete.   *)
Run == [phase : Phases, scan : SUBSET Files, seen : {NoCommit} \cup CommitIds,
        confirm : {NoCommit} \cup CommitIds]

Ended == [phase |-> "idle", scan |-> {}, seen |-> NoCommit, confirm |-> NoCommit]

At(d, phase) == run[d].phase = phase

Goto(d, phase) == run' = [run EXCEPT ![d].phase = phase]

Checkout(d) == run' = [run EXCEPT ![d] = [Ended EXCEPT !.phase = "checkout"]]

End(d) == run' = [run EXCEPT ![d] = Ended]

-----------------------------------------------------------------------------
Init ==
    /\ commits = <<Captured(NoCommit, FirstTree)>>
    /\ head = FirstCommit
    /\ role = [c \in CommitIds |-> IF c = FirstCommit THEN "mainline" ELSE "none"]
    /\ net = {}
    /\ worktree = [d \in Devices |-> FirstTree]
    /\ base = [d \in Devices |-> FirstCommit]
    /\ pending = [d \in Devices |-> NoPending]
    /\ checkout = [d \in Devices |-> NoCommit]
    /\ run = [d \in Devices |-> Ended]
    /\ saved = FirstTree
    /\ deleted = {} /\ dropped = {} /\ forgotten = {} /\ approved = {}

(* syncLibrary: an unfinished checkout comes first; otherwise the worktree *)
(* is scanned.  The user may confirm the protected candidate of the last   *)
(* run.                                                                    *)
Begin(d, confirm) ==
    /\ At(d, "idle")
    /\ \/ confirm = NoCommit
       \/ confirm = pending[d].candidate /\ pending[d].protected
    /\ run' = [run EXCEPT ![d] =
                  IF checkout[d] # NoCommit THEN [Ended EXCEPT !.phase = "checkout"]
                  ELSE [phase |-> "scanned", scan |-> worktree[d], seen |-> NoCommit,
                        confirm |-> confirm]]
    /\ approved' = approved \cup ({confirm} \ {NoCommit})
    /\ UNCHANGED <<commits, serverVars, net, userVars, rowVars, forgotten>>

(* The row is written before anything is uploaded, and a protected one     *)
(* waits for the user.                                                     *)
Prepare(d, row) ==
    /\ pending' = [pending EXCEPT ![d] = row]
    /\ IF row.protected THEN End(d)
       ELSE run' = [run EXCEPT ![d].phase = "verify", ![d].seen = NoCommit]
    /\ UNCHANGED <<base, checkout>>

(* The four cases of syncLibrary without a pending publication.            *)
Start(d) ==
    LET local  == run[d].scan # Tree(base[d])
        remote == head # base[d]
        c      == Len(commits) + 1
    IN  \/ ~ local /\ ~ remote /\ End(d) /\ UNCHANGED <<commits, rowVars>>
        \/ /\ local /\ remote
           /\ run' = [run EXCEPT ![d].phase = "merge", ![d].seen = head]
           /\ UNCHANGED <<commits, rowVars>>
        \/ /\ ~ local /\ remote
           /\ checkout' = [checkout EXCEPT ![d] = head]
           /\ Checkout(d)
           /\ UNCHANGED <<commits, base, pending>>
        \/ /\ local /\ ~ remote
           /\ c <= MaxCommit
           /\ commits' = Append(commits, Captured(base[d], run[d].scan))
           /\ Prepare(d, [base |-> base[d], expected |-> head, candidate |-> c,
                          captured |-> c,
                          protected |-> Protected(Tree(base[d]), run[d].scan),
                          confirmed |-> FALSE])

(* Mutant of Advance: the row of the publication outlives it.              *)
AdvanceKeepingRow(d, c, target) ==
    /\ base' = [base EXCEPT ![d] = c]
    /\ checkout' = [checkout EXCEPT ![d] = target]
    /\ IF target = NoCommit THEN End(d) ELSE Checkout(d)
    /\ UNCHANGED pending

(* The Sync Base moves and the publication is over.                        *)
Advance(d, c, target) ==
    /\ base' = [base EXCEPT ![d] = c]
    /\ checkout' = [checkout EXCEPT ![d] = target]
    /\ pending' = [pending EXCEPT ![d] = NoPending]
    /\ IF target = NoCommit THEN End(d) ELSE Checkout(d)

(* Mutant of Published: any other Head is taken for the success of the PUT.*)
HeadHasMoved(d, h) == h # pending[d].expected

Published(d, h) == pending[d].candidate \in Ancestors(h)

(* The protection of deletions: the user confirms the candidate of the row *)
(* now, has done so before, or has nothing to confirm.                     *)
Allowed(d) ==
    LET p == pending[d]
    IN  \/ p.protected /\ run[d].confirm = p.candidate
        \/ run[d].confirm = NoCommit /\ (p.protected => p.confirmed)

(* resumeSyncPublication, for the tree t just scanned and the Head h just  *)
(* read.  A confirmation where none is asked for is an error.              *)
Stray(d) == run[d].confirm # NoCommit /\ ~ pending[d].protected

(* recoverPublishedCandidate: published, but the worktree has changed.     *)
Recover(d, t) ==
    /\ t # CapturedTree(d)
    /\ Advance(d, pending[d].captured, NoCommit)

(* finalizePublished, or transitionPublishedSuccessor to the Head.         *)
Finalize(d, t, h) ==
    LET p == pending[d]
    IN  /\ t = CapturedTree(d)
        /\ IF h = p.candidate /\ Tree(p.candidate) = Tree(p.captured)
           THEN Advance(d, p.candidate, NoCommit)
           ELSE Advance(d, p.captured, h)

(* Mutants of Discard: the stale row is kept, or the run does not end with *)
(* it.                                                                     *)
KeepStale(d, t) ==
    /\ t # CapturedTree(d)
    /\ End(d)
    /\ UNCHANGED <<rowVars, forgotten>>

DiscardAndGoOn(d, t) ==
    /\ t # CapturedTree(d)
    /\ pending' = [pending EXCEPT ![d] = NoPending]
    /\ Goto(d, "verify")
    /\ UNCHANGED <<base, checkout, forgotten>>

(* discardPendingPublication: not published, and the worktree has changed. *)
Discard(d, t) ==
    /\ t # CapturedTree(d)
    /\ pending' = [pending EXCEPT ![d] = NoPending]
    /\ forgotten' = forgotten \cup
          (IF \E m \in net : m.candidate = pending[d].candidate
           THEN CapturedTree(d) \ Tree(base[d]) ELSE {})
    /\ End(d)
    /\ UNCHANGED <<base, checkout>>

(* Upload, if no confirmation is missing.                                  *)
Retry(d, t) ==
    /\ t = CapturedTree(d)
    /\ IF Allowed(d)
       THEN /\ pending' = [pending EXCEPT ![d].confirmed = pending[d].protected]
            /\ run' = [run EXCEPT ![d].phase = "verify", ![d].scan = t]
       ELSE End(d) /\ UNCHANGED pending
    /\ UNCHANGED <<base, checkout, forgotten>>

ResumeSync(d, t, h) ==
    \/ Stray(d) /\ End(d) /\ UNCHANGED <<rowVars, forgotten>>
    \/ /\ ~ Stray(d) /\ Published(d, h)
       /\ Recover(d, t) \/ Finalize(d, t, h)
       /\ UNCHANGED forgotten
    \/ /\ ~ Stray(d) /\ ~ Published(d, h)
       /\ h = pending[d].expected
       /\ Discard(d, t) \/ Retry(d, t)
    \/ /\ ~ Stray(d) /\ ~ Published(d, h)
       /\ h # pending[d].expected
       /\ run' = [run EXCEPT ![d].phase = "merge", ![d].scan = t, ![d].seen = h]
       /\ UNCHANGED <<rowVars, forgotten>>

(* discardRestorePublication: what was previewed is not what there is.     *)
DiscardRestore(d) ==
    /\ pending' = [pending EXCEPT ![d] = NoPending]
    /\ End(d)
    /\ UNCHANGED <<base, checkout>>

(* dispatchRestorePublication: no other command publishes a restore that   *)
(* nobody confirmed, and nothing is merged: a candidate that is not        *)
(* published and no longer meets Head and worktree is given up.            *)
ResumeRestore(d, t, h) ==
    \/ ~ pending[d].confirmed /\ End(d) /\ UNCHANGED rowVars
    \/ /\ pending[d].confirmed
       /\ t = CapturedTree(d) /\ Published(d, h)
       /\ Advance(d, pending[d].captured, h)
    \/ /\ pending[d].confirmed
       /\ t # CapturedTree(d) \/ (~ Published(d, h) /\ h # pending[d].expected)
       /\ DiscardRestore(d)
    \/ /\ pending[d].confirmed
       /\ t = CapturedTree(d) /\ ~ Published(d, h) /\ h = pending[d].expected
       /\ run' = [run EXCEPT ![d].phase = "verify", ![d].scan = t]
       /\ UNCHANGED rowVars

(* dispatchPendingPublication.                                             *)
Resume(d, t, h) ==
    IF IsRestore(d) THEN ResumeRestore(d, t, h) /\ UNCHANGED forgotten
                    ELSE ResumeSync(d, t, h)

ReadHead(d) ==
    /\ At(d, "scanned")
    /\ IF pending[d] = NoPending
       THEN Start(d) /\ UNCHANGED forgotten
       ELSE Resume(d, run[d].scan, head) /\ UNCHANGED commits
    /\ UNCHANGED <<serverVars, net, userVars, approved>>

(* _startRecursiveMerge.                                                   *)
StartMerge(d) ==
    LET b == base[d]
        c == Len(commits) + 1
        h == run[d].seen
    IN  /\ pending[d] = NoPending
        /\ worktree[d] = run[d].scan
        /\ c + 1 <= MaxCommit
        /\ \E tree \in Merge(Tree(b), run[d].scan, Tree(h)) :
              /\ commits' = commits \o
                    <<Captured(b, run[d].scan), MergeCommit(h, c, tree)>>
              /\ Prepare(d, [base |-> b, expected |-> h, candidate |-> c + 1,
                             captured |-> c,
                             protected |-> Protected(Tree(b),
                                 InPlace(Tree(b), run[d].scan, Tree(h), tree)),
                             confirmed |-> FALSE])

(* Mutants: the merge starts again from the base of the last one, or the   *)
(* confirmation of the old candidate is good for the new one.              *)
SameBase(p) == p.base
KeepsConfirmation(p) == p.confirmed

ReplacementBase(p) == p.expected
ReplacementConfirmed(p) == FALSE

(* replacePendingForTrivialMerge: the old candidate is merged with the new *)
(* Head over the old one, and becomes the second parent of the new one.    *)
ReplacePending(d) ==
    LET p == pending[d]
        c == Len(commits) + 1
        h == run[d].seen
        b == ReplacementBase(p)
    IN  /\ p # NoPending
        /\ worktree[d] = CapturedTree(d)
        /\ c <= MaxCommit
        /\ \E tree \in Merge(Tree(b), Tree(p.candidate), Tree(h)) :
              LET protected == Protected(Tree(b),
                      InPlace(Tree(b), Tree(p.candidate), Tree(h), tree))
                  confirmed == protected /\ ReplacementConfirmed(p)
              IN  /\ commits' = Append(commits, MergeCommit(h, p.candidate, tree))
                  /\ pending' = [pending EXCEPT ![d] =
                                    [base |-> b, expected |-> h, candidate |-> c,
                                     captured |-> p.captured, protected |-> protected,
                                     confirmed |-> confirmed]]
                  /\ IF protected /\ ~ confirmed THEN End(d)
                     ELSE run' = [run EXCEPT ![d].phase = "verify", ![d].seen = NoCommit]
        /\ UNCHANGED <<base, checkout>>

(* Either merge gives up if the worktree is no longer as it was captured.  *)
MergeTrees(d) ==
    /\ At(d, "merge")
    /\ \/ StartMerge(d)
       \/ ReplacePending(d)
       \/ /\ worktree[d] # IF pending[d] = NoPending THEN run[d].scan
                                                     ELSE CapturedTree(d)
          /\ End(d)
          /\ UNCHANGED <<commits, rowVars>>
    /\ UNCHANGED <<serverVars, net, userVars, historyVars>>

(* The objects are uploaded, and publishPending scans again.               *)
Verify(d) ==
    /\ At(d, "verify")
    /\ IF worktree[d] = CapturedTree(d) THEN Goto(d, "publish") ELSE End(d)
    /\ UNCHANGED <<commits, serverVars, net, userVars, rowVars, historyVars>>

(* publishPending reads the Head and sends the PUT if it is as expected.   *)
Publish(d) ==
    /\ At(d, "publish")
    /\ \/ /\ head = pending[d].expected
          /\ net' = net \cup {[device |-> d, candidate |-> pending[d].candidate,
                               expected |-> pending[d].expected]}
          /\ run' = [run EXCEPT ![d].phase = "await", ![d].scan = {},
                                ![d].seen = NoCommit]
          /\ UNCHANGED <<rowVars, forgotten>>
       \/ /\ head # pending[d].expected
          /\ Resume(d, run[d].scan, head)
          /\ UNCHANGED net
    /\ UNCHANGED <<commits, serverVars, userVars, approved>>

(* The answer came, or nobody waits for it any more: the Head tells.       *)
Reread(d) ==
    /\ At(d, "await")
    /\ Disturbed \/ \A m \in net : m.device # d
    /\ run' = [run EXCEPT ![d].phase = "observe", ![d].seen = head]
    /\ UNCHANGED <<commits, serverVars, net, userVars, rowVars, historyVars>>

Observe(d) ==
    /\ At(d, "observe")
    /\ \/ /\ run[d].seen = pending[d].expected
          /\ End(d)
          /\ UNCHANGED <<rowVars, forgotten>>
       \/ /\ run[d].seen # pending[d].expected
          /\ Resume(d, worktree[d], run[d].seen)
    /\ UNCHANGED <<commits, serverVars, net, userVars, approved>>

(* continueSyncCheckout as a whole: the worktree becomes the target unless *)
(* it changed since it was scanned.                                        *)
Apply(d) ==
    /\ At(d, "checkout")
    /\ IF worktree[d] = Tree(base[d])
       THEN /\ worktree' = [worktree EXCEPT ![d] = Tree(checkout[d])]
            /\ base' = [base EXCEPT ![d] = checkout[d]]
       ELSE UNCHANGED <<worktree, base>>
    /\ checkout' = [checkout EXCEPT ![d] = NoCommit]
    /\ End(d)
    /\ UNCHANGED <<commits, serverVars, net, saved, deleted, pending, historyVars>>

(* planRestoreOverlay: what the source has below the chosen path is laid   *)
(* over the current tree.  A file of the source, or a directory that may   *)
(* be empty, takes the place of whatever has its name.                     *)
Overlays(current, source) ==
    {(current \ replaced) \cup taken :
        replaced \in SUBSET (current \ source), taken \in SUBSET source}

(* library restore, without --confirm: nothing may be pending, worktree    *)
(* and Head must be at the Sync Base; the candidate hangs off the Head and *)
(* waits for its confirmation.  What happens between the scan, the reading *)
(* of the Head and the row could as well happen after the row is written.  *)
PreviewRestore(d) ==
    LET c == Len(commits) + 1
    IN  /\ At(d, "idle")
        /\ c <= MaxCommit /\ Len(commits) <= LastRestore
        /\ checkout[d] = NoCommit /\ pending[d] = NoPending
        /\ worktree[d] = Tree(base[d]) /\ head = base[d]
        /\ \E s \in {x \in DOMAIN commits : role[x] # "none"} :
           \E tree \in Overlays(worktree[d], Tree(s)) \ {worktree[d]} :
              commits' = Append(commits, RestoreCommit(head, tree, s))
        /\ pending' = [pending EXCEPT ![d] =
              [base |-> base[d], expected |-> head, candidate |-> c, captured |-> head,
               protected |-> FALSE, confirmed |-> FALSE]]
        /\ UNCHANGED <<serverVars, net, userVars, base, checkout, run, historyVars>>

(* library restore --confirm: Head and worktree are read and everything    *)
(* the preview was made of is looked at again.  The user agrees to this    *)
(* candidate and to the versions it replaces.                              *)
ConfirmRestore(d) ==
    LET p == pending[d]
        t == worktree[d]
        fresh == ~ Published(d, head) /\ head = p.expected /\ t = CapturedTree(d)
    IN  /\ At(d, "idle")
        /\ checkout[d] = NoCommit /\ IsRestore(d)
        /\ \/ /\ Published(d, head)
              /\ ResumeRestore(d, t, head)
              /\ UNCHANGED <<approved, deleted>>
           \/ /\ ~ Published(d, head) /\ ~ fresh
              /\ DiscardRestore(d)
              /\ UNCHANGED <<approved, deleted>>
           \/ /\ fresh
              /\ pending' = [pending EXCEPT ![d].confirmed = TRUE]
              /\ approved' = approved \cup {p.candidate}
              /\ deleted' = deleted \cup (t \ Tree(p.candidate))
              /\ run' = [run EXCEPT ![d] = [Ended EXCEPT !.phase = "verify", !.scan = t]]
              /\ UNCHANGED <<base, checkout>>
        /\ UNCHANGED <<commits, serverVars, net, worktree, saved, forgotten>>

(* The command is killed, or loses the server.                             *)
Stop(d) ==
    /\ Disturbed
    /\ ~ At(d, "idle")
    /\ End(d)
    /\ UNCHANGED <<commits, serverVars, net, userVars, rowVars, historyVars>>

-----------------------------------------------------------------------------
(* The server, as AtomicPublication has it: the candidate follows the Head *)
(* and the commits it introduces are new and hang off the mainline.        *)
Accepts(c) ==
    /\ commits[c].first = head
    /\ \A s \in SecondChain(commits[c].second) :
          /\ role[s] = "none"
          /\ commits[s].first # NoCommit
          /\ role[commits[s].first] = "mainline"

MeetsHead(m) == m.expected = head

(* What a restore brings back, or the copy of a directory that was removed *)
(* on one side and changed on the other, does not come back by mistake.    *)
Returned(c) ==
    IF c \in Restores THEN Tree(c)
    ELSE Tree(c) \cap UNION {CopiedBack(s) : s \in SecondChain(c)}

HandlePut(m) ==
    /\ net' = net \ {m}
    /\ IF MeetsHead(m) /\ Accepts(m.candidate)
       THEN /\ head' = m.candidate
            /\ role' = [c \in CommitIds |->
                           IF c = m.candidate THEN "mainline"
                           ELSE IF c \in SecondChain(m.candidate) THEN "merge-source"
                           ELSE role[c]]
            /\ dropped' = (dropped \ Returned(m.candidate))
                           \cup (Tree(head) \ Tree(m.candidate))
       ELSE UNCHANGED serverVars
    /\ UNCHANGED <<commits, userVars, rowVars, run, historyVars>>

LosePut(m) ==
    /\ net' = net \ {m}
    /\ UNCHANGED <<commits, serverVars, userVars, rowVars, run, historyVars>>

(* Users.                                                                  *)
Save(d, f) ==
    /\ f \notin saved
    /\ Disturbed \/ At(d, "idle")
    /\ Len(commits) <= LastEdit
    /\ worktree' = [worktree EXCEPT ![d] = @ \cup {f}]
    /\ saved' = saved \cup {f}
    /\ UNCHANGED <<commits, serverVars, net, deleted, rowVars, run, historyVars>>

Delete(d, f) ==
    /\ f \in worktree[d]
    /\ Disturbed \/ At(d, "idle")
    /\ Len(commits) <= LastEdit
    /\ worktree' = [worktree EXCEPT ![d] = @ \ {f}]
    /\ deleted' = deleted \cup {f}
    /\ UNCHANGED <<commits, serverVars, net, saved, rowVars, run, historyVars>>

Continue(d) ==
    \/ ReadHead(d)
    \/ MergeTrees(d)
    \/ Verify(d)
    \/ Publish(d)
    \/ Reread(d)
    \/ Observe(d)
    \/ Apply(d)

Next ==
    \/ \E d \in Devices :
          \/ \E c \in {NoCommit, pending[d].candidate} : Begin(d, c)
          \/ Continue(d)
          \/ PreviewRestore(d) \/ ConfirmRestore(d)
          \/ Stop(d)
          \/ \E f \in Files : Save(d, f) \/ Delete(d, f)
    \/ \E m \in net : HandlePut(m) \/ LosePut(m)

Spec == Init /\ [][Next]_vars

(* sync is run again and again (by watch, or as its messages ask), a run   *)
(* that can go on does, and a PUT reaches the server or is lost; but not   *)
(* all PUTs a device sends for ever are lost.                              *)
Fairness ==
    /\ \A d \in Devices : WF_vars(Begin(d, NoCommit)) /\ WF_vars(Continue(d))
    /\ WF_vars(\E m \in net : HandlePut(m) \/ LosePut(m))
    /\ \A d \in Devices : SF_vars(\E m \in net : m.device = d /\ HandlePut(m))

FairSpec == Spec /\ Fairness

-----------------------------------------------------------------------------
(* Types of the commits, the server's rows, the worktrees and the client's *)
(* rows; a run that publishes or applies has the row it works on.          *)
TypeOK ==
    /\ commits \in Seq(Commit) /\ Len(commits) \in CommitIds
    /\ head \in 1 .. Len(commits)
    /\ role \in [CommitIds -> {"none", "mainline", "merge-source"}]
    /\ net \subseteq [device : Devices, candidate : CommitIds, expected : CommitIds]
    /\ worktree \in [Devices -> SUBSET saved]
    /\ base \in [Devices -> 1 .. Len(commits)]
    /\ pending \in [Devices -> Pending]
    /\ checkout \in [Devices -> {NoCommit} \cup CommitIds]
    /\ run \in [Devices -> Run]
    /\ \A d \in Devices :
          /\ run[d].phase \in {"verify", "publish", "await", "observe"}
                => pending[d] # NoPending
          /\ At(d, "checkout") => checkout[d] # NoCommit
    /\ saved \subseteq Files /\ deleted \subseteq saved
    /\ dropped \subseteq saved /\ forgotten \subseteq saved
    /\ approved \subseteq CommitIds

(* Neither a merge nor a checkout loses a file: a version leaves a         *)
(* worktree or the Head only if some user deleted it somewhere.            *)
NothingLost ==
    [][/\ \A d \in Devices : worktree[d] \ worktree'[d] \subseteq deleted'
       /\ Tree(head) \ Tree(head)' \subseteq deleted]_vars

(* A version that a publication removed from the Head does not come back,  *)
(* although devices that have not heard of it still hold it, in worktrees  *)
(* and in candidates they go on merging.  A confirmed restore may bring it *)
(* back; so may a merge whose local side changed something else below a    *)
(* directory in which the Head removed the version, as the directory may   *)
(* be gone there and is kept whole under a conflict name (both take the    *)
(* version out of dropped, until it leaves the Head again).  Otherwise it  *)
(* can only be one the device published without knowing: it dropped the    *)
(* row of a PUT that was still on its way, and then takes the version for  *)
(* a new one.                                                              *)
DeletionsLast == dropped \cap Tree(head) \subseteq forgotten

(* The client's row of a publication can be verified against the binding   *)
(* at any time (verifyPendingPublication and the walk over the remote      *)
(* history): otherwise no run could go on from it.                         *)
PendingMatchesBinding ==
    \A d \in Devices :
        LET p == pending[d]
        IN  p # NoPending =>
               /\ checkout[d] = NoCommit
               /\ ~ IsRestore(d) => commits[p.captured] = Captured(base[d], CapturedTree(d))
               /\ IF IsRestore(d)
                  THEN {p.base, p.expected, p.captured, commits[p.candidate].first} = {base[d]}
                  ELSE IF p.candidate = p.captured
                  THEN p.base = base[d] /\ p.expected = base[d]
                  ELSE /\ commits[p.candidate].first = p.expected
                       /\ p.captured \in SecondChain(p.candidate)
                       /\ p.base = commits[commits[p.candidate].second].first
                       /\ \A c \in SecondChain(p.candidate) :
                             base[d] \in Ancestors(commits[c].first)

(* The Sync Base and what a device checks out are published commits of     *)
(* which the Head descends.                                                *)
BindingIsPublished ==
    \A d \in Devices :
        /\ role[base[d]] # "none" /\ base[d] \in Ancestors(head)
        /\ checkout[d] # NoCommit => /\ role[checkout[d]] = "mainline"
                                     /\ base[d] \in Ancestors(checkout[d])

(* A publication that removes protected files from the Head, or restores   *)
(* old ones, is one the user confirmed by the id of that very candidate,   *)
(* whichever command sent it.                                              *)
PublicationsConfirmed ==
    [][head' # head /\ (Protected(Tree(head), Tree(head)') \/ head' \in Restores)
         => head' \in approved]_vars

(* A candidate that meets the Head it expects is accepted.                 *)
CandidatesAccepted ==
    \A m \in net : m.expected = head => Accepts(m.candidate)

(* The same as long as the Sync Base it was captured on is a mainline      *)
(* commit: the chains of candidates the client builds over conflicts are   *)
(* chains the server takes.                                                *)
AnchoredCandidatesAccepted ==
    \A m \in net :
        LET root == CHOOSE c \in SecondChain(m.candidate) :
                        commits[c].second = NoCommit
        IN  /\ m.expected = head
            /\ role[commits[root].first] = "mainline"
            => Accepts(m.candidate)

(* A row that is not published while the worktree has changed is given up  *)
(* sooner or later, or the worktree changes back.                          *)
StaleCandidatesDiscarded ==
    \A d \in Devices :
        []<>(pending[d] = NoPending \/ worktree[d] = CapturedTree(d))

(* The device waits for its user to confirm a deletion or a restore.       *)
Waits(d) == (pending[d].protected \/ IsRestore(d)) /\ ~ pending[d].confirmed

(* Its row was overtaken by another device and its worktree has changed:   *)
(* neither Discard nor ReplacePending can be taken.                        *)
Superseded(d) ==
    /\ pending[d] # NoPending /\ ~ IsRestore(d)
    /\ worktree[d] # CapturedTree(d)
    /\ head # pending[d].expected
    /\ ~ Published(d, head)

(* If users edit between runs, runs are not killed and answers are not     *)
(* late, every device ends up at the Head for good, unless it waits for    *)
(* its own user or was superseded; nobody waits for another device.        *)
Converges ==
    <>[](\A d \in Devices :
            \/ Waits(d) \/ Superseded(d)
            \/ base[d] = head /\ worktree[d] = Tree(head))
=============================================================================
