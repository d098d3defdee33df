---------------------------- MODULE SyncCheckout ----------------------------
(***************************************************************************)
(* The checkout of a target snapshot into a worktree: the first one of a   *)
(* bind and the one that ends a synchronisation (library_sync.go,          *)
(* library_checkout.go), with its recovery, its rollback, and unbind.      *)
(*                                                                         *)
(* A synchronisation moves every top-level path to a hidden recovery name, *)
(* installs the target beside it, moves captured local files to the        *)
(* conflict names the merge gave them (promotion), checks the whole tree,  *)
(* advances the Sync Base in one transaction and only then deletes what it *)
(* captured.  The user works in the tree all the time; the process may be  *)
(* killed at any step, and the next command starts from the rows and the   *)
(* paths alone.                                                            *)
(*                                                                         *)
(* Each action is one transaction, one system call with the checks made    *)
(* right before it, or one check of the tree.  Where the code repeats a    *)
(* check and changes nothing in between, the model makes the last one.     *)
(***************************************************************************)
EXTENDS FSActions, RestorePlan

CONSTANTS
    Scenarios,   \* what is checked out over what, and what the user and the system do at most
    EditData     \* what the user writes, in order

VARIABLES
    scenario,    \* one of Scenarios
    edits,       \* edits the user made
    kills,
    owed,        \* contents of files the user did not discard: the base's and his own
    adopted      \* those of them that a new snapshot of a captured directory took over

world == <<scenario, edits, kills, owed>>
vars  == <<fs, db, run, world, adopted>>

(***************************************************************************)
(* A scenario.  The captured local tree (base) is merged with the Heads    *)
(* that overtook it, one after the other, over the Sync Base they have in  *)
(* common; the result (target) and the moves of captured files (promote)   *)
(* are what the checkout is given.  base and target are sequences of       *)
(* entries [path, kind, data], parents first; names are the paths the user *)
(* may create, edits and kills bound what happens.                         *)
(***************************************************************************)
Listed(t) == SetToSortSeq({t[p] @@ [path |-> p] : p \in DOMAIN t}, LAMBDA e, f : Len(e.path) < Len(f.path))

NoRestore == [source |-> <<>>, path |-> <<>>, changed |-> {}, removed |-> {}]

Scenario(ancestor, captured, remotes, names) ==
    LET merged == Replay(ancestor, captured, remotes) IN
    [bind |-> FALSE, unbind |-> FALSE, ancestor |-> ancestor, remotes |-> remotes,
     base |-> Listed(captured), target |-> Listed(merged.tree),
     promote |-> MovedConflictPromotions(merged.lineage), names |-> names, edits |-> 0, kills |-> 0,
     restore |-> NoRestore]

(* A published restore: its commit is the only new one, nothing was local. *)
Restoration(current, source, path) ==
    LET plan == Overlay(current, source, path) IN
    [Scenario(current, current, <<plan.tree>>, {}) EXCEPT !.restore =
        [source |-> source, path |-> path, changed |-> plan.changed, removed |-> plan.removed]]

(* What a scenario is: two snapshots, moves of files of the first to files *)
(* of the second that differ pairwise, and edits that nobody made before.  *)
Snapshot(entries) ==
    /\ entries \in Seq(Range(entries))
    /\ \A e \in Range(entries) :
          /\ VisiblePath(e.path) /\ e.kind \in {"File", "Directory"} /\ e.data \notin Range(EditData)
          /\ \A i \in 1 .. Len(e.path) - 1 :
                 \E d \in Range(entries) : d.path = SubSeq(e.path, 1, i) /\ d.kind = "Directory"
    /\ \A i, j \in DOMAIN entries : entries[i].path = entries[j].path => i = j

Moves(s) ==
    /\ s.promote \in Seq(Range(s.promote))
    /\ \A m \in Range(s.promote) :
          /\ m.source # m.target
          /\ \E e \in Range(s.base) : e.path = m.source /\ e.kind = "File"
          /\ \E e \in Range(s.target) : e.path = m.target /\ e.kind = "File"
    /\ \A i, j \in DOMAIN s.promote :
          s.promote[i].source = s.promote[j].source \/ s.promote[i].target = s.promote[j].target => i = j

ASSUME ScenarioAssumption == \A s \in Scenarios :
    /\ Snapshot(s.base) /\ Snapshot(s.target) /\ Moves(s)
    /\ \A p \in s.names : VisiblePath(p)
    /\ s.edits \in 0 .. Len(EditData) /\ s.kills \in Nat
ASSUME EditAssumption ==
    /\ EditData \in Seq(Range(EditData)) /\ \A i, j \in DOMAIN EditData : EditData[i] = EditData[j] => i = j
    /\ {Blank, Raw} \cap Range(EditData) = {}

Entries == scenario.target
Promote == scenario.promote
Tops    == SetToSeq({e \in Range(scenario.base) : Len(e.path) = 1})

ShapeOf(entries) == [p \in {e.path : e \in Range(entries)} |->
                        LET e == CHOOSE x \in Range(entries) : x.path = p IN
                        [kind |-> e.kind, data |-> e.data]]
BaseShape   == ShapeOf(scenario.base)
TargetShape == ShapeOf(scenario.target)
BaseBelow(p) == [s \in {Rest(p, q) : q \in {r \in DOMAIN BaseShape : IsPrefix(p, r)}} |-> BaseShape[p \o s]]
FileShape(data) == [s \in {<<>>} |-> [kind |-> "File", data |-> data]]

RecoveryName(p)  == Internal(p, "recovery", 0)
TombstoneName(p) == Internal(p, "tombstone", 0)
RollbackName(p)  == Internal(p, "rollback", 0)
TempName(p)      == Internal(p, "temp", rows[p].temp)
Top(p) == SubSeq(p, 1, 1)
HiddenAt(s) == RecoveryName(Top(s)) \o Rest(Top(s), s)    \* a captured path under its hidden name

NoPending == [state |-> "none", stamp |-> NoStamp]
NewPath == [temp |-> 0, tempId |-> None, targetId |-> None, completed |-> FALSE,
            tombstone |-> FALSE, create |-> None]
Without(f, p) == [q \in DOMAIN f \ {p} |-> f[q]]

(***************************************************************************)
(* The forms of a step.  The process runs and has no intent to execute.    *)
(***************************************************************************)
At(stage) == run.stage = stage /\ Intents = {}
Acted == run.step = "moved"            \* the action this item asked for has just completed
Enter(stage, at) == Goto(stage, at) /\ UNCHANGED <<fs, db>>
Next1 == Enter(run.stage, run.at + 1)
Commit(new, stage, at) == db' = new /\ Goto(stage, at) /\ UNCHANGED fs
SetRow(p, row) == [db EXCEPT !.rows[p] = row]

NextItem(kind, i) ==
    LET S == {j \in i .. Len(Entries) : Entries[j].kind = kind} IN IF S = {} THEN Len(Entries) + 1 ELSE Min(S)
LastItem(kind, i) ==
    LET S == {j \in 1 .. i : Entries[j].kind = kind} IN IF S = {} THEN 0 ELSE Max(S)

(***************************************************************************)
(* Commands.  Each begins by replaying the journal (Execute), then looks   *)
(* at what is pending.                                                     *)
(***************************************************************************)
Start ==
    /\ run = NoRun
    /\ \E cmd \in {"bind", "sync", "unbind"} :
         /\ cmd = "bind" => index = "none"
         /\ cmd = "sync" => index \in {"base", "target"}
         /\ cmd = "unbind" => scenario.unbind
         /\ run' = [NoRun EXCEPT !.cmd = cmd, !.stage = "recover"]
    /\ UNCHANGED <<fs, db>>

Plan ==      \* syncLibrary: nothing local to publish, a new target
    Require(index = "base" /\ Scan(tree, {}, {}) = BaseShape,
            Commit([db EXCEPT !.pending = [NoPending EXCEPT !.state = "pending"]], "rows", 0))

PlanSync == At("plan") /\ Plan

Dispatch ==
    /\ At("recover")
    /\ CASE run.cmd = "bind" ->
              IF pending # NoPending THEN Enter("rows", 0)
              ELSE Require(Scan(tree, {}, {}) = BaseShape,
                           Commit([db EXCEPT !.pending = [NoPending EXCEPT !.state = "pending"]], "rows", 0))
         [] run.cmd = "unbind" -> Enter("temps", 0)
         [] OTHER ->
              CASE pending.state = "none"         -> Plan
                [] pending.state = "finalized"    -> Enter("cleanup", 1)
                [] pending.state = "rolling_back" -> Enter("restore", 1)
                [] OTHER                          -> Enter("rows", 0)

SaveCheckoutPaths ==
    /\ At("rows")
    /\ Commit([db EXCEPT !.rows = [p \in DOMAIN TargetShape |-> IF p \in DOMAIN @ THEN @[p] ELSE NewPath]],
              IF run.cmd = "bind" THEN "directories"
              ELSE IF pending.state = "pending" THEN "register" ELSE "prepare",
              IF run.cmd = "bind" THEN NextItem("Directory", 1) ELSE 1)

(***************************************************************************)
(* The plan: every top-level path is captured, with what was scanned.      *)
(***************************************************************************)
ClearUnstartedCheckout ==
    /\ db' = [db EXCEPT !.rows = <<>>, !.pending = NoPending]
    /\ run' = NoRun /\ UNCHANGED fs

RegisterRecoveryPlan ==
    /\ At("register")
    /\ IF Scan(tree, {}, {}) # BaseShape THEN ClearUnstartedCheckout
       ELSE Commit([db EXCEPT
                !.recoveries = [p \in {e.path : e \in Range(Tops)} |->
                    [id |-> tree[p].id, shape |-> Shape(tree, p), completed |-> FALSE, tombstone |-> FALSE]],
                !.pending = [state |-> "applying", stamp |-> tree[<<>>].data]], "prepare", 1)

(***************************************************************************)
(* Completed promotions.  A promoted file that changed again is moved to   *)
(* the next conflict name, and its fixed target path is to be downloaded.  *)
(***************************************************************************)
PromotedTo(s) == (CHOOSE m \in Range(Promote) : m.source = s).target
CurrentOf(s) == Row(links[s].current)
Settled(s) == LET c == CurrentOf(s) IN Holds(tree, c.target, c.id, c.shape)

InstalledFile(p) == \E id \in {rows[p].tempId, rows[p].targetId} : Holds(tree, p, id, FileShape(TargetShape[p].data))
NeedsReset(s) == LET t == PromotedTo(s) IN
                 CurrentOf(s).attempt > 0 /\ rows[t].completed /\ ~ InstalledFile(t)
ResetPromoted(s) == LET t == PromotedTo(s) IN
                    Commit(SetRow(t, [NewPath EXCEPT !.create = rows[t].create]), run.stage, run.at)

(***************************************************************************)
(* prepareSyncRecoveries: check each path, look again, rename, record.     *)
(***************************************************************************)
PrepareCompleted(p) ==
    LET mine == {s \in DOMAIN links : Top(s) = p} unsettled == {s \in mine : ~ Settled(s)}
        stale == {s \in mine : NeedsReset(s)} IN
    CASE unsettled # {} -> JournalLatePromotion(CHOOSE s \in unsettled : TRUE)
      [] unsettled = {} /\ stale # {} -> ResetPromoted(CHOOSE s \in stale : TRUE)
      [] OTHER -> Require(\/ HasId(tree, RecoveryName(p), recoveries[p].id)
                          \/ ~ Exists(RecoveryName(p)) /\ p \in mine, Next1)

Capture(p, r) ==
    IF run.step = "start" THEN
        Require(Holds(tree, p, r.id, r.shape),
                run' = [run EXCEPT !.step = "verified"] /\ UNCHANGED <<fs, db>>)
    ELSE IF HasId(tree, p, r.id) THEN
        JournalRename("pre_base", p, RecoveryName(p), r.id)
    ELSE Require(tree[p].kind = "File" /\ r.shape[<<>>].kind = "File",
                 Tx([db EXCEPT !.recoveries[p].id = tree[p].id]))

PrepareRecovery ==
    /\ At("prepare") /\ run.at <= Len(Tops)
    /\ LET p == Tops[run.at].path r == recoveries[p] IN
       IF r.completed THEN PrepareCompleted(p)
       ELSE IF Acted \/ (~ Exists(p) /\ HasId(tree, RecoveryName(p), r.id))
       THEN Commit([db EXCEPT !.recoveries[p].completed = TRUE], "prepare", run.at + 1)
       ELSE IF Exists(p) /\ ~ Exists(RecoveryName(p)) THEN Capture(p, r) ELSE Fail

Prepared == At("prepare") /\ run.at > Len(Tops) /\ Enter("directories", NextItem("Directory", 1))

(***************************************************************************)
(* Installing a path.  Its parents must be the directories the rows name.  *)
(* The temporary name is registered, created (an intent of its own) and    *)
(* identified before anything is written to it.                            *)
(***************************************************************************)
ParentsHeld(p) == \A i \in 1 .. Len(p) - 1 :
    LET d == SubSeq(p, 1, i) IN rows[d].targetId # None /\ IsDir(tree, d) /\ HasId(tree, d, rows[d].targetId)

RegisterTemp(p) ==
    Tx(SetRow(p, [rows[p] EXCEPT !.temp = IF @ # 0 THEN @ ELSE
                      IF rows[p].create = None THEN 1 ELSE 1 + Last(Row(rows[p].create).path)[3]]))

Created(p) == {a \in journal : a.order = rows[p].create /\ a.outcome = "" /\ a.path = TempName(p)}
CreatedId(p) == (CHOOSE a \in Created(p) : TRUE).id      \* completedFSCreateIdentity

CreateTemp(p, kind) ==
    IF rows[p].create = None
    THEN JournalCreate(p, TempName(p), kind)
    ELSE Require(Created(p) # {} /\ HasId(tree, TempName(p), CreatedId(p)),      \* recordCheckoutTempIdentity
                 Tx(SetRow(p, [rows[p] EXCEPT !.tempId = CreatedId(p)])))

InstallTemp(p) == JournalRename("pre_base", TempName(p), p, rows[p].tempId)

InstallDirectory ==
    /\ At("directories") /\ run.at <= Len(Entries)
    /\ LET p == Entries[run.at].path r == rows[p]
           record == Commit(SetRow(p, [r EXCEPT !.targetId = tree[p].id, !.completed = TRUE]), "directories",
                            NextItem("Directory", run.at + 1))
       IN  IF r.temp = 0 THEN RegisterTemp(p)
           ELSE IF ~ ParentsHeld(p) THEN Fail
           ELSE IF Exists(p)
           THEN IF tree[p].kind # "Directory" \/ tree[p].id \notin {r.targetId, r.tempId} THEN Fail
                ELSE IF r.completed /\ tree[p].id = r.targetId
                     THEN Enter("directories", NextItem("Directory", run.at + 1)) ELSE record
           ELSE IF r.tempId = None THEN CreateTemp(p, "Directory")
           ELSE Require(HasId(tree, TempName(p), r.tempId), InstallTemp(p))

DirectoriesInstalled ==
    /\ At("directories") /\ run.at > Len(Entries)
    /\ IF run.cmd = "bind" THEN Enter("files", NextItem("File", 1)) ELSE Enter("promote", 1)

(***************************************************************************)
(* promoteCapturedConflictFiles: a captured file whose content is the one  *)
(* merged goes to its fixed conflict path, one that changed to the next    *)
(* free name.  At the end every captured directory is looked at afresh.    *)
(***************************************************************************)
FreeOrdinals(p) == {i \in Last(p)[3] + 1 .. MaxOrdinal : ~ Exists(Renamed(p, "user", i))}
NextFree(p) == Renamed(p, "user", Min(FreeOrdinals(p)))

RegisterPromoted(t) ==
    LET r == rows[t] id == tree[t].id next == run.at + 1 IN
    IF r.completed /\ r.targetId = id THEN Next1
    ELSE Require(~ r.completed \/ r.targetId = None,
                 Commit(SetRow(t, [r EXCEPT !.tempId = id, !.targetId = id, !.completed = TRUE]), "promote", next))

PromoteCaptured ==
    /\ At("promote") /\ run.at <= Len(Promote)
    /\ LET s == Promote[run.at].source t == Promote[run.at].target here == HiddenAt(s)
           fixed == Shape(tree, here) = FileShape(BaseShape[s].data) /\ TargetShape[t] = BaseShape[s]
       IN  IF Exists(here)
           THEN Require(/\ s \notin DOMAIN links /\ tree[here].kind = "File" /\ ParentsHeld(t)
                        /\ fixed \/ FreeOrdinals(t) # {},
                        JournalPromotion(s, here, IF fixed THEN t ELSE NextFree(t)))
           ELSE IF s \notin DOMAIN links THEN Fail
           ELSE IF Acted /\ NeedsReset(s) THEN ResetPromoted(s)
           ELSE IF ~ Settled(s) THEN JournalLatePromotion(s)
           ELSE IF CurrentOf(s).target = t THEN RegisterPromoted(t) ELSE Next1

Below(p) == {tree[q].data : q \in {r \in Under(tree, p) : tree[r].kind = "File"}}
SnapshotDirectories ==
    /\ At("promote") /\ run.at > Len(Promote)
    /\ LET taken == {p \in DOMAIN recoveries : recoveries[p].shape[<<>>].kind = "Directory"} IN
       /\ Commit([db EXCEPT !.recoveries = [p \in DOMAIN @ |->
                     IF p \in taken THEN [@[p] EXCEPT !.shape = Shape(tree, RecoveryName(p))] ELSE @[p]]], "late1", 1)
       /\ adopted' = adopted \cup (owed \cap UNION {Below(RecoveryName(p)) : p \in taken})

(***************************************************************************)
(* reconcilePromotedConflictFiles, called after the directories, after the *)
(* files, before the final check and when that fails.                      *)
(***************************************************************************)
AfterLate == [late1 |-> "files", late2 |-> "verify", late3 |-> "recheck", late4 |-> "end"]

Reconcile ==
    /\ run.stage \in DOMAIN AfterLate /\ Intents = {} /\ run.at <= Len(Promote)
    /\ LET s == Promote[run.at].source IN
       IF Acted /\ NeedsReset(s) THEN ResetPromoted(s)
       ELSE IF ~ Settled(s) THEN JournalLatePromotion(s) ELSE Next1
Reconciled ==
    /\ run.stage \in DOMAIN AfterLate /\ Intents = {} /\ run.at > Len(Promote)
    /\ IF run.stage = "late4" THEN Fail
       ELSE Enter(AfterLate[run.stage], IF run.stage = "late1" THEN NextItem("File", 1) ELSE 1)

(***************************************************************************)
(* installCheckoutFile.  A target that exists must be the registered file  *)
(* with the target's content.  A temporary file that vanished is created   *)
(* once more outside the journal, and recording its identity fails.        *)
(***************************************************************************)
WriteFile(p) ==
    LET t == TempName(p) want == Entries[run.at].data IN
    IF tree[t].data = want THEN InstallTemp(p)
    ELSE IF tree[t].data = Raw THEN
        JournalMtime("pre_base", t, rows[p].tempId, want)
    ELSE Call(Stamped(tree, t, Raw)) /\ UNCHANGED run

RecreateTemp(p) ==
    /\ lastId' = lastId + 1 /\ tree' = Made(tree, TempName(p), lastId + 1, "File", Blank)
    /\ run' = NoRun /\ UNCHANGED db

VerifyInstalledFile(p) ==
    /\ rows[p].tempId # None /\ HasId(tree, p, rows[p].tempId)
    /\ Acted \/ Shape(tree, p) = FileShape(TargetShape[p].data)

InstallFile ==
    /\ At("files") /\ run.at <= Len(Entries)
    /\ LET p == Entries[run.at].path r == rows[p] next == NextItem("File", run.at + 1) IN
       IF ~ ParentsHeld(p) THEN Fail
       ELSE IF Exists(p)
       THEN IF ~ VerifyInstalledFile(p) THEN Fail
            ELSE IF r.completed THEN Enter("files", next)
            ELSE Commit(SetRow(p, [r EXCEPT !.completed = TRUE]), "files", next)
       ELSE IF r.temp = 0 THEN RegisterTemp(p)
       ELSE IF r.tempId = None THEN CreateTemp(p, "File")
       ELSE IF ~ Exists(TempName(p)) THEN RecreateTemp(p)
       ELSE Require(HasId(tree, TempName(p), r.tempId), WriteFile(p))

FilesInstalled == At("files") /\ run.at > Len(Entries) /\ Enter("mtimes", LastItem("Directory", Len(Entries)))

SetDirectoryMtime ==
    /\ At("mtimes") /\ run.at > 0
    /\ LET p == Entries[run.at].path IN
       IF Acted \/ (ParentsHeld(p) /\ HasId(tree, p, rows[p].targetId) /\ tree[p].data = Entries[run.at].data)
       THEN Enter("mtimes", LastItem("Directory", run.at - 1))
       ELSE Require(ParentsHeld(p) /\ HasId(tree, p, rows[p].targetId),
                    JournalMtime("pre_base", p, tree[p].id, Entries[run.at].data))
Materialized == At("mtimes") /\ run.at = 0 /\ Enter(IF run.cmd = "bind" THEN "bindscan" ELSE "late2", 1)

(***************************************************************************)
(* Bind: the tree is the target, then the binding appears.                 *)
(***************************************************************************)
BindScan == At("bindscan") /\ Require(Scan(tree, {}, {}) = TargetShape, Enter("bindcommit", 0))
FinalizeCheckout ==
    /\ At("bindcommit")
    /\ IF pending.state = "pending" /\ \A p \in DOMAIN rows : rows[p].completed
       THEN /\ db' = [db EXCEPT !.index = "target", !.rows = <<>>, !.pending = NoPending, !.journal = {}]
            /\ run' = NoRun /\ UNCHANGED fs
       ELSE Fail

(***************************************************************************)
(* The check of a synchronisation.  Captured content that changed turns    *)
(* the checkout back; anything else that differs leaves it as it is.       *)
(***************************************************************************)
CapturedAt(p) == IF recoveries[p].tombstone THEN TombstoneName(p) ELSE RecoveryName(p)
VerifyAll == \A p \in DOMAIN recoveries :
    LET r == recoveries[p] IN
    /\ r.completed
    /\ \/ r.shape[<<>>].kind = "File" /\ p \in DOMAIN links /\ ~ Exists(CapturedAt(p))
       \/ Holds(tree, CapturedAt(p), r.id, r.shape)

Late == {a.target : a \in {c \in journal : IsPromotion(c) /\ c.origin # None /\ c.state = "completed"}}
        \cup {CurrentOf(s).target : s \in {x \in DOMAIN links : CurrentOf(x).target # PromotedTo(x)}}
Registered == {Last(RecoveryName(p)) : p \in DOMAIN recoveries}
              \cup {Last(TombstoneName(p)) : p \in {q \in DOMAIN recoveries : recoveries[q].tombstone}}
TargetReached == Scan(tree, Registered, Late) = TargetShape

BeginRollback == [db EXCEPT !.pending.state = "rolling_back"]

VerifyCaptured ==
    /\ At("verify")
    /\ IF VerifyAll THEN Enter("scan", 0)
       ELSE /\ db' = BeginRollback /\ UNCHANGED fs
            /\ run' = [run EXCEPT !.cmd = "abort", !.stage = "restore", !.at = 1, !.step = "start"]
ScanTarget == At("scan") /\ Require(TargetReached, Enter("late3", 1))
Recheck == At("recheck") /\ Require(VerifyAll /\ TargetReached, Enter("finalize", 1))

FinalizeSyncApply ==
    /\ At("finalize")
    /\ IF VerifyAll /\ TargetReached /\ \A a \in Intents : a.phase # "pre_base"
       THEN Commit([db EXCEPT !.index = "target", !.pending.state = "finalized"], "cleanup", 1)
       ELSE Enter("late4", 1)

(***************************************************************************)
(* Cleanup, after the Sync Base moved: each captured path goes to a        *)
(* tombstone and is deleted, a directory entry by entry along one plan.    *)
(***************************************************************************)
(* Mutant of Consumed: the links of the recovery stay.                     *)
ConsumedKeepingLinks(p) == [db EXCEPT !.recoveries = Without(@, p)]

Consumed(p) ==      \* consumeSyncRecovery: the recovery, its links and their chains
    LET mine == {s \in DOMAIN links : Top(s) = p}
        owned == {a \in journal : \E s \in mine : RootOf(a) = RootOf(Row(links[s].current)) \/ a.order = links[s].rollback}
    IN  [db EXCEPT !.recoveries = Without(@, p), !.journal = @ \ owned,
                   !.links = [s \in DOMAIN @ \ mine |-> @[s]]]

DeepestFirst(S) == CHOOSE f \in [1 .. Cardinality(S) -> S] :
    IsInjective(f) /\ \A i, j \in DOMAIN f : i < j => Len(f[i]) >= Len(f[j])

RemovalPlan(p) ==      \* one transaction: the entries below, deepest first, then the directory
    LET t == TombstoneName(p)
        all == DeepestFirst(Under(tree, t))
        removal(i) == [Removal("post_base", all[i], tree[all[i]].id) EXCEPT !.order = NextOrder + i - 1]
    IN  [db EXCEPT !.journal = @ \cup {removal(i) : i \in DOMAIN all}]

CleanupRecovery ==
    /\ At("cleanup") /\ run.at <= Len(Tops)
    /\ LET p == Tops[run.at].path IN
       IF p \notin DOMAIN recoveries THEN Next1
       ELSE LET r == recoveries[p] here == Exists(RecoveryName(p)) there == Exists(TombstoneName(p)) IN
            CASE ~ r.tombstone -> Tx([db EXCEPT !.recoveries[p].tombstone = TRUE])
              [] r.tombstone /\ here /\ ~ there ->
                     Require(HasId(tree, RecoveryName(p), r.id),
                             JournalRename("post_base", RecoveryName(p), TombstoneName(p), r.id))
              [] r.tombstone /\ ~ here /\ there ->
                     Require(Holds(tree, TombstoneName(p), r.id, r.shape),
                             IF r.shape[<<>>].kind = "Directory" THEN Tx(RemovalPlan(p))
                             ELSE JournalRemove("post_base", TombstoneName(p), r.id))
              [] r.tombstone /\ ~ here /\ ~ there -> Commit(Consumed(p), "cleanup", run.at + 1)
              [] OTHER -> Fail

FinishSyncCleanup ==
    /\ At("cleanup") /\ run.at > Len(Tops)
    /\ IF run.cmd = "unbind" THEN Enter("unbind", 0)
       ELSE /\ db' = [db EXCEPT !.rows = <<>>, !.pending = NoPending, !.journal = Intents]
            /\ run' = NoRun /\ UNCHANGED fs

(***************************************************************************)
(* Rollback.  Promoted files return to their captured places, a directory  *)
(* they came from is expected to be what was scanned.                      *)
(***************************************************************************)
RestorePromoted ==
    /\ At("restore") /\ run.at <= Len(Promote)
    /\ LET s == Promote[run.at].source IN
       IF s \notin DOMAIN links THEN Next1
       ELSE IF links[s].rollback # None THEN Next1
       ELSE JournalRestorePromotion(s, HiddenAt(s),
                IF Parent(s) = <<>> THEN NoStamp ELSE BaseShape[Parent(s)].data)

RestoreMetadata ==
    /\ At("restore") /\ run.at > Len(Promote)
    /\ LET from == {Top(s) : s \in {x \in DOMAIN links : Len(x) > 1}} IN
       Commit([db EXCEPT !.recoveries = [p \in DOMAIN @ |->
                  IF p \in from THEN [@[p] EXCEPT !.shape = BaseBelow(p)] ELSE @[p]]], "temps", 1)

(***************************************************************************)
(* Registered temporaries that exist are removed, if they are known to be  *)
(* the client's.  Unbind does it once before it looks at what is pending.  *)
(***************************************************************************)
TempId(p) == IF rows[p].tempId # None THEN rows[p].tempId ELSE IF Created(p) # {} THEN CreatedId(p) ELSE None

(* Mutant of CleanupTemps: a temporary whose identity only its creation    *)
(* recorded is passed over.                                                *)
CleanupTempsRecorded ==
    /\ At("temps")
    /\ LET left == {p \in DOMAIN rows : rows[p].tempId # None /\ Exists(TempName(p))} IN
       IF left # {}
       THEN LET p == CHOOSE q \in left : TRUE t == TempName(p) IN
            Require(HasId(tree, t, TempId(p)),
                    JournalRemove("rollback", t, TempId(p)))
       ELSE IF run.at = 1 THEN Enter("uninstall", 1)
       ELSE CASE pending.state = "none"      -> Enter("unbind", 0)
              [] pending.state = "finalized" -> Enter("cleanup", 1)
              [] pending.state = "pending"   -> Enter("restore", 1)
              [] OTHER                       -> Commit(BeginRollback, "restore", 1)

CleanupTemps ==
    /\ At("temps")
    /\ LET named == {p \in DOMAIN rows : rows[p].temp # 0}
           left == {p \in named : Exists(TempName(p))} IN
       IF \E p \in named : ~ Exists(Parent(p)) THEN Fail
       ELSE IF left # {}
       THEN LET p == CHOOSE q \in left : TRUE t == TempName(p) IN
            Require(TempId(p) # None /\ HasId(tree, t, TempId(p)),
                    JournalRemove("rollback", t, TempId(p)))
       ELSE IF run.at = 1 THEN Enter("uninstall", 1)
       ELSE CASE pending.state = "none"      -> Enter("unbind", 0)
              [] pending.state = "finalized" -> Enter("cleanup", 1)
              [] pending.state = "pending"   -> Enter("restore", 1)
              [] OTHER                       -> Commit(BeginRollback, "restore", 1)

(***************************************************************************)
(* Installed paths go to a registered name and are deleted: files first,   *)
(* then directories, the deepest first.                                    *)
(***************************************************************************)
Uninstalls == SelectSeq(Reverse(Entries), LAMBDA e : e.kind = "File")
              \o SelectSeq(Reverse(Entries), LAMBDA e : e.kind = "Directory")
InstalledId(p) == IF TargetShape[p].kind = "Directory" /\ rows[p].targetId # None
                  THEN rows[p].targetId ELSE rows[p].tempId
Unchanged(p, at) ==      \* verifyRollbackCheckoutTarget
    /\ HasId(tree, at, InstalledId(p))
    /\ TargetShape[p].kind = "File" => Shape(tree, at) = FileShape(TargetShape[p].data)

PreservedBy(p) == \E a \in journal : a.order = rows[p].create /\ a.outcome = "rolled_back" /\ Chain(a.order) # {}
ForgetPath(p) == IF PreservedBy(p) THEN Next1
                 ELSE Commit([db EXCEPT !.rows = Without(@, p)], "uninstall", run.at + 1)

UninstallPath ==
    /\ At("uninstall") /\ run.at <= Len(Uninstalls)
    /\ LET p == Uninstalls[run.at].path IN
       IF p \notin DOMAIN rows THEN Next1
       ELSE LET here == Exists(p) there == Exists(RollbackName(p)) named == rows[p].tombstone IN
            CASE ~ Exists(Parent(p)) \/ (Acted /\ ~ there) \/ (~ here /\ ~ (named /\ there)) -> ForgetPath(p)
              [] Exists(Parent(p)) /\ (Acted \/ ~ here) /\ there ->
                     Require(Unchanged(p, RollbackName(p)),
                             JournalRemove("rollback", RollbackName(p), InstalledId(p)))
              [] ~ Acted /\ here /\ ~ there ->
                     Require(Unchanged(p, p),
                             IF ~ named THEN Tx(SetRow(p, [rows[p] EXCEPT !.tombstone = TRUE]))
                             ELSE JournalRename("rollback", p, RollbackName(p), InstalledId(p)))
              [] OTHER -> Fail
Uninstalled == At("uninstall") /\ run.at > Len(Uninstalls) /\ Enter("hidden", 1)

(***************************************************************************)
(* Captured paths return, unchanged, to their visible names.               *)
(***************************************************************************)
RestoreRecovery ==
    /\ At("hidden") /\ run.at <= Len(Tops)
    /\ LET p == Tops[run.at].path hidden == RecoveryName(p) IN
       IF p \notin DOMAIN recoveries THEN Next1
       ELSE LET r == recoveries[p] IN
            IF Acted \/ (~ Exists(hidden) /\ Holds(tree, p, r.id, r.shape))
            THEN Commit(Consumed(p), "hidden", run.at + 1)
            ELSE Require(~ Exists(p) /\ Holds(tree, hidden, r.id, r.shape),
                         JournalRename("rollback", hidden, p, r.id))
Restored == At("hidden") /\ run.at > Len(Tops) /\ Enter("root", 0)

(* Mutant of RestoreRootMtime: the mtime of the root stays as it is.       *)
KeepRootMtime == At("root") /\ Enter("clear", 1)

RestoreRootMtime ==
    /\ At("root")
    /\ LET done == {a \in journal : a.op = "mtime" /\ a.path = <<>>} IN
       IF pending.state # "rolling_back" \/ Acted THEN Enter("clear", 1)
       ELSE IF done # {} THEN Require(tree[<<>>].data = pending.stamp, Enter("clear", 1))
       ELSE JournalMtime("rollback", <<>>, tree[<<>>].id, pending.stamp)

(***************************************************************************)
(* The end of a rollback: two transactions, then a new synchronisation,    *)
(* the error that began it, or the end of unbind.                          *)
(***************************************************************************)
Cleared == [db EXCEPT !.rows = <<>>, !.recoveries = <<>>, !.links = <<>>, !.pending = NoPending]
ClearRollback ==
    /\ At("clear")
    /\ CASE run.at = 1 -> Commit([db EXCEPT !.journal = {}], "clear", 2)
         [] run.at = 2 /\ run.cmd = "unbind" -> Enter("unbind", 0)
         [] run.at = 2 /\ run.cmd = "sync"   -> Commit(Cleared, "plan", 0)
         [] OTHER -> db' = Cleared /\ run' = NoRun /\ UNCHANGED fs

RunLibraryUnbind ==
    /\ At("unbind")
    /\ db' = [Cleared EXCEPT !.journal = {}, !.index = "gone"]
    /\ run' = NoRun /\ UNCHANGED fs

(***************************************************************************)
(* The user.  A file is written in place by whoever has it open, under any *)
(* name it has by then; temporaries excepted, nobody else knows them.      *)
(* Other changes are made by visible name.                                 *)
(***************************************************************************)
Files == {p \in DOMAIN tree : tree[p].kind = "File"}
Contents == {tree[p].data : p \in Files}
Edit(lost, new) ==
    /\ edits < scenario.edits /\ edits' = edits + 1
    /\ owed' = (owed \ lost) \cup new
    /\ UNCHANGED <<db, run, scenario, kills, adopted>>
Written == EditData[edits + 1]

Write ==
    \E p \in {q \in Files : Last(q)[1] # "temp"} :
        /\ Edit({tree[p].data}, {Written})
        /\ tree' = Stamped(tree, p, Written) /\ UNCHANGED lastId
ReplaceFile ==
    \E p \in {q \in Files : ~ Hidden(q)} :
        /\ Edit({tree[p].data}, {Written})
        /\ tree' = Made(Removed(tree, p), p, lastId + 1, "File", Written) /\ lastId' = lastId + 1
CreateFile ==
    \E p \in scenario.names :
        /\ ~ Exists(p) /\ Exists(Parent(p)) /\ tree[Parent(p)].kind = "Directory"
        /\ Edit({}, {Written})
        /\ tree' = Made(tree, p, lastId + 1, "File", Written) /\ lastId' = lastId + 1
DeleteFile ==
    \E p \in {q \in Files : ~ Hidden(q)} :
        /\ Edit({tree[p].data}, {})
        /\ tree' = Removed(tree, p) /\ UNCHANGED lastId
User == Write \/ ReplaceFile \/ CreateFile \/ DeleteFile

Kill ==
    /\ run # NoRun /\ kills < scenario.kills
    /\ kills' = kills + 1 /\ run' = NoRun
    /\ UNCHANGED <<fs, db, scenario, edits, owed, adopted>>

(***************************************************************************)
(* The specification.  Watch starts a synchronisation again and again and  *)
(* the user a bind that failed; nothing else is expected of anybody.       *)
(***************************************************************************)
Init ==
    /\ scenario \in Scenarios
    /\ LET base == scenario.base IN
       /\ tree = [p \in {<<>>} \cup {base[i].path : i \in DOMAIN base} |->
                     IF p = <<>> THEN [id |-> 1, kind |-> "Directory", data |-> <<"", 0>>]
                     ELSE LET i == CHOOSE j \in DOMAIN base : base[j].path = p IN
                          [id |-> i + 1, kind |-> base[i].kind, data |-> base[i].data]]
       /\ lastId = Len(base) + 1
       /\ owed = {base[i].data : i \in {j \in DOMAIN base : base[j].kind = "File"}}
    /\ db = [journal |-> {}, pending |-> NoPending, rows |-> <<>>, recoveries |-> <<>>, links |-> <<>>,
             index |-> IF scenario.bind THEN "none" ELSE "base"]
    /\ run = NoRun
    /\ edits = 0 /\ kills = 0 /\ adopted = {}

Checkout == Dispatch \/ SaveCheckoutPaths \/ RegisterRecoveryPlan \/ PrepareRecovery \/ Prepared
            \/ InstallDirectory \/ DirectoriesInstalled \/ PromoteCaptured \/ Reconcile \/ Reconciled
            \/ InstallFile \/ FilesInstalled \/ SetDirectoryMtime \/ Materialized \/ BindScan \/ FinalizeCheckout
            \/ VerifyCaptured \/ ScanTarget \/ Recheck \/ FinalizeSyncApply \/ CleanupRecovery \/ FinishSyncCleanup
Rollback == RestorePromoted \/ RestoreMetadata \/ CleanupTemps \/ UninstallPath \/ Uninstalled \/ RestoreRecovery
            \/ Restored \/ RestoreRootMtime \/ ClearRollback \/ PlanSync \/ RunLibraryUnbind
Client ==
    \/ SnapshotDirectories /\ UNCHANGED world
    \/ (Execute \/ Checkout \/ Rollback) /\ UNCHANGED <<world, adopted>>
Command == Start /\ UNCHANGED <<world, adopted>>

Next == Command \/ Client \/ User \/ Kill
Spec == Init /\ [][Next]_vars
Again == Command /\ (run'.cmd = "unbind" <=> scenario.unbind)
FairSpec == Spec /\ WF_vars(Client) /\ SF_vars(Again)

-----------------------------------------------------------------------------
(* The types of the tables and of the worktree; an order names one row.    *)
TypeOK ==
    /\ pending.state \in {"none", "pending", "applying", "rolling_back", "finalized"}
    /\ index \in {"none", "base", "target", "gone"}
    /\ DOMAIN rows \subseteq DOMAIN TargetShape
    /\ DOMAIN recoveries \subseteq {e.path : e \in Range(Tops)}
    /\ \A a, c \in journal : a.order = c.order => a = c
    /\ <<>> \in DOMAIN tree /\ \A p \in DOMAIN tree : Parent(p) \in DOMAIN tree

BaseData == {e.data : e \in {x \in Range(scenario.base) : x.kind = "File"}}
Discarded == IF index = "base" THEN {} ELSE BaseData

(* What the user wrote and did not overwrite or delete himself is in some  *)
(* file of the worktree, and so is the base's content until the Sync Base  *)
(* has moved: captures, promotions, rollbacks and cleanups lose nothing,   *)
(* wherever they are cut and whatever the user changes.  Excepted is what  *)
(* the new snapshot of a captured directory takes over, for which          *)
(* CapturedEditsKept holds or not.                                         *)
NothingLost == owed \ (adopted \cup Discarded) \subseteq Contents

(* The same without the exception, as the design asks for it: an edit that *)
(* reaches a file after its capture is kept.                               *)
CapturedEditsKept == owed \ Discarded \subseteq Contents

(* Every journal the client leaves behind passes the validation of the     *)
(* next command; one that does not stops every later sync and unbind.      *)
(* Excepted is a chain of promotions that started over: a second collision *)
(* or a late promotion after one begins where the root of the chain ended, *)
(* and not, as the validator wants it, where the row before it did.        *)
StartedOver == \E a, c \in journal :
    /\ IsPromotion(a) /\ a.origin # None /\ a.origin \in {c.origin, c.order}
    /\ c.attempt = a.attempt - 1 /\ a.path # c.target
JournalAccepted == OwnershipAccepted /\ (ChainsAccepted \/ StartedOver)

Aside == {p \in DOMAIN tree \ {<<>>} : Last(p)[1] = "recovered"}
TreeIs(shape) == [p \in DOMAIN Scan(tree, {}, {}) \ Aside |-> Scan(tree, {}, {})[p]] = shape

(* A checkout has come to its end: the target is there, or the base is     *)
(* back beside an object of unknown origin that was moved aside, or the    *)
(* worktree is unbound, or a bind waits for an unbind beside such an       *)
(* object.                                                                 *)
Finished ==
    \/ index = "target" /\ pending = NoPending /\ TreeIs(TargetShape)
    \/ index = "base" /\ pending = NoPending /\ TreeIs(BaseShape) /\ Aside # {}
    \/ index = "gone"
    \/ scenario.bind /\ pending.state = "rolling_back" /\ Aside # {}

(* When the user changes nothing and repeats his command, the checkout     *)
(* comes to its end, whatever was killed and where, from the journal and   *)
(* the paths alone.                                                        *)
AlwaysCompletes == <>[](edits > 0 \/ Finished)

(* The same but for three states that no command gets out of: an object    *)
(* that was moved aside below a directory the rollback wants to remove, an *)
(* unbind that found a path of the base not captured yet, and a temporary  *)
(* created anew after an interrupted unbind had removed the first one.     *)
AsideBelow == \E p \in Aside : Len(p) > 1
TurnedBackEarly ==
    pending.state \in {"pending", "rolling_back"} /\ \E p \in DOMAIN rows : Exists(p) /\ rows[p].tempId = None
TempReplaced == \E p \in DOMAIN rows :
    rows[p].tempId # None /\ Exists(TempName(p)) /\ ~ HasId(tree, TempName(p), rows[p].tempId)
Completes == <>[](edits > 0 \/ Finished \/ AsideBelow \/ TurnedBackEarly \/ TempReplaced)

(* A rollback ends with the tree the checkout began with, the mtime of the *)
(* root included, however often it was interrupted.                        *)
RolledBack == [][pending.state = "rolling_back" /\ pending'.state = "none" /\ edits = 0 =>
                   TreeIs(BaseShape) /\ tree[<<>>].data = pending.stamp]_vars

(* Where the user left the worktree alone, a finished checkout holds what  *)
(* both sides did to their common base, conflict numbers aside: every file *)
(* either side changed, the remote's under its own path; nothing that one  *)
(* side deleted and the other did not touch, unless the local side removed *)
(* the directory around it; and nothing that neither side had.  The merge, *)
(* its replay over several Heads, the promotions and the checkout together *)
(* have to bring this about.                                               *)
Undisturbed == index = "target" /\ pending = NoPending /\ edits = 0
Namesakes(p, q) == Len(p) = Len(q) /\ \A i \in DOMAIN p : p[i][1] = q[i][1] /\ p[i][2] = q[i][2]
Bytes(t, p) == IF IsFile(t, p) THEN {t[p].data[1]} ELSE {}
Deleted(t, u, p) == p \notin DOMAIN t /\ IsFile(u, p) /\ Same(u, scenario.ancestor, p)
BothSidesMerged == Undisturbed =>
    LET ancestor == scenario.ancestor local == BaseShape remote == Last(scenario.remotes)
        sides == {local} \cup Range(scenario.remotes) IN
    /\ \A p \in DOMAIN local : Bytes(local, p) \subseteq
          Bytes(ancestor, p) \cup UNION {Bytes(tree, q) : q \in {x \in Files : Namesakes(p, x)}}
    /\ \A p \in DOMAIN remote : Bytes(remote, p) \subseteq Bytes(ancestor, p) \cup Bytes(tree, p)
    /\ \A p \in DOMAIN ancestor :
          /\ Deleted(remote, local, p) => ~ Exists(p)
          /\ Deleted(local, remote, p) /\ (Parent(p) = <<>> \/ IsDir(local, Parent(p))) => ~ Exists(p)
    /\ \A q \in Files : Bytes(tree, q) \subseteq
          UNION {UNION {Bytes(t, p) : p \in {x \in DOMAIN t : Namesakes(x, q)}} : t \in sides}

(* A restore that nobody disturbed gives the user what he confirmed: every *)
(* file of the source at or below the path he chose is back as it was, no  *)
(* file has a content that neither side had, what only the current tree    *)
(* had is gone only where the source has a file in place of a directory    *)
(* around it, and the preview named the paths that differ, all and only.   *)
RestoredAsPreviewed == Undisturbed /\ scenario.restore # NoRestore =>
    LET r == scenario.restore before == BaseShape
        after == [p \in DOMAIN Scan(tree, {}, {}) \ Aside |-> Scan(tree, {}, {})[p]] IN
    /\ \A p \in DOMAIN r.source : IsFile(r.source, p) /\ IsPrefix(r.path, p) =>
           p \in DOMAIN after /\ after[p] = r.source[p]
    /\ \A p \in DOMAIN after : IsFile(after, p) =>
           \E t \in {before, r.source} : p \in DOMAIN t /\ after[p] = t[p]
    /\ \A p \in DOMAIN before \ DOMAIN after :
           \E i \in 1 .. Len(p) - 1 : IsFile(r.source, SubSeq(p, 1, i))
    /\ {p \in DOMAIN before \cup DOMAIN after : ~ Same(before, after, p)} = r.changed \cup r.removed

(* A local file that got a conflict name is the file itself, not a copy,   *)
(* also below a directory that was renamed: a program that has it open     *)
(* goes on writing to what the user sees.                                  *)
ConflictKeepsFile == Undisturbed =>
    \A q \in {x \in Files : \E i \in DOMAIN x : x[i][3] > 0}, n \in DOMAIN scenario.base :
        LET e == scenario.base[n] IN
        Namesakes(e.path, q) /\ Bytes(BaseShape, e.path) = Bytes(tree, q) => tree[q].id = n + 1

(* When nothing is pending no internal name is left in the worktree: what  *)
(* the client hid has come back or is gone.                                *)
NothingHidden == pending = NoPending => \A p \in DOMAIN tree : ~ Hidden(p)
=============================================================================
